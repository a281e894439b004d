--------------------------- MODULE WorkspaceProofs ---------------------------
(* What the parts of a workspace promise whatever calls overlap and die and *)
(* whatever people do to the files meanwhile.                               *)
EXTENDS Workspace, FiniteSetTheorems, TLAPS

\* A step of the workspace is, for each of its parts, a step of that part or
\* none at all; the backup a migration needs is a step of the backups.
LEMMA AreaSteps ==
    ASSUME [Next]_vars
    PROVE  /\ [DocumentNext]_dvars /\ [SkillNext]_svars /\ [SpaceNext]_mvars /\ [CheckpointNext]_cvars
           /\ [DraftNext]_tvars /\ [InstallNext]_ivars /\ [BrandNext]_rvars /\ [BackupNext]_bvars
           /\ [MigrationNext]_mgvars /\ [GraphNext]_qvars /\ [EvidenceNext]_kvars
BY DEF Next, vars, BackupFirst

-----------------------------------------------------------------------------
(* Git checkpoints                                                          *)

\* No commit was made and nobody calls.
LEMMA CheckpointInvInit == CheckpointInit => CheckpointInv
BY DEF CheckpointInit, CheckpointInv, CheckpointTypeOK, CheckpointsAgree, EvidenceStages

\* A step that writes neither record nor ref keeps the invariant when the call it leaves stands.
LEMMA CheckpointCallMoves ==
    ASSUME CheckpointInv, NEW c \in Callers, NEW call \in CkCalls \cup {CkIdle},
           ccall' = [ccall EXCEPT ![c] = call],
           commits \subseteq commits', commits' \subseteq Commits,
           call # CkIdle => CkCallStands(call, pending, refs, done)',
           UNCHANGED <<evidence, head, pending, refs, done, verified>>
    PROVE  CheckpointInv'
BY DEF CheckpointInv, CheckpointTypeOK, CheckpointsAgree, CkCallStands

\* Every step of checkpoints and of the promotions and people around them keeps the invariant.
LEMMA CheckpointInvStep == CheckpointInv /\ [CheckpointNext]_cvars => CheckpointInv'
<1> SUFFICES ASSUME CheckpointInv, [CheckpointNext]_cvars PROVE CheckpointInv'
  OBVIOUS
<1>0. CheckpointTypeOK /\ CheckpointsAgree /\ CkIdle.step = "idle" /\ CkIdle \notin CkCalls /\ NoCommit \notin Commits
  BY DEF CheckpointInv, CkIdle, CkCalls, NoCommit, Commits, EvidenceStages
<1>a. /\ pending \in [Events -> commits \cup {NoCommit}] /\ refs \in [Events -> commits \cup {NoCommit}]
      /\ done \in [Events -> commits \cup {NoCommit}] /\ commits \subseteq Commits
  BY <1>0 DEF CheckpointTypeOK
<1>b. \A c \in Callers : ccall[c] # CkIdle => ccall[c] \in CkCalls /\ ccall[c].event \in Events
                                              /\ CkCallStands(ccall[c], pending, refs, done)
  BY <1>0 DEF CheckpointInv, CheckpointTypeOK, CkCalls
<1>c. \A c \in Callers, step \in {"ref", "record"} : ccall[c] # CkIdle =>
        /\ [ccall[c] EXCEPT !.step = step] \in CkCalls /\ [ccall[c] EXCEPT !.step = step].step = step
        /\ [ccall[c] EXCEPT !.step = step].event = ccall[c].event
        /\ [ccall[c] EXCEPT !.step = step].commit = ccall[c].commit
        /\ CkGo(c, step) => ccall' = [ccall EXCEPT ![c] = [ccall[c] EXCEPT !.step = step]]
  BY <1>0, <1>b DEF CheckpointTypeOK, CkCalls, CkGo
<1>1. CASE UNCHANGED cvars
  BY <1>0, <1>1 DEF cvars, CheckpointInv, CheckpointTypeOK, CheckpointsAgree, CkCallStands
<1>2. ASSUME NEW c \in Callers, NEW e \in Events, StartCheckpoint(c, e) PROVE CheckpointInv'
  <2>1. PICK call \in CkCalls : /\ ccall' = [ccall EXCEPT ![c] = call]
                                /\ CkCallStands(call, pending, refs, done)
    <3> DEFINE again == [step |-> "again", event |-> e, commit |-> done[e]]
               ref == [step |-> "ref", event |-> e, commit |-> pending[e]]
               fresh == [step |-> "tree", event |-> e, commit |-> NoCommit]
    <3>1. /\ done[e] # NoCommit => again \in CkCalls /\ CkCallStands(again, pending, refs, done)
          /\ pending[e] # NoCommit => ref \in CkCalls /\ CkCallStands(ref, pending, refs, done)
          /\ fresh \in CkCalls /\ CkCallStands(fresh, pending, refs, done)
      BY <1>a DEF CkCalls, CkCallStands
    <3>2. /\ done[e] # NoCommit => ccall' = [ccall EXCEPT ![c] = again]
          /\ done[e] = NoCommit /\ pending[e] # NoCommit => ccall' = [ccall EXCEPT ![c] = ref]
          /\ done[e] = NoCommit /\ pending[e] = NoCommit => ccall' = [ccall EXCEPT ![c] = fresh]
      BY <1>2 DEF StartCheckpoint
    <3> HIDE DEF again, ref, fresh
    <3>. QED  BY <3>1, <3>2
  <2>. QED  BY <1>2, <1>a, <2>1, CheckpointCallMoves DEF StartCheckpoint, CkCallStands
<1>3. ASSUME NEW c \in Callers, CommitTree(c) PROVE CheckpointInv'
  <2> DEFINE e == ccall[c].event  made == <<e, head, evidence[e]>>
             call == [ccall[c] EXCEPT !.step = "pending", !.commit = made]
  <2>1. ccall[c] # CkIdle /\ ccall[c] \in CkCalls /\ e \in Events
    BY <1>0, <1>3, <1>b DEF CommitTree
  <2>2. made \in Commits
    BY <1>0, <2>1 DEF Commits, CheckpointTypeOK
  <2>3. call \in CkCalls /\ call.step = "pending" /\ call.commit = made
    BY <2>1, <2>2 DEF CkCalls
  <2>4. ccall' = [ccall EXCEPT ![c] = call] /\ commits' = commits \cup {made}
    BY <1>0, <1>3 DEF CommitTree, CheckpointTypeOK
  <2>5. UNCHANGED <<evidence, head, pending, refs, done, verified>>
    BY <1>3 DEF CommitTree
  <2> HIDE DEF call, made
  <2>. QED  BY <1>a, <2>2, <2>3, <2>4, <2>5, CheckpointCallMoves DEF CkCallStands
<1>4. ASSUME NEW c \in Callers, PublishPending(c) PROVE CheckpointInv'
  <2> DEFINE e == ccall[c].event  call == [ccall[c] EXCEPT !.step = "ref"]
  <2>1. ccall[c] # CkIdle /\ e \in Events /\ ccall[c].commit \in commits
    BY <1>0, <1>4, <1>b DEF PublishPending, CkCallStands
  <2>2. /\ call \in CkCalls /\ call.step = "ref" /\ call.event = e /\ call.commit = ccall[c].commit
        /\ CkGo(c, "ref") => ccall' = [ccall EXCEPT ![c] = call]
    BY <1>c, <2>1
  <2>3. /\ pending' = [pending EXCEPT ![e] = IF pending[e] = NoCommit THEN ccall[c].commit ELSE pending[e]]
        /\ IF pending'[e] = ccall[c].commit THEN CkGo(c, "ref") ELSE CkEnd(c)
        /\ UNCHANGED <<evidence, head, commits, refs, done, cbudget, verified>>
    BY <1>4 DEF PublishPending, Published
  <2>4. /\ pending' \in [Events -> commits \cup {NoCommit}]
        /\ \A x \in Events : pending[x] # NoCommit => pending'[x] = pending[x]
    BY <1>a, <2>1, <2>3
  <2>5. PICK new \in CkCalls \cup {CkIdle} : /\ ccall' = [ccall EXCEPT ![c] = new]
                                             /\ new # CkIdle => new = call /\ pending'[e] = ccall[c].commit
    BY <2>2, <2>3 DEF CkEnd
  <2>6. new # CkIdle => CkCallStands(new, pending', refs, done)
    BY <2>1, <2>2, <2>5 DEF CkCallStands
  <2>7. \A d \in Callers : ccall[d] # CkIdle => CkCallStands(ccall[d], pending', refs, done)
    BY <1>a, <1>b, <2>4, <1>0 DEF CkCallStands
  <2>8. CheckpointTypeOK'
    BY <1>0, <2>3, <2>4, <2>5 DEF CheckpointTypeOK
  <2>9. CheckpointsAgree'
    BY <1>0, <1>a, <2>3, <2>4 DEF CheckpointsAgree
  <2>10. (\A d \in Callers : ccall[d] # CkIdle => CkCallStands(ccall[d], pending, refs, done))'
    BY <1>0, <2>3, <2>5, <2>6, <2>7 DEF CheckpointTypeOK, CkCallStands
  <2>. QED  BY <2>8, <2>9, <2>10 DEF CheckpointInv
<1>5. ASSUME NEW c \in Callers, EnsureReference(c) PROVE CheckpointInv'
  <2> DEFINE e == ccall[c].event  call == [ccall[c] EXCEPT !.step = "record"]
  <2>1. ccall[c] # CkIdle /\ e \in Events /\ ccall[c].commit \in commits /\ CkCallStands(ccall[c], pending, refs, done)
    BY <1>0, <1>5, <1>b DEF EnsureReference, CkCallStands
  <2>2. /\ call \in CkCalls /\ call.step = "record" /\ call.event = e /\ call.commit = ccall[c].commit
        /\ CkGo(c, "record") => ccall' = [ccall EXCEPT ![c] = call]
    BY <1>c, <2>1
  <2>3. /\ refs' = [refs EXCEPT ![e] = IF refs[e] = NoCommit THEN ccall[c].commit ELSE refs[e]]
        /\ IF refs'[e] = ccall[c].commit /\ ccall[c].step = "ref" THEN CkGo(c, "record") ELSE CkEnd(c)
        /\ UNCHANGED <<evidence, head, commits, pending, done, cbudget, verified>>
        /\ ccall[c].step \in {"ref", "again"}
    BY <1>5 DEF EnsureReference
  <2>4. /\ refs' \in [Events -> commits \cup {NoCommit}]
        /\ \A x \in Events : refs[x] # NoCommit => refs'[x] = refs[x]
        /\ \A x \in Events : refs'[x] # refs[x] => refs'[x] = pending[x]
    <3>1. ccall[c].commit = pending[e]
      BY <1>0, <1>a, <2>1, <2>3 DEF CkCallStands, CheckpointsAgree
    <3>. QED  BY <1>a, <2>1, <2>3, <3>1
  <2>5. PICK new \in CkCalls \cup {CkIdle} : /\ ccall' = [ccall EXCEPT ![c] = new]
                                             /\ new # CkIdle => new = call /\ refs'[e] = ccall[c].commit
    BY <2>2, <2>3 DEF CkEnd
  <2>6. new # CkIdle => CkCallStands(new, pending, refs', done)
    BY <2>1, <2>2, <2>5 DEF CkCallStands
  <2>7. \A d \in Callers : ccall[d] # CkIdle => CkCallStands(ccall[d], pending, refs', done)
    BY <1>a, <1>b, <2>4, <1>0 DEF CkCallStands
  <2>8. CheckpointTypeOK'
    BY <1>0, <2>3, <2>4, <2>5 DEF CheckpointTypeOK
  <2>9. CheckpointsAgree'
    BY <1>0, <1>a, <2>3, <2>4 DEF CheckpointsAgree
  <2>10. (\A d \in Callers : ccall[d] # CkIdle => CkCallStands(ccall[d], pending, refs, done))'
    BY <1>0, <2>3, <2>5, <2>6, <2>7 DEF CheckpointTypeOK, CkCallStands
  <2>. QED  BY <2>8, <2>9, <2>10 DEF CheckpointInv
<1>6. ASSUME NEW c \in Callers, PublishRecord(c) PROVE CheckpointInv'
  <2> DEFINE e == ccall[c].event
  <2>1. ccall[c] # CkIdle /\ e \in Events /\ ccall[c].commit \in commits /\ ccall[c].commit = refs[e]
    BY <1>0, <1>6, <1>b DEF PublishRecord, CkCallStands
  <2>2. /\ done' = [done EXCEPT ![e] = IF done[e] = NoCommit THEN ccall[c].commit ELSE done[e]]
        /\ ccall' = [ccall EXCEPT ![c] = CkIdle]
        /\ UNCHANGED <<evidence, head, commits, pending, refs, cbudget, verified>>
    BY <1>6 DEF PublishRecord, Published, CkEnd
  <2>3. /\ done' \in [Events -> commits \cup {NoCommit}]
        /\ \A x \in Events : done[x] # NoCommit => done'[x] = done[x]
        /\ \A x \in Events : done'[x] # done[x] => done'[x] = refs[x]
    BY <1>a, <2>1, <2>2
  <2>4. \A d \in Callers : ccall[d] # CkIdle => CkCallStands(ccall[d], pending, refs, done')
    BY <1>0, <1>a, <1>b, <2>3 DEF CkCallStands
  <2>5. CheckpointTypeOK'
    BY <1>0, <2>2, <2>3 DEF CheckpointTypeOK
  <2>6. CheckpointsAgree'
    <3>1. \A v \in verified : v[2] \in commits /\ v[1] \in Events
      BY <1>0 DEF CheckpointTypeOK
    <3>2. \A x \in Events, v \in verified : v[1] = x => v[2] = done'[x]
      BY <1>0, <1>a, <2>3, <3>1 DEF CheckpointsAgree
    <3>. QED  BY <1>0, <1>a, <2>2, <2>3, <3>2 DEF CheckpointsAgree
  <2>7. (\A d \in Callers : ccall[d] # CkIdle => CkCallStands(ccall[d], pending, refs, done))'
    BY <1>0, <2>2, <2>4 DEF CheckpointTypeOK, CkCallStands
  <2>. QED  BY <2>5, <2>6, <2>7 DEF CheckpointInv
<1>7. ASSUME NEW c \in Callers, CheckpointDies(c) PROVE CheckpointInv'
  BY <1>7, <1>a, CheckpointCallMoves DEF CheckpointDies, CkEnd
<1>8. ASSUME NEW e \in Events, EvidenceMoves(e) PROVE CheckpointInv'
  <2>1. evidence' \in [Events -> EvidenceStages]
    BY <1>0, <1>8 DEF EvidenceMoves, CheckpointTypeOK, EvidenceStages, NextStage
  <2>. QED  BY <1>0, <1>8, <2>1 DEF EvidenceMoves, CheckpointInv, CheckpointTypeOK, CheckpointsAgree, CkCallStands
<1>9. ASSUME NEW e \in Events, VerifyCheckpoint(e) PROVE CheckpointInv'
  <2>1. verified' \subseteq Events \X commits /\ \A x \in Events : \A v \in verified' : v[1] = x => v[2] = done[x]
    BY <1>0, <1>9 DEF VerifyCheckpoint, CheckpointTypeOK, CheckpointsAgree
  <2>. QED  BY <1>0, <1>9, <2>1 DEF VerifyCheckpoint, CheckpointInv, CheckpointTypeOK, CheckpointsAgree, CkCallStands
<1>10. ASSUME NEW k \in PathKinds, UserCommit({k}) PROVE CheckpointInv'
  BY <1>0, <1>10 DEF UserCommit, CheckpointInv, CheckpointTypeOK, CheckpointsAgree, CkCallStands
<1>. QED  BY <1>1, <1>2, <1>3, <1>4, <1>5, <1>6, <1>7, <1>8, <1>9, <1>10 DEF CheckpointNext

\* Whatever dies and whoever overlaps, ref and completed record of a
\* checkpoint name the commit of its pending record (create,
\* _ensure_reference in git_checkpoint.py).
THEOREM CheckpointsAlwaysAgree == Spec => []CheckpointsAgree
<1>1. Init => CheckpointInv
  BY CheckpointInvInit DEF Init
<1>2. CheckpointInv /\ [Next]_vars => CheckpointInv'
  BY CheckpointInvStep, AreaSteps
<1>3. CheckpointInv => CheckpointsAgree
  BY DEF CheckpointInv
<1>. QED  BY <1>1, <1>2, <1>3, PTL DEF Spec

-----------------------------------------------------------------------------
(* Draft saving                                                             *)

\* What is written at each position, and in which positions the bundle is.
LEMMA FilesInOrder ==
    /\ Len(DraftFiles) = 5 /\ \A i \in 1 .. 5 : DraftFiles[i] \in BundleFiles \cup {"manifest"}
    /\ \A i \in 1 .. 5 : DraftFiles[i] = "artifact" <=> i = 4
    /\ BundleFiles = {DraftFiles[i] : i \in 1 .. 4}
<1>1. /\ Len(DraftFiles) = 5 /\ DraftFiles[1] = "payloads" /\ DraftFiles[2] = "marker"
      /\ DraftFiles[3] = "preview" /\ DraftFiles[4] = "artifact" /\ DraftFiles[5] = "manifest"
  BY DEF DraftFiles
<1>2. \A i \in 1 .. 5 : i = 1 \/ i = 2 \/ i = 3 \/ i = 4 \/ i = 5
  OBVIOUS
<1>3. \A i \in 1 .. 4 : i = 1 \/ i = 2 \/ i = 3 \/ i = 4
  OBVIOUS
<1>. QED  BY <1>1, <1>2, <1>3 DEF BundleFiles

\* Nothing was staged and nobody calls.
LEMMA DraftInvInit == DraftInit => DraftInv
BY DraftsAssumption DEF DraftInit, DraftInv, DraftTypeOK, ResultsWhole, Gens

\* Bundles that only grow leave everything standing but the call that moved.
LEMMA DraftCallMoves ==
    ASSUME DraftInv, NEW c \in Callers, NEW call \in StageCalls \cup {StIdle},
           stage' = [stage EXCEPT ![c] = call], call # StIdle => StageStands(call, bundle'),
           \A g \in Gens : bundle[g] \subseteq bundle'[g],
           \A g \in results' \ results : BundleFiles \subseteq bundle'[g],
           corpus' \in Gens, oper' \in [Gens -> {"none", "claimed", "succeeded"}],
           dlease' \in [Gens -> SUBSET Callers], bundle' \in [Gens -> SUBSET (BundleFiles \cup {"manifest"})],
           results' \subseteq Gens
    PROVE  DraftInv'
<1>1. DraftTypeOK'
  BY DEF DraftInv, DraftTypeOK
<1>2. ResultsWhole'
  BY DEF DraftInv, DraftTypeOK, ResultsWhole
<1>3. ASSUME NEW d \in Callers, stage'[d] # StIdle PROVE StageStands(stage'[d], bundle')
  <2>1. CASE d = c
    BY <1>3, <2>1 DEF DraftInv, DraftTypeOK
  <2>2. CASE d # c
    <3>1. stage'[d] = stage[d] /\ stage[d] \in StageCalls /\ StageStands(stage[d], bundle) /\ stage[d].gen \in Gens
      BY <1>3, <2>2 DEF DraftInv, DraftTypeOK, StageCalls
    <3>. QED  BY <3>1 DEF StageStands
  <2>. QED  BY <2>1, <2>2
<1>. QED  BY <1>1, <1>2, <1>3 DEF DraftInv

\* Every step of draft saving and of the promotions meanwhile keeps the invariant.
LEMMA DraftInvStep == DraftInv /\ [DraftNext]_tvars => DraftInv'
<1> SUFFICES ASSUME DraftInv, [DraftNext]_tvars PROVE DraftInv'
  OBVIOUS
<1>0. DraftTypeOK /\ StIdle.step = "idle" /\ StIdle \notin StageCalls
  BY DEF DraftInv, StIdle, StageCalls
<1>a. /\ corpus \in Gens /\ oper \in [Gens -> {"none", "claimed", "succeeded"}]
      /\ dlease \in [Gens -> SUBSET Callers] /\ bundle \in [Gens -> SUBSET (BundleFiles \cup {"manifest"})]
      /\ results \subseteq Gens
  BY <1>0 DEF DraftTypeOK
<1>b. \A c \in Callers : stage[c] # StIdle =>
        stage[c] \in StageCalls /\ stage[c].gen \in Gens /\ stage[c].at \in 1 .. 5 /\ StageStands(stage[c], bundle)
  BY <1>0 DEF DraftInv, DraftTypeOK, StageCalls
<1>c. ASSUME NEW c \in Callers, NEW step \in {"join", "check", "write", "recheck", "succeed", "verify"},
             stage[c] # StIdle, StGo(c, step)
      PROVE  \E call \in StageCalls : /\ stage' = [stage EXCEPT ![c] = call] /\ call.step = step
                                      /\ call.gen = stage[c].gen /\ call.at = stage[c].at
  <2> DEFINE call == [stage[c] EXCEPT !.step = step]
  <2>1. call \in StageCalls /\ call.step = step /\ call.gen = stage[c].gen /\ call.at = stage[c].at
    BY <1>b, <1>c DEF StageCalls
  <2>2. stage' = [stage EXCEPT ![c] = call]
    BY <1>0, <1>c DEF StGo, DraftTypeOK
  <2> HIDE DEF call
  <2>. QED  BY <2>1, <2>2
<1>d. \A c \in Callers, g \in Gens : Free(c, g) => dlease' \in [Gens -> SUBSET Callers]
  BY <1>a DEF Free
<1>1. CASE UNCHANGED tvars
  BY <1>0, <1>1 DEF tvars, DraftInv, DraftTypeOK, ResultsWhole, StageStands
<1>2. ASSUME NEW c \in Callers, StartStage(c) PROVE DraftInv'
  <2>1. /\ [step |-> "claim", gen |-> corpus, at |-> 1] \in StageCalls
        /\ StageStands([step |-> "claim", gen |-> corpus, at |-> 1], bundle)
    BY <1>a DEF StageCalls, StageStands
  <2>. QED  BY <1>2, <1>a, <2>1, DraftCallMoves DEF StartStage
<1>3. ASSUME NEW c \in Callers, ClaimDraft(c) PROVE DraftInv'
  <2>1. stage[c] # StIdle /\ stage[c].gen \in Gens /\ stage[c].at = 1
    BY <1>0, <1>3, <1>b DEF ClaimDraft, StageStands
  <2>2. PICK step \in {"join", "verify"} : StGo(c, step)
    BY <1>3 DEF ClaimDraft
  <2>3. PICK call \in StageCalls : stage' = [stage EXCEPT ![c] = call] /\ call.step = step /\ call.at = 1
    BY <1>c, <2>1, <2>2
  <2>4. StageStands(call, bundle)
    BY <2>2, <2>3 DEF StageStands
  <2>5. oper' \in [Gens -> {"none", "claimed", "succeeded"}]
    BY <1>3, <1>a, <2>1 DEF ClaimDraft
  <2>. QED  BY <1>3, <1>a, <2>3, <2>4, <2>5, DraftCallMoves DEF ClaimDraft
<1>4. ASSUME NEW c \in Callers, AcquireOrJoin(c) PROVE DraftInv'
  <2>1. stage[c] # StIdle /\ stage[c].gen \in Gens /\ stage[c].at = 1
    BY <1>0, <1>4, <1>b DEF AcquireOrJoin, StageStands
  <2>2. PICK call \in StageCalls \cup {StIdle} : stage' = [stage EXCEPT ![c] = call]
                                               /\ (call # StIdle => call.step \in {"check", "verify"} /\ call.at = 1)
    <3>1. \/ stage' = [stage EXCEPT ![c] = StIdle]
          \/ \E step \in {"check", "write", "verify"} : StGo(c, step) /\ step # "write"
      BY <1>4 DEF AcquireOrJoin, StEnd
    <3>. QED  BY <1>c, <2>1, <3>1
  <2>3. call # StIdle => StageStands(call, bundle)
    BY <2>2 DEF StageStands
  <2>4. dlease' \in [Gens -> SUBSET Callers]
    BY <1>4, <1>a, <2>1 DEF AcquireOrJoin
  <2>. QED  BY <1>4, <1>a, <2>2, <2>3, <2>4, DraftCallMoves DEF AcquireOrJoin
<1>5. ASSUME NEW c \in Callers, CheckStage(c) PROVE DraftInv'
  <2>1. stage[c] # StIdle /\ stage[c].gen \in Gens /\ stage[c].at = 1
    BY <1>0, <1>5, <1>b DEF CheckStage, StageStands
  <2>2. PICK call \in StageCalls \cup {StIdle} : stage' = [stage EXCEPT ![c] = call]
                                               /\ (call # StIdle => call.step \in {"write", "verify"} /\ call.at = 1)
    <3>1. \/ stage' = [stage EXCEPT ![c] = StIdle]
          \/ \E step \in {"check", "write", "verify"} : StGo(c, step) /\ step # "check"
      BY <1>5 DEF CheckStage, StEnd
    <3>. QED  BY <1>c, <2>1, <3>1
  <2>3. call # StIdle => StageStands(call, bundle)
    BY <2>2 DEF StageStands
  <2>4. dlease' \in [Gens -> SUBSET Callers]
    BY <1>5, <1>a, <1>d, <2>1 DEF CheckStage
  <2>. QED  BY <1>5, <1>a, <2>2, <2>3, <2>4, DraftCallMoves DEF CheckStage
<1>6. ASSUME NEW c \in Callers, WriteDraft(c) PROVE DraftInv'
  <2> DEFINE g == stage[c].gen  at == stage[c].at
  <2>1. stage[c] # StIdle /\ stage[c] \in StageCalls /\ g \in Gens /\ at \in 1 .. 5 /\ StageStands(stage[c], bundle)
        /\ stage[c].step = "write"
    BY <1>0, <1>6, <1>b DEF WriteDraft
  <2>2. bundle' = [bundle EXCEPT ![g] = bundle[g] \cup {DraftFiles[at]}]
    BY <1>6 DEF WriteDraft
  <2>3. /\ bundle' \in [Gens -> SUBSET (BundleFiles \cup {"manifest"})]
        /\ \A x \in Gens : bundle[x] \subseteq bundle'[x]
        /\ \A i \in 1 .. 5 : i < at + 1 => DraftFiles[i] \in bundle'[g]
    <3>1. DraftFiles[at] \in BundleFiles \cup {"manifest"}
      BY <2>1, FilesInOrder
    <3>2. \A i \in 1 .. 5 : i < at => DraftFiles[i] \in bundle[g]
      BY <2>1 DEF StageStands
    <3>3. \A i \in 1 .. 5 : i < at + 1 => i < at \/ i = at
      BY <2>1
    <3>. QED  BY <1>a, <2>1, <2>2, <3>1, <3>2, <3>3
  <2>4. at \in {4, 5} => BundleFiles \subseteq bundle'[g]
    BY <2>3, FilesInOrder
  <2>5. CASE at = 5
    <3>1. StGo(c, "succeed")
      BY <1>6, <2>5, FilesInOrder DEF WriteDraft, Written
    <3>2. PICK call \in StageCalls : /\ stage' = [stage EXCEPT ![c] = call] /\ call.step = "succeed"
                                     /\ call.gen = g /\ call.at = at
      BY <1>c, <2>1, <3>1
    <3>3. StageStands(call, bundle')
      BY <2>1, <2>4, <2>5, <3>2 DEF StageStands
    <3>. QED  BY <1>6, <1>a, <2>3, <3>2, <3>3, DraftCallMoves DEF WriteDraft
  <2>6. CASE at = 4
    <3>1. StGo(c, "recheck")
      BY <1>6, <2>6, FilesInOrder DEF WriteDraft, Written
    <3>2. PICK call \in StageCalls : /\ stage' = [stage EXCEPT ![c] = call] /\ call.step = "recheck"
                                     /\ call.gen = g /\ call.at = at
      BY <1>c, <2>1, <3>1
    <3>3. StageStands(call, bundle')
      BY <2>1, <2>3, <2>4, <2>6, <3>2 DEF StageStands
    <3>. QED  BY <1>6, <1>a, <2>3, <3>2, <3>3, DraftCallMoves DEF WriteDraft
  <2>7. CASE at \notin {4, 5}
    <3> DEFINE call == [stage[c] EXCEPT !.at = at + 1]
    <3>0. at + 1 \in 1 .. 5
      BY <2>1, <2>7
    <3>1. stage' = [stage EXCEPT ![c] = call]
      BY <1>0, <1>6, <2>1, <2>7, FilesInOrder DEF WriteDraft, Written, DraftTypeOK
    <3>2. call \in StageCalls /\ call.step = "write" /\ call.gen = g /\ call.at = at + 1
      BY <2>1, <3>0 DEF StageCalls
    <3> HIDE DEF call
    <3>3. StageStands(call, bundle')
      BY <2>3, <3>2 DEF StageStands
    <3>. QED  BY <1>6, <1>a, <2>3, <3>1, <3>2, <3>3, DraftCallMoves DEF WriteDraft
  <2>. QED  BY <2>5, <2>6, <2>7
<1>7. ASSUME NEW c \in Callers, Recheck(c) PROVE DraftInv'
  <2> DEFINE g == stage[c].gen  call == [stage[c] EXCEPT !.step = "write", !.at = 5]
  <2>1. stage[c] # StIdle /\ stage[c] \in StageCalls /\ g \in Gens /\ stage[c].at = 4 /\ BundleFiles \subseteq bundle[g]
    BY <1>0, <1>7, <1>b DEF Recheck, StageStands
  <2>2. PICK new \in {call, StIdle} : stage' = [stage EXCEPT ![c] = new]
    <3>1. stage[c].at + 1 = 5
      BY <2>1
    <3>2. stage' = [stage EXCEPT ![c] = call] \/ stage' = [stage EXCEPT ![c] = StIdle]
      BY <1>0, <1>7, <2>1, <3>1 DEF Recheck, DraftTypeOK, StEnd
    <3>. QED  BY <3>2
  <2>3. call \in StageCalls /\ call.step = "write" /\ call.gen = g /\ call.at = 5
    <3>1. 5 \in 1 .. 5
      OBVIOUS
    <3>. QED  BY <2>1, <3>1 DEF StageCalls
  <2> HIDE DEF call
  <2>4. StageStands(call, bundle)
    <3>1. \A i \in 1 .. 5 : i < 5 => i \in 1 .. 4
      OBVIOUS
    <3>. QED  BY <2>1, <2>3, <3>1, FilesInOrder DEF StageStands
  <2>5. dlease' \in [Gens -> SUBSET Callers]
    BY <1>7, <1>a, <1>d, <2>1 DEF Recheck
  <2>. QED  BY <1>7, <1>a, <2>2, <2>3, <2>4, <2>5, DraftCallMoves DEF Recheck
<1>8. ASSUME NEW c \in Callers, SucceedDraft(c) PROVE DraftInv'
  <2>1. stage[c] # StIdle /\ stage[c].gen \in Gens /\ BundleFiles \subseteq bundle[stage[c].gen]
    BY <1>0, <1>8, <1>b DEF SucceedDraft, StageStands
  <2>2. /\ oper' \in [Gens -> {"none", "claimed", "succeeded"}] /\ dlease' \in [Gens -> SUBSET Callers]
        /\ results' = results \cup {stage[c].gen} /\ stage' = [stage EXCEPT ![c] = StIdle]
        /\ UNCHANGED <<corpus, bundle, tbudget>>
    BY <1>8, <1>a, <1>d, <2>1 DEF SucceedDraft, StEnd
  <2>. QED  BY <1>a, <2>1, <2>2, DraftCallMoves
<1>9. ASSUME NEW c \in Callers, VerifyResult(c) PROVE DraftInv'
  <2>1. stage[c] # StIdle /\ stage[c].gen \in Gens
    BY <1>0, <1>9, <1>b DEF VerifyResult
  <2>2. /\ results' \subseteq Gens /\ \A x \in results' \ results : BundleFiles \subseteq bundle[x]
        /\ stage' = [stage EXCEPT ![c] = StIdle] /\ UNCHANGED <<corpus, oper, dlease, bundle, tbudget>>
    BY <1>9, <1>a, <2>1 DEF VerifyResult, StEnd
  <2>. QED  BY <1>a, <2>2, DraftCallMoves
<1>10. ASSUME NEW c \in Callers, StageFault(c) PROVE DraftInv'
  <2>1. stage[c] # StIdle /\ stage[c].gen \in Gens /\ StageStands(stage[c], bundle) /\ stage[c] \in StageCalls
    BY <1>10, <1>b DEF StageFault
  <2>2. dlease' \in [Gens -> SUBSET Callers] /\ UNCHANGED <<corpus, oper, bundle, results>>
    BY <1>10, <1>d, <2>1 DEF StageFault
  <2>3. PICK call \in {stage[c], StIdle} : stage' = [stage EXCEPT ![c] = call]
    BY <1>0, <1>10 DEF StageFault, StEnd, DraftTypeOK
  <2>. QED  BY <1>a, <2>1, <2>2, <2>3, DraftCallMoves
<1>11. CASE PromoteCorpus
  <2>1. corpus' \in Gens
    BY <1>11, <1>a, DraftsAssumption DEF PromoteCorpus, Gens
  <2>. QED  BY <1>0, <1>11, <2>1 DEF PromoteCorpus, DraftInv, DraftTypeOK, ResultsWhole, StageStands
<1>. QED  BY <1>1, <1>2, <1>3, <1>4, <1>5, <1>6, <1>7, <1>8, <1>9, <1>10, <1>11 DEF DraftNext

\* Whoever wrote, joined, was promoted over or lost the lease: a result that
\* was given to a caller has its whole bundle on disk (stage, _verify_result
\* in saving.py).
THEOREM ResultsAlwaysWhole == Spec => []ResultsWhole
<1>1. Init => DraftInv
  BY DraftInvInit DEF Init
<1>2. DraftInv /\ [Next]_vars => DraftInv'
  BY DraftInvStep, AreaSteps
<1>3. DraftInv => ResultsWhole
  BY DEF DraftInv
<1>. QED  BY <1>1, <1>2, <1>3, PTL DEF Spec

-----------------------------------------------------------------------------
(* Backups                                                                  *)

\* No bundle, no record and no call.
LEMMA BackupInvInit == BackupInit => BackupInv
<1> SUFFICES ASSUME BackupInit PROVE BackupInv
  OBVIOUS
<1>1. content \in [BackupFiles -> Contents]
  BY BackupAssumption, Zenon DEF BackupInit
<1>2. BackupTypeOK /\ NothingDisclosed /\ \A c \in Callers : bcall[c] = BkIdle
  BY <1>1 DEF BackupInit, BackupTypeOK, NothingDisclosed
<1>3. BackupCallStands(BkIdle)
  BY DEF BackupCallStands, BkIdle
<1>. QED  BY <1>2, <1>3 DEF BackupInv

\* A step that leaves one call, one bundle or the directory different keeps
\* the invariant when what it leaves may be disclosed.
LEMMA BackupMoves ==
    ASSUME BackupInv, NEW c \in Callers, NEW call \in CreateCalls \cup RestoreCalls \cup SwapCalls \cup {BkIdle},
           bcall' = [bcall EXCEPT ![c] = call], BackupCallStands(call),
           bundles' \in [Dests -> Bundles \cup {NoBundle}],
           \A d \in Dests : bundles'[d] # bundles[d] /\ bundles'[d] # NoBundle => Disclosable(bundles'[d].kind, bundles'[d].members),
           UNCHANGED content, recorded' \subseteq Nat, UNCHANGED tree,
           bbudget' \in [calls : Nat, touches : Nat, deaths : Nat]
    PROVE  BackupInv'
<1>1. BackupTypeOK'
  BY DEF BackupInv, BackupTypeOK
<1>2. NothingDisclosed'
  BY DEF BackupInv, BackupTypeOK, NothingDisclosed, Disclosable
<1>3. ASSUME NEW d \in Callers PROVE BackupCallStands(bcall'[d])
  BY DEF BackupInv, BackupTypeOK
<1>. QED  BY <1>1, <1>2, <1>3 DEF BackupInv

\* What is collected for a kind holds no restricted file unless it was asked for.
LEMMA RootsUnrestricted ==
    ASSUME NEW kind, NEW narrowed \in BOOLEAN
    PROVE  LET todo == RootsOf(kind) \o IF narrowed THEN <<"encrypted">> ELSE <<>>
           IN todo \in Seq(BackupFiles) /\ (~narrowed => todo \in Seq(BackupFiles \ {"encrypted"}))
<1>1. RootsOf(kind) \in Seq(BackupFiles \ {"encrypted"}) /\ RootsOf(kind) \in Seq(BackupFiles)
  <2> DEFINE plain == BackupFiles \ {"encrypted"}
  <2>1. /\ <<"docs">> \in Seq(plain) /\ <<"events">> \in Seq(plain) /\ <<"manual", "events">> \in Seq(plain)
        /\ <<"docs">> \in Seq(BackupFiles) /\ <<"events">> \in Seq(BackupFiles) /\ <<"manual", "events">> \in Seq(BackupFiles)
    BY DEF BackupFiles
  <2>2. <<"docs">> \o <<"manual", "events">> \in Seq(plain) /\ <<"docs">> \o <<"manual", "events">> \in Seq(BackupFiles)
    <3> HIDE DEF plain
    <3>. QED  BY <2>1
  <2>3. RootsOf(kind) \in {<<"docs">>, <<"events">>, <<"docs">> \o <<"manual", "events">>}
    BY DEF RootsOf, ConfiguredRoots
  <2>. QED  BY <2>1, <2>2, <2>3
<1>2. CASE narrowed
  BY <1>1, <1>2 DEF BackupFiles
<1>3. CASE ~narrowed
  BY <1>1, <1>3
<1>. QED  BY <1>2, <1>3

\* Every step of backups, restores and people keeps the invariant.
LEMMA BackupInvStep == BackupInv /\ [BackupNext]_bvars => BackupInv'
<1> SUFFICES ASSUME BackupInv, [BackupNext]_bvars PROVE BackupInv'
  OBVIOUS
<1>0. BackupTypeOK /\ NothingDisclosed /\ BkIdle.step = "idle"
  BY DEF BackupInv, BkIdle
<1>a. /\ bundles \in [Dests -> Bundles \cup {NoBundle}] /\ recorded \subseteq Nat /\ content \in [BackupFiles -> Contents]
      /\ bbudget \in [calls : Nat, touches : Nat, deaths : Nat] /\ NextBundle \in Nat
  BY <1>0 DEF BackupTypeOK, NextBundle
<1>b. \A c \in Callers : /\ BackupCallStands(bcall[c])
                         /\ bcall[c].step \in {"collect", "record"} => bcall[c] \in CreateCalls
                         /\ bcall[c].step = "stage" => bcall[c] \in RestoreCalls
                         /\ bcall[c].step = "swap" => bcall[c] \in SwapCalls
  <2>1. ASSUME NEW call \in CreateCalls \cup RestoreCalls \cup SwapCalls \cup {BkIdle}
        PROVE  /\ call.step \in {"collect", "record"} => call \in CreateCalls
               /\ call.step = "stage" => call \in RestoreCalls
               /\ call.step = "swap" => call \in SwapCalls
    BY <1>0 DEF CreateCalls, RestoreCalls, SwapCalls
  <2>. QED  BY <1>0, <2>1 DEF BackupTypeOK, BackupInv
<1>c. BackupCallStands(BkIdle)
  BY <1>0 DEF BackupCallStands
<1>1. CASE UNCHANGED bvars
  BY <1>0, <1>1 DEF bvars, BackupInv, BackupTypeOK, NothingDisclosed
<1>2. ASSUME NEW c \in Callers, NEW kind \in BackupKinds, NEW narrowed \in BOOLEAN, NEW d \in Dests,
             StartBackup(c, kind, narrowed, d)
      PROVE  BackupInv'
  <2> DEFINE todo == RootsOf(kind) \o IF narrowed THEN <<"encrypted">> ELSE <<>>
             call == [step |-> "collect", kind |-> kind, dest |-> d, id |-> NextBundle, todo |-> todo, members |-> {},
                      unresolved |-> FALSE]
  <2>1. BackupCall(c, call)
    BY <1>2 DEF StartBackup
  <2>2. todo \in Seq(BackupFiles) /\ (RedactsSecrets(kind) => todo \in Seq(BackupFiles \ {"encrypted"}))
    BY <1>2, RootsUnrestricted DEF StartBackup
  <2> HIDE DEF todo
  <2>3. call \in CreateCalls /\ BackupCallStands(call)
    BY <1>a, <2>2 DEF CreateCalls, BackupCallStands, Disclosable
  <2> HIDE DEF call
  <2>4. bbudget' \in [calls : Nat, touches : Nat, deaths : Nat]
    BY <1>a, <2>1 DEF BackupCall
  <2>. QED  BY <1>a, <2>1, <2>3, <2>4, BackupMoves DEF BackupCall
<1>3. ASSUME NEW c \in Callers, NEW d \in Dests, StartRestore(c, d) PROVE BackupInv'
  <2> DEFINE call == [step |-> "stage", dest |-> d, names |-> {m.file : m \in bundles[d].members}]
  <2>1. BackupCall(c, call) /\ bundles[d] # NoBundle
    BY <1>3 DEF StartRestore
  <2>2. call \in RestoreCalls /\ BackupCallStands(call)
    BY <1>a, <2>1 DEF RestoreCalls, BackupCallStands, Bundles, Members
  <2> HIDE DEF call
  <2>3. bbudget' \in [calls : Nat, touches : Nat, deaths : Nat]
    BY <1>a, <2>1 DEF BackupCall
  <2>. QED  BY <1>a, <2>1, <2>2, <2>3, BackupMoves DEF BackupCall
<1>4. ASSUME NEW c \in Callers, Collect(c) PROVE BackupInv'
  <2> DEFINE call == bcall[c]
             f == Head(call.todo)
             kept == IF RedactsPaths(call.kind) THEN Blotted(content[f]) ELSE content[f]
             removed == RedactsSecrets(call.kind) /\ content[f] = "secret"
             found == RedactsSecrets(call.kind) /\ kept = "secret"
             members == IF removed \/ found THEN call.members ELSE call.members \cup {[file |-> f, text |-> kept]}
             unresolved == call.unresolved \/ (found /\ ~removed)
             new == [call EXCEPT !.todo = Tail(call.todo), !.members = members, !.unresolved = unresolved]
  <2>1. call \in CreateCalls /\ call.step = "collect" /\ call.todo # <<>> /\ BackupCallStands(call)
    BY <1>4, <1>b DEF Collect
  <2>2. /\ f \in BackupFiles /\ Tail(call.todo) \in Seq(BackupFiles)
        /\ RedactsSecrets(call.kind) => f # "encrypted" /\ Tail(call.todo) \in Seq(BackupFiles \ {"encrypted"})
    BY <2>1 DEF CreateCalls, BackupCallStands
  <2>3. kept \in Contents /\ (RedactsSecrets(call.kind) /\ ~found => kept = "plain")
    BY <1>a, <2>2 DEF Contents, RedactsSecrets, RedactsPaths, Blotted
  <2>4. members \in SUBSET Members /\ Disclosable(call.kind, members)
    <3> HIDE DEF f, kept, removed
    <3>1. [file |-> f, text |-> kept] \in Members
      BY <2>2, <2>3 DEF Members
    <3>2. call.members \in SUBSET Members /\ Disclosable(call.kind, call.members)
      BY <2>1 DEF CreateCalls, BackupCallStands
    <3>. QED  BY <2>2, <2>3, <3>1, <3>2 DEF Disclosable
  <2>5. bcall' = [bcall EXCEPT ![c] = new] /\ unresolved \in BOOLEAN
    BY <1>4, <2>1 DEF Collect, CreateCalls
  <2> HIDE DEF members, f, kept, found, removed, unresolved
  <2>6. /\ new \in CreateCalls /\ new.step = "collect" /\ new.kind = call.kind
        /\ new.members = members /\ new.todo = Tail(call.todo)
    BY <2>1, <2>2, <2>4, <2>5 DEF CreateCalls
  <2> HIDE DEF new
  <2>7. BackupCallStands(new)
    BY <2>2, <2>4, <2>6 DEF BackupCallStands
  <2>. QED  BY <1>4, <1>a, <2>5, <2>6, <2>7, BackupMoves DEF Collect
<1>5. ASSUME NEW c \in Callers, LinkBundle(c) PROVE BackupInv'
  <2> DEFINE call == bcall[c]
             members == {Member(m) : m \in call.members} \cup StatusOf(call.kind)
             made == [id |-> call.id, kind |-> call.kind, members |-> members,
                      store |-> WithStore(call.kind), schema |-> "same"]
             new == [call EXCEPT !.step = "record"]
  <2>1. call \in CreateCalls /\ call.step = "collect" /\ Disclosable(call.kind, call.members) /\ call.dest \in Dests
    BY <1>5, <1>b DEF LinkBundle, BackupCallStands, CreateCalls
  <2>2. members \subseteq Members /\ Disclosable(call.kind, members)
    <3>1. {Member(m) : m \in call.members} = call.members /\ call.members \subseteq Members
      BY <2>1 DEF Member, CreateCalls
    <3>2. \A m \in StatusOf(call.kind) : m \in Members /\ m.text = "plain" /\ m.file # "encrypted"
      BY DEF StatusOf, Members, Contents
    <3>. QED  BY <2>1, <3>1, <3>2 DEF Disclosable
  <2> HIDE DEF members
  <2>3. made \in Bundles /\ Disclosable(made.kind, made.members)
    BY <2>1, <2>2 DEF Bundles, CreateCalls, WithStore
  <2>4. new \in CreateCalls /\ BackupCallStands(new)
    BY <2>1 DEF CreateCalls, BackupCallStands
  <2>5. /\ bcall' = [bcall EXCEPT ![c] = new] \/ bcall' = [bcall EXCEPT ![c] = BkIdle]
        /\ bundles' = [bundles EXCEPT ![call.dest] = made] \/ bundles' = bundles
        /\ UNCHANGED <<content, recorded, tree, bbudget>>
    BY <1>0, <1>5 DEF LinkBundle, BackupTypeOK, BkGo, BkEnd, members
  <2> HIDE DEF made, new
  <2>6. /\ bundles' \in [Dests -> Bundles \cup {NoBundle}]
        /\ \A d \in Dests : bundles'[d] # bundles[d] => bundles'[d] = made
    BY <1>a, <2>1, <2>3, <2>5
  <2>7. PICK left \in {new, BkIdle} : bcall' = [bcall EXCEPT ![c] = left]
    BY <2>5
  <2>. QED  BY <1>a, <1>c, <2>3, <2>4, <2>5, <2>6, <2>7, BackupMoves
<1>6. ASSUME NEW c \in Callers, RecordBackup(c) PROVE BackupInv'
  <2> DEFINE call == bcall[c]
  <2>1. call \in CreateCalls /\ call.dest \in Dests /\ call.id \in Nat
    BY <1>6, <1>b DEF RecordBackup, CreateCalls
  <2>2. /\ recorded' \subseteq Nat /\ bundles' \in [Dests -> Bundles \cup {NoBundle}]
        /\ \A d \in Dests : bundles'[d] = bundles[d] \/ bundles'[d] = NoBundle
        /\ bcall' = [bcall EXCEPT ![c] = BkIdle] /\ UNCHANGED <<content, tree, bbudget>>
    BY <1>6, <1>a, <2>1 DEF RecordBackup, BkEnd
  <2>. QED  BY <1>a, <1>c, <2>2, BackupMoves
<1>7. ASSUME NEW c \in Callers, StageTree(c) PROVE BackupInv'
  <2> DEFINE call == bcall[c]  now_ == bundles[call.dest]
             new == [step |-> "swap", kind |-> now_.kind, members |-> {m \in now_.members : m.file \in call.names}]
  <2>1. call.dest \in Dests
    BY <1>7, <1>b DEF StageTree, RestoreCalls
  <2>2. \/ now_ # NoBundle /\ bcall' = [bcall EXCEPT ![c] = new]
        \/ bcall' = [bcall EXCEPT ![c] = BkIdle]
    BY <1>7 DEF StageTree, BkEnd
  <2>3. now_ # NoBundle => new \in SwapCalls /\ BackupCallStands(new)
    BY <1>0, <1>a, <2>1 DEF SwapCalls, Bundles, BackupCallStands, NothingDisclosed, Disclosable
  <2> HIDE DEF new
  <2>4. PICK left \in SwapCalls \cup {BkIdle} : bcall' = [bcall EXCEPT ![c] = left] /\ BackupCallStands(left)
    BY <1>c, <2>2, <2>3
  <2>. QED  BY <1>7, <1>a, <2>4, BackupMoves DEF StageTree
<1>8. ASSUME NEW c \in Callers, SwapTree(c) PROVE BackupInv'
  <2> DEFINE new == [state |-> "restored", kind |-> bcall[c].kind, members |-> bcall[c].members]
  <2>1. bcall[c] \in SwapCalls /\ Disclosable(bcall[c].kind, bcall[c].members)
    BY <1>8, <1>b DEF SwapTree, BackupCallStands
  <2>2. /\ new \in [state : {"restored"}, kind : BackupKinds, members : SUBSET Members]
        /\ Disclosable(new.kind, new.members)
    BY <2>1 DEF SwapCalls
  <2>3. /\ tree' = new \/ tree' = tree
        /\ bcall' = [bcall EXCEPT ![c] = BkIdle] /\ UNCHANGED <<content, bundles, recorded, bbudget>>
    BY <1>8 DEF SwapTree, BkEnd
  <2> HIDE DEF new
  <2>4. BackupTypeOK'
    BY <1>0, <2>2, <2>3 DEF BackupTypeOK
  <2>5. NothingDisclosed'
    BY <1>0, <2>2, <2>3 DEF NothingDisclosed
  <2>6. \A d \in Callers : BackupCallStands(bcall'[d])
    BY <1>0, <1>b, <1>c, <2>3 DEF BackupTypeOK
  <2>. QED  BY <2>4, <2>5, <2>6 DEF BackupInv
<1>9. CASE Touch
  <2>1. bbudget' \in [calls : Nat, touches : Nat, deaths : Nat] /\ UNCHANGED <<recorded, bcall>>
    BY <1>9, <1>a DEF Touch
  <2>2. content' \in [BackupFiles -> Contents]
    BY <1>9, <1>a DEF Touch
  <2>3. /\ bundles' \in [Dests -> Bundles \cup {NoBundle}]
        /\ \A d \in Dests : bundles'[d] # bundles[d] /\ bundles'[d] # NoBundle => ~RedactsSecrets(bundles'[d].kind)
    <3>1. ASSUME NEW d \in Dests, NEW schema \in {"older", "other"}
          PROVE  LET brought == [id |-> NextBundle, kind |-> "private", store |-> TRUE,
                                 members |-> {[file |-> "docs", text |-> "secret"]}, schema |-> schema]
                 IN brought \in Bundles /\ ~RedactsSecrets(brought.kind)
      <4>1. [file |-> "docs", text |-> "secret"] \in Members
        BY DEF Members, BackupFiles, Contents
      <4>. QED  BY <1>a, <4>1 DEF Bundles, BackupKinds, RedactsSecrets
    <3>2. \/ bundles' = bundles
          \/ \E d \in Dests : bundles' = [bundles EXCEPT ![d] = NoBundle]
          \/ \E d \in Dests, new \in Bundles : bundles' = [bundles EXCEPT ![d] = new] /\ ~RedactsSecrets(new.kind)
      BY <1>9, <3>1 DEF Touch
    <3>. QED  BY <1>a, <3>2
  <2>4. tree' = tree \/ tree' = [state |-> "users"]
    BY <1>9 DEF Touch
  <2>5. BackupTypeOK'
    BY <1>0, <2>1, <2>2, <2>3, <2>4 DEF BackupTypeOK
  <2>6. NothingDisclosed'
    BY <1>0, <2>3, <2>4 DEF NothingDisclosed, Disclosable
  <2>. QED  BY <1>b, <2>1, <2>5, <2>6 DEF BackupInv
<1>10. ASSUME NEW c \in Callers, BackupDies(c) PROVE BackupInv'
  <2>1. bbudget' \in [calls : Nat, touches : Nat, deaths : Nat]
    BY <1>a, <1>10 DEF BackupDies
  <2>. QED  BY <1>10, <1>a, <1>c, <2>1, BackupMoves DEF BackupDies, BkEnd
<1>. QED  BY <1>1, <1>2, <1>3, <1>4, <1>5, <1>6, <1>7, <1>8, <1>9, <1>10 DEF BackupNext

\* Whatever people write while files are collected, no public or diagnostic
\* bundle, and nothing restored from one, holds a secret, a local path or a
\* restricted file (_collect, create and restore in backup/service.py).
THEOREM NothingIsDisclosed == Spec => []NothingDisclosed
<1>1. Init => BackupInv
  BY BackupInvInit DEF Init
<1>2. BackupInv /\ [Next]_vars => BackupInv'
  BY BackupInvStep, AreaSteps
<1>3. BackupInv => NothingDisclosed
  BY DEF BackupInv
<1>. QED  BY <1>1, <1>2, <1>3, PTL DEF Spec

-----------------------------------------------------------------------------
(* Task workspaces                                                          *)

\* The sources as positions.
LEMMA SourcesInOrder ==
    /\ Len(Sources) \in Nat /\ Len(Sources) >= 1
    /\ \A i \in 1 .. Len(Sources) : Sources[i] \in SourceSet
    /\ \A s \in SourceSet : \E i \in 1 .. Len(Sources) : s = Sources[i]
<1>1. Len(Sources) \in Nat /\ Len(Sources) >= 1
  BY SpaceAssumption
<1>. QED  BY <1>1 DEF SourceSet

\* The parts of a workspace as positions.
LEMMA PartsInOrder == /\ Len(Parts) = 5 /\ \A i \in 1 .. Len(Parts) : Parts[i] \in PartSet
                      /\ "manifest" \in PartSet
<1>1. Len(Parts) = 5 /\ Parts[5] = "manifest" /\ 5 \in 1 .. Len(Parts)
  BY DEF Parts
<1>. QED  BY <1>1 DEF PartSet

\* A workspace is on disk whole when it is there with all its parts.
LEMMA WholeOnDisk == \A b : b \in WholeSpaces <=> OnDisk(b) = PartSet
BY PartsInOrder DEF WholeSpaces, OnDisk

\* A workspace that is put to has one more part and keeps what is whole.
LEMMA PutGrows ==
    ASSUME SpaceTypeOK, NEW b \in SpaceIds, NEW part \in PartSet, Put(b, part)
    PROVE  /\ DOMAIN spaces' \subseteq SpaceIds /\ spaces' \in [DOMAIN spaces' -> SUBSET PartSet]
           /\ WholeSpaces \subseteq WholeSpaces'
<1>1. /\ DOMAIN spaces' = DOMAIN spaces \cup {b}
      /\ \A x \in DOMAIN spaces' : spaces'[x] = IF x = b THEN OnDisk(b) \cup {part} ELSE spaces[x]
      /\ spaces' = [x \in DOMAIN spaces' |-> spaces'[x]]
  BY DEF Put
<1>2. \A x \in SpaceIds : OnDisk(x) \subseteq PartSet
  BY DEF OnDisk, SpaceTypeOK
<1>3. \A x \in DOMAIN spaces' : spaces'[x] \subseteq PartSet /\ x \in SpaceIds
  BY <1>1, <1>2 DEF SpaceTypeOK
<1>4. ASSUME NEW x \in WholeSpaces PROVE x \in DOMAIN spaces' /\ spaces'[x] = PartSet
  <2>1. CASE x = b
    BY <1>1, <1>4, <2>1 DEF OnDisk, WholeSpaces
  <2>2. CASE x # b
    BY <1>1, <1>4, <2>2 DEF WholeSpaces
  <2>. QED  BY <2>1, <2>2
<1>. QED  BY <1>1, <1>3, <1>4 DEF WholeSpaces

\* Nothing was prepared and nobody calls.
LEMMA SpaceInvInit == SpaceInit => SpaceInv
BY DEF SpaceInit, SpaceInv, SpaceTypeOK, HandedTogether, Versions

\* A step of one call keeps the invariant when the call it leaves stands and
\* no part of a workspace goes away.
LEMMA SpaceCallMoves ==
    ASSUME SpaceInv, NEW c \in Callers, NEW call \in PrepCalls \cup {PrepIdle},
           prep' = [prep EXCEPT ![c] = call], call # PrepIdle => PrepStands(call, now, WholeSpaces'),
           UNCHANGED now, DOMAIN spaces' \subseteq SpaceIds, spaces' \in [DOMAIN spaces' -> SUBSET PartSet],
           WholeSpaces \subseteq WholeSpaces',
           \A h \in handed' \ handed : h.id \in SpaceIds /\ (h.still => h.joint) /\ h.id \in WholeSpaces
    PROVE  SpaceInv'
<1>1. SpaceTypeOK'
  BY DEF SpaceInv, SpaceTypeOK
<1>2. HandedTogether'
  <2>1. \A h \in handed' : (h.still => h.joint) /\ h.id \in WholeSpaces
    BY WholeOnDisk DEF SpaceInv, SpaceTypeOK, HandedTogether
  <2>2. \A b \in WholeSpaces' : OnDisk(b)' = PartSet
    BY DEF WholeSpaces, OnDisk
  <2>. QED  BY <2>1, <2>2 DEF HandedTogether
<1>3. ASSUME NEW d \in Callers, prep'[d] # PrepIdle PROVE PrepStands(prep'[d], now', WholeSpaces')
  <2>1. CASE d = c
    BY <1>3, <2>1 DEF SpaceInv, SpaceTypeOK
  <2>2. CASE d # c
    <3>1. prep'[d] = prep[d] /\ prep[d] \in PrepCalls /\ PrepStands(prep[d], now, WholeSpaces)
      BY <1>3, <2>2 DEF SpaceInv, SpaceTypeOK
    <3>. QED  BY <3>1 DEF PrepStands
  <2>. QED  BY <2>1, <2>2
<1>. QED  BY <1>1, <1>2, <1>3 DEF SpaceInv

\* Every step of the preparations and of the sources they read keeps the invariant.
LEMMA SpaceInvStep == SpaceInv /\ [SpaceNext]_mvars => SpaceInv'
<1> SUFFICES ASSUME SpaceInv, [SpaceNext]_mvars PROVE SpaceInv'
  OBVIOUS
<1>0. SpaceTypeOK /\ PrepIdle.step = "idle" /\ PrepIdle \notin PrepCalls
  BY DEF SpaceInv, PrepIdle, PrepCalls
<1>a. now \in Versions /\ DOMAIN spaces \subseteq SpaceIds /\ spaces \in [DOMAIN spaces -> SUBSET PartSet]
  BY <1>0 DEF SpaceTypeOK
<1>b. \A c \in Callers : prep[c] # PrepIdle =>
        /\ prep[c] \in PrepCalls /\ PrepStands(prep[c], now, WholeSpaces)
        /\ prep[c].at \in Nat \ {0} /\ prep[c].bound \in Versions /\ prep[c].fixture \in BOOLEAN
        /\ SpaceId(c) \in SpaceIds
  BY <1>0 DEF SpaceInv, SpaceTypeOK, PrepCalls, SpaceId, SpaceIds
<1>c. ASSUME NEW c \in Callers, NEW at \in Nat \ {0}, prep[c] # PrepIdle,
             NEW step \in {"read", "stable", "persist", "publish", "raced", "validate", "again", "return"},
             GoOn(c, step, at)
      PROVE  \E call \in PrepCalls : /\ prep' = [prep EXCEPT ![c] = call] /\ call.step = step /\ call.at = at
                                     /\ call.bound = prep[c].bound /\ call.fixture = prep[c].fixture
                                     /\ call.joint = prep[c].joint /\ call.still = prep[c].still
  <2> DEFINE call == [prep[c] EXCEPT !.step = step, !.at = at]
  <2>1. /\ call \in PrepCalls /\ call.step = step /\ call.at = at /\ call.joint = prep[c].joint
        /\ call.bound = prep[c].bound /\ call.fixture = prep[c].fixture /\ call.still = prep[c].still
    BY <1>b, <1>c DEF PrepCalls
  <2>2. prep' = [prep EXCEPT ![c] = call]
    BY <1>0, <1>c DEF GoOn, SpaceTypeOK
  <2> HIDE DEF call
  <2>. QED  BY <2>1, <2>2
<1>d. UNCHANGED spaces => UNCHANGED WholeSpaces
  BY DEF WholeSpaces
<1>1. CASE UNCHANGED mvars
  BY <1>0, <1>1 DEF mvars, SpaceInv, SpaceTypeOK, HandedTogether, OnDisk, PrepStands, WholeSpaces
<1>2. ASSUME NEW c \in Callers, NEW fixture \in BOOLEAN, StartPrepare(c, fixture) PROVE SpaceInv'
  <2> DEFINE call == [step |-> "read", at |-> 1, bound |-> Unread, fixture |-> fixture,
                      joint |-> FALSE, still |-> TRUE]
  <2>1. call \in PrepCalls
    BY DEF PrepCalls, Unread, Versions
  <2>2. PrepStands(call, now, WholeSpaces)
    BY <1>a, SourcesInOrder DEF PrepStands, Unread, Versions
  <2>3. prep' = [prep EXCEPT ![c] = call] /\ UNCHANGED <<now, spaces, handed>>
    BY <1>2 DEF StartPrepare
  <2> HIDE DEF call
  <2>. QED  BY <1>a, <1>d, <2>1, <2>2, <2>3, SpaceCallMoves
<1>3. ASSUME NEW c \in Callers, ReadSource(c) PROVE SpaceInv'
  <2> DEFINE at == prep[c].at  s == Sources[at]
             bound == [prep[c].bound EXCEPT ![s] = IF FromCaller(prep[c], s) THEN prep[c].bound[s] ELSE now[s]]
             together == \A t \in SourceSet : FromCaller(prep[c], t) \/ bound[t] = now[t]
             more == [prep[c] EXCEPT !.bound = bound, !.at = at + 1]
             all == [prep[c] EXCEPT !.step = "stable", !.at = 1, !.bound = bound, !.joint = together]
  <2>1. /\ prep[c] \in PrepCalls /\ PrepStands(prep[c], now, WholeSpaces) /\ prep[c].step = "read"
        /\ at \in 1 .. Len(Sources) /\ prep[c].bound \in Versions /\ prep[c].fixture \in BOOLEAN
    BY <1>0, <1>3, <1>b DEF ReadSource, PrepStands
  <2>2. s \in SourceSet /\ bound \in Versions /\ (prep[c].still => \A x \in SourceSet : bound[x] <= now[x])
    BY <1>a, <2>1, SourcesInOrder DEF PrepStands, Versions
  <2>3. UNCHANGED <<now, spaces, handed>>
    BY <1>3 DEF ReadSource
  <2>4. CASE at < Len(Sources)
    <3>1. prep' = [prep EXCEPT ![c] = more]
      BY <1>0, <1>3, <2>4 DEF ReadSource, SpaceTypeOK
    <3>2. at + 1 \in 1 .. Len(Sources) /\ at + 1 \in Nat \ {0}
      BY <2>1, <2>4, SourcesInOrder
    <3> HIDE DEF bound
    <3>3. more \in PrepCalls /\ more.step = "read" /\ more.bound = bound /\ more.at = at + 1
          /\ more.still = prep[c].still
      BY <2>1, <2>2, <3>2 DEF PrepCalls
    <3> HIDE DEF more
    <3>4. PrepStands(more, now, WholeSpaces)
      BY <2>2, <3>2, <3>3 DEF PrepStands
    <3>. QED  BY <1>a, <1>d, <2>3, <3>1, <3>3, <3>4, SpaceCallMoves
  <2>5. CASE ~(at < Len(Sources))
    <3>1. prep' = [prep EXCEPT ![c] = all]
      BY <1>0, <1>3, <2>5 DEF ReadSource, SpaceTypeOK
    <3>2. \/ ~prep[c].still
          \/ together
          \/ \E i \in 1 .. Len(Sources) : ~FromCaller(prep[c], Sources[i]) /\ bound[Sources[i]] < now[Sources[i]]
      <4>1. together \/ \E x \in SourceSet : ~FromCaller(prep[c], x) /\ bound[x] # now[x]
        OBVIOUS
      <4>2. prep[c].still => \A x \in SourceSet : bound[x] # now[x] => bound[x] < now[x]
        BY <1>a, <2>2 DEF Versions
      <4>. QED  BY <4>1, <4>2, SourcesInOrder
    <3>3. all \in PrepCalls /\ all.step = "stable" /\ all.bound = bound /\ all.at = 1 /\ (together => all.joint) /\ all.fixture = prep[c].fixture
          /\ all.still = prep[c].still
      <4>1. PICK same \in BOOLEAN : same = together /\ (together => same)
        OBVIOUS
      <4>2. all = [prep[c] EXCEPT !.step = "stable", !.at = 1, !.bound = bound, !.joint = same]
        BY <4>1
      <4> HIDE DEF bound, all, together
      <4>3. 1 \in Nat \ {0} /\ prep[c] \in PrepCalls
        BY <2>1
      <4>4. all \in PrepCalls
        BY <2>2, <4>1, <4>2, <4>3, Zenon DEF PrepCalls
      <4>5. all.step = "stable" /\ all.at = 1 /\ all.bound = bound /\ all.fixture = prep[c].fixture
            /\ all.still = prep[c].still
        BY <4>2, <4>3 DEF PrepCalls
      <4>6. same => all.joint
        BY <4>2, <4>3, Zenon DEF PrepCalls
      <4>. QED  BY <4>1, <4>4, <4>5, <4>6, Zenon
    <3> HIDE DEF bound, all, together
    <3>4. PrepStands(all, now, WholeSpaces)
      BY <2>2, <3>2, <3>3, SourcesInOrder DEF PrepStands, FromCaller
    <3>. QED  BY <1>a, <1>d, <2>3, <3>1, <3>3, <3>4, SpaceCallMoves
  <2>. QED  BY <2>4, <2>5
<1>4. ASSUME NEW c \in Callers, AssertStable(c) PROVE SpaceInv'
  <2> DEFINE at == prep[c].at
  <2>1. /\ prep[c] # PrepIdle /\ PrepStands(prep[c], now, WholeSpaces) /\ prep[c].step \in {"stable", "again"}
        /\ at \in 1 .. Len(Sources) /\ prep[c].bound \in Versions
    BY <1>0, <1>4, <1>b DEF AssertStable, PrepStands
  <2>2. UNCHANGED <<now, spaces, handed>>
    BY <1>4 DEF AssertStable
  <2>3. CASE ~StableAt(c)
    BY <1>4, <1>a, <1>d, <2>2, <2>3, SpaceCallMoves DEF AssertStable, Fail
  <2>4. CASE StableAt(c) /\ at < Len(Sources)
    <3>1. at + 1 \in 1 .. Len(Sources) /\ at + 1 \in Nat \ {0} /\ \A i \in 1 .. Len(Sources) : at <= i /\ i # at => at + 1 <= i
      BY <2>1, <2>4, SourcesInOrder
    <3>2. GoOn(c, prep[c].step, at + 1)
      BY <1>4, <2>4 DEF AssertStable
    <3>3. PICK call \in PrepCalls : /\ prep' = [prep EXCEPT ![c] = call] /\ call.step = prep[c].step /\ call.at = at + 1
                                    /\ call.bound = prep[c].bound /\ call.fixture = prep[c].fixture
                                    /\ call.joint = prep[c].joint /\ call.still = prep[c].still
      BY <1>c, <2>1, <3>1, <3>2
    <3>4. prep[c].still => \A i \in 1 .. Len(Sources) :
            ~FromCaller(prep[c], Sources[i]) /\ prep[c].bound[Sources[i]] < now[Sources[i]] => i # at
      BY <1>a, <2>1, <2>4, SourcesInOrder DEF StableAt, Versions
    <3>5. PrepStands(call, now, WholeSpaces)
      BY <2>1, <3>1, <3>3, <3>4 DEF PrepStands, FromCaller
    <3>. QED  BY <1>a, <1>d, <2>2, <3>3, <3>5, SpaceCallMoves
  <2>5. CASE StableAt(c) /\ ~(at < Len(Sources))
    <3>1. prep[c].still => prep[c].joint
      <4>1. \A i \in 1 .. Len(Sources) : at <= i => i = at
        BY <2>1, <2>5, SourcesInOrder
      <4>2. FromCaller(prep[c], Sources[at]) \/ ~(prep[c].bound[Sources[at]] < now[Sources[at]])
        BY <1>a, <2>1, <2>5, SourcesInOrder DEF StableAt, Versions
      <4>. QED  BY <2>1, <4>1, <4>2 DEF PrepStands
    <3>2. GoOn(c, IF prep[c].step = "stable" THEN "persist" ELSE "return", 1)
      BY <1>4, <2>5 DEF AssertStable
    <3>3. PICK step \in {"persist", "return"} : GoOn(c, step, 1) /\ (step = "return" => prep[c].step = "again")
      BY <2>1, <3>2
    <3>4. PICK call \in PrepCalls : /\ prep' = [prep EXCEPT ![c] = call] /\ call.step = step
                                    /\ call.bound = prep[c].bound /\ call.fixture = prep[c].fixture
                                    /\ call.joint = prep[c].joint /\ call.still = prep[c].still
      BY <1>c, <2>1, <3>3
    <3>5. PrepStands(call, now, WholeSpaces)
      BY <2>1, <3>1, <3>3, <3>4 DEF PrepStands
    <3>. QED  BY <1>a, <1>d, <2>2, <3>4, <3>5, SpaceCallMoves
  <2>. QED  BY <2>3, <2>4, <2>5
<1>5. ASSUME NEW c \in Callers, FindExisting(c) \/ Validate(c) PROVE SpaceInv'
  <2>1. prep[c] # PrepIdle /\ PrepStands(prep[c], now, WholeSpaces) /\ (prep[c].still => prep[c].joint)
    BY <1>0, <1>5, <1>b DEF FindExisting, Validate, PrepStands
  <2>2. UNCHANGED <<now, spaces, handed>>
    BY <1>5 DEF FindExisting, Validate
  <2>3. \/ prep' = [prep EXCEPT ![c] = PrepIdle]
        \/ \E step \in {"publish", "again"} : GoOn(c, step, 1) /\ (step = "again" => SpaceId(c) \in WholeSpaces)
    BY <1>5, WholeOnDisk DEF FindExisting, Validate, Fail
  <2>4. CASE prep' = [prep EXCEPT ![c] = PrepIdle]
    BY <1>a, <1>d, <2>2, <2>4, SpaceCallMoves
  <2>5. CASE \E step \in {"publish", "again"} : GoOn(c, step, 1) /\ (step = "again" => SpaceId(c) \in WholeSpaces)
    <3>1. PICK step \in {"publish", "again"} : GoOn(c, step, 1) /\ (step = "again" => SpaceId(c) \in WholeSpaces)
      BY <2>5
    <3>2. PICK call \in PrepCalls : /\ prep' = [prep EXCEPT ![c] = call] /\ call.step = step /\ call.at = 1
                                    /\ call.bound = prep[c].bound /\ call.fixture = prep[c].fixture
                                    /\ call.joint = prep[c].joint /\ call.still = prep[c].still
      <4>1. prep[c] # PrepIdle
        BY <2>1
      <4>. QED  BY <1>c, <3>1, <4>1
    <3>3. PrepStands(call, now, WholeSpaces)
      BY <2>1, <3>1, <3>2, SourcesInOrder, PartsInOrder DEF PrepStands, SpaceId
    <3>. QED  BY <1>a, <1>d, <2>2, <3>2, <3>3, SpaceCallMoves
  <2>. QED  BY <2>3, <2>4, <2>5
<1>6. ASSUME NEW c \in Callers, PublishPart(c) PROVE SpaceInv'
  <2> DEFINE at == prep[c].at
  <2>1. /\ prep[c] # PrepIdle /\ PrepStands(prep[c], now, WholeSpaces) /\ (prep[c].still => prep[c].joint)
        /\ SpaceId(c) \in SpaceIds /\ at \in 1 .. Len(Parts)
    BY <1>0, <1>6, <1>b DEF PublishPart, PrepStands
  <2>2. UNCHANGED <<now, handed>> /\ Put(SpaceId(c), Parts[at]) /\ Parts[at] \in PartSet
    BY <1>6, <2>1, PartsInOrder DEF PublishPart
  <2>3. /\ DOMAIN spaces' \subseteq SpaceIds /\ spaces' \in [DOMAIN spaces' -> SUBSET PartSet]
        /\ WholeSpaces \subseteq WholeSpaces'
    BY <1>0, <2>1, <2>2, PutGrows
  <2>4. \/ prep' = [prep EXCEPT ![c] = PrepIdle]
        \/ GoOn(c, "raced", at)
        \/ at < Len(Parts) /\ GoOn(c, "publish", at + 1)
        \/ GoOn(c, "validate", 1)
    BY <1>6 DEF PublishPart, Fail
  <2>5. PICK call \in PrepCalls \cup {PrepIdle} :
          /\ prep' = [prep EXCEPT ![c] = call]
          /\ call # PrepIdle => /\ call.step \in {"raced", "validate", "publish"}
                                /\ call.step = "publish" => call.at \in 1 .. Len(Parts)
                                /\ call.bound = prep[c].bound /\ (call.still => prep[c].still /\ call.joint)
    <3>1. at \in Nat \ {0} /\ (at < Len(Parts) => at + 1 \in 1 .. Len(Parts) /\ at + 1 \in Nat \ {0})
      BY <2>1, PartsInOrder
    <3>2. CASE prep' = [prep EXCEPT ![c] = PrepIdle]
      BY <3>2
    <3>3. CASE GoOn(c, "raced", at)
      BY <1>c, <2>1, <3>1, <3>3
    <3>4. CASE at < Len(Parts) /\ GoOn(c, "publish", at + 1)
      BY <1>c, <2>1, <3>1, <3>4
    <3>5. CASE GoOn(c, "validate", 1)
      BY <1>c, <2>1, <3>5
    <3>. QED  BY <2>4, <3>2, <3>3, <3>4, <3>5
  <2>6. call # PrepIdle => PrepStands(call, now, WholeSpaces')
    BY <2>1, <2>5 DEF PrepStands
  <2>. QED  BY <2>2, <2>3, <2>5, <2>6, SpaceCallMoves
<1>7. ASSUME NEW c \in Callers, PublishRaced(c) PROVE SpaceInv'
  <2>1. prep[c] # PrepIdle /\ SpaceId(c) \in SpaceIds
    BY <1>0, <1>7, <1>b DEF PublishRaced
  <2>2. UNCHANGED <<now, handed>> /\ Put(SpaceId(c), "manifest") /\ prep' = [prep EXCEPT ![c] = PrepIdle]
    BY <1>7 DEF PublishRaced, Fail
  <2>3. /\ DOMAIN spaces' \subseteq SpaceIds /\ spaces' \in [DOMAIN spaces' -> SUBSET PartSet]
        /\ WholeSpaces \subseteq WholeSpaces'
    BY <1>0, <2>1, <2>2, PutGrows, PartsInOrder
  <2>. QED  BY <2>2, <2>3, SpaceCallMoves
<1>8. ASSUME NEW c \in Callers, HandOver(c) PROVE SpaceInv'
  <2>1. prep[c] # PrepIdle /\ SpaceId(c) \in SpaceIds /\ (prep[c].still => prep[c].joint) /\ SpaceId(c) \in WholeSpaces
    BY <1>0, <1>8, <1>b DEF HandOver, PrepStands, SpaceId
  <2>2. /\ UNCHANGED <<now, spaces>> /\ prep' = [prep EXCEPT ![c] = PrepIdle]
        /\ handed' = handed \cup {[id |-> SpaceId(c), joint |-> prep[c].joint, still |-> prep[c].still]}
    BY <1>8 DEF HandOver, Fail
  <2>3. \A h \in handed' \ handed : h.id = SpaceId(c) /\ h.joint = prep[c].joint /\ h.still = prep[c].still
    BY <2>2
  <2>. QED  BY <1>a, <1>d, <2>1, <2>2, <2>3, SpaceCallMoves
<1>9. ASSUME NEW c \in Callers, PreparerDies(c) PROVE SpaceInv'
  BY <1>9, <1>a, <1>d, SpaceCallMoves DEF PreparerDies, Fail
<1>10. ASSUME NEW s \in SourceSet, MoveSource(s) PROVE SpaceInv'
  <2>1. now' = [now EXCEPT ![s] = now[s] + 1] /\ UNCHANGED <<spaces, prep, handed>>
    BY <1>10 DEF MoveSource
  <2>2. now' \in Versions /\ \A x \in SourceSet : now[x] \in Nat /\ now'[x] \in Nat /\ now[x] <= now'[x]
    BY <1>a, <2>1 DEF Versions
  <2>3. SpaceTypeOK' /\ HandedTogether' /\ UNCHANGED WholeSpaces
    BY <1>0, <1>d, <2>1, <2>2 DEF SpaceInv, SpaceTypeOK, HandedTogether, OnDisk
  <2>4. ASSUME NEW c \in Callers, prep[c] # PrepIdle PROVE PrepStands(prep[c], now', WholeSpaces)
    <3>1. PrepStands(prep[c], now, WholeSpaces) /\ \A x \in SourceSet : prep[c].bound[x] \in Nat
      BY <1>b, <2>4 DEF Versions
    <3>2. prep[c].still => \A x \in SourceSet : prep[c].bound[x] <= now'[x]
      BY <2>2, <3>1 DEF PrepStands
    <3>3. \A i \in 1 .. Len(Sources) : prep[c].bound[Sources[i]] < now[Sources[i]] => prep[c].bound[Sources[i]] < now'[Sources[i]]
      BY <2>2, <3>1, SourcesInOrder
    <3>. QED  BY <3>1, <3>2, <3>3 DEF PrepStands
  <2>. QED  BY <2>1, <2>3, <2>4 DEF SpaceInv
<1>11. ASSUME NEW s \in SourceSet, RestoreSource(s) PROVE SpaceInv'
  <2>1. /\ UNCHANGED <<spaces, handed>>
        /\ prep' = [c \in Callers |-> IF prep[c] = PrepIdle THEN PrepIdle ELSE [prep[c] EXCEPT !.still = FALSE]]
    BY <1>11 DEF RestoreSource
  <2>2. now' \in Versions
    BY <1>11, <1>a DEF RestoreSource, Versions
  <2>3. UNCHANGED WholeSpaces /\ HandedTogether'
    BY <1>0, <1>d, <2>1 DEF SpaceInv, HandedTogether, OnDisk
  <2>4. ASSUME NEW c \in Callers, prep[c] # PrepIdle
        PROVE  prep'[c] \in PrepCalls /\ PrepStands(prep'[c], now', WholeSpaces)
    <3>1. prep'[c] = [prep[c] EXCEPT !.still = FALSE] /\ prep[c] \in PrepCalls /\ PrepStands(prep[c], now, WholeSpaces)
      BY <1>b, <2>1, <2>4
    <3>2. /\ prep'[c] \in PrepCalls /\ ~prep'[c].still /\ prep'[c].step = prep[c].step /\ prep'[c].at = prep[c].at
          /\ prep'[c].bound = prep[c].bound /\ prep'[c].fixture = prep[c].fixture
      BY <3>1 DEF PrepCalls
    <3>. QED  BY <3>1, <3>2 DEF PrepStands
  <2>5. prep' \in [Callers -> PrepCalls \cup {PrepIdle}] /\ \A c \in Callers : prep'[c] # PrepIdle => prep[c] # PrepIdle
    BY <2>1, <2>4
  <2>6. SpaceTypeOK'
    BY <1>0, <2>1, <2>2, <2>5 DEF SpaceTypeOK
  <2>. QED  BY <2>3, <2>4, <2>5, <2>6 DEF SpaceInv
<1>. QED  BY <1>1, <1>2, <1>3, <1>4, <1>5, <1>6, <1>7, <1>8, <1>9, <1>10, <1>11 DEF SpaceNext

\* However the sources move on between the reads: a workspace that is handed
\* over is whole, and, if nothing was put back meanwhile, all that the call
\* itself read was current at one moment (prepare, _assert_sources_stable in
\* execution/workspace.py).
THEOREM SpacesHandedTogether == Spec => []HandedTogether
<1>1. Init => SpaceInv
  BY SpaceInvInit DEF Init
<1>2. SpaceInv /\ [Next]_vars => SpaceInv'
  BY SpaceInvStep, AreaSteps
<1>3. SpaceInv => HandedTogether
  BY DEF SpaceInv
<1>. QED  BY <1>1, <1>2, <1>3, PTL DEF Spec

-----------------------------------------------------------------------------
(* Schema migrations                                                        *)

\* Nothing was applied and nobody calls.
LEMMA MigrationTypeInit == MigrationInit => MigrationTypeOK
BY DEF MigrationInit, MigrationTypeOK, Versioned

\* What a call looks like at each step, and what it looks like when it goes on.
LEMMA ApplyCallShapes ==
    ASSUME MigrationTypeOK, NEW c \in Callers
    PROVE  /\ MgIdle.step = "idle" /\ (mgcall[c].step = "idle" <=> mgcall[c] = MgIdle)
           /\ mgcall[c] # MgIdle => mgcall[c] \in ApplyCalls
           /\ mgcall[c].step \in {"bump", "head", "commit", "undo", "failed"} => mgcall[c].before \in Versioned
           /\ mgcall[c].step = "commit" => mgcall[c].rev \in Nat
           /\ \A step \in {"gate", "read"} : mgcall[c].step \in {"pending", "gate"} =>
                [mgcall[c] EXCEPT !.step = step] \in ApplyCalls /\ [mgcall[c] EXCEPT !.step = step].step = step
           /\ \A step \in {"head", "undo"} : mgcall[c].step = "bump" =>
                [mgcall[c] EXCEPT !.step = step] \in ApplyCalls /\ [mgcall[c] EXCEPT !.step = step].step = step
           /\ \A step \in {"undo", "failed"} : mgcall[c].step \in {"commit", "undo"} =>
                [mgcall[c] EXCEPT !.step = step] \in ApplyCalls /\ [mgcall[c] EXCEPT !.step = step].step = step
<1>1. mgcall[c] \in ApplyCalls \cup {MgIdle} /\ MgIdle.step = "idle"
  BY DEF MigrationTypeOK, MgIdle
<1>2. CASE mgcall[c] = MgIdle
  BY <1>1, <1>2
<1>3. CASE mgcall[c] \in [step : {"pending", "gate", "read"}]
  BY <1>1, <1>3 DEF ApplyCalls
<1>4. CASE mgcall[c] \in [step : {"bump", "head", "undo", "failed"}, before : Versioned]
  BY <1>1, <1>4 DEF ApplyCalls
<1>5. CASE mgcall[c] \in [step : {"commit", "undo", "failed"}, before : Versioned, rev : Nat]
  BY <1>1, <1>5 DEF ApplyCalls
<1>. QED  BY <1>1, <1>2, <1>3, <1>4, <1>5 DEF ApplyCalls

\* A step of one call leaves one call different.
LEMMA ApplyCallMoves ==
    ASSUME MigrationTypeOK, NEW c \in Callers, NEW call \in ApplyCalls \cup {MgIdle},
           mgcall' = [mgcall EXCEPT ![c] = call],
           config' \in Versioned, mjournal' \in {"none", "applied", "failed"}, mrecord' \in [rev : Nat],
           mgbudget' \in [calls : Nat, troubles : Nat]
    PROVE  MigrationTypeOK' /\ mgcall'[c] = call /\ \A d \in Callers \ {c} : mgcall'[d] = mgcall[d]
BY DEF MigrationTypeOK

\* A migration keeps its types whatever fails and however many calls overlap.
LEMMA MigrationTypeStep == MigrationTypeOK /\ [MigrationNext]_mgvars => MigrationTypeOK'
<1> SUFFICES ASSUME MigrationTypeOK, [MigrationNext]_mgvars PROVE MigrationTypeOK'
  OBVIOUS
<1>0. /\ config \in Versioned /\ mjournal \in {"none", "applied", "failed"} /\ mrecord \in [rev : Nat]
      /\ mgbudget \in [calls : Nat, troubles : Nat] /\ mrecord.rev \in Nat /\ "new" \in Versioned
      /\ (Trouble => mgbudget' \in [calls : Nat, troubles : Nat])
  BY DEF MigrationTypeOK, Trouble, Versioned
<1>1. CASE UNCHANGED mgvars
  BY <1>1 DEF mgvars, MigrationTypeOK
<1>2. ASSUME NEW c \in Callers, StartApply(c) PROVE MigrationTypeOK'
  <2>1. [step |-> "pending"] \in ApplyCalls /\ mgbudget' \in [calls : Nat, troubles : Nat]
    BY <1>0, <1>2 DEF ApplyCalls, StartApply
  <2>. QED  BY <1>0, <1>2, <2>1, ApplyCallMoves DEF StartApply
<1>3. ASSUME NEW c \in Callers, LookAtJournal(c) \/ GateApply(c) PROVE MigrationTypeOK'
  <2>1. PICK call \in ApplyCalls \cup {MgIdle} : mgcall' = [mgcall EXCEPT ![c] = call]
    BY <1>3, ApplyCallShapes DEF LookAtJournal, GateApply, MgGo, MgEnd
  <2>. QED  BY <1>0, <1>3, <2>1, ApplyCallMoves DEF LookAtJournal, GateApply
<1>4. ASSUME NEW c \in Callers, ReadConfig(c) PROVE MigrationTypeOK'
  <2>1. [step |-> "bump", before |-> config] \in ApplyCalls
    BY <1>0 DEF ApplyCalls
  <2>. QED  BY <1>0, <1>4, <2>1, ApplyCallMoves DEF ReadConfig
<1>5. ASSUME NEW c \in Callers, BumpConfig(c) PROVE MigrationTypeOK'
  <2>1. PICK call \in ApplyCalls \cup {MgIdle} : mgcall' = [mgcall EXCEPT ![c] = call]
    BY <1>5, ApplyCallShapes DEF BumpConfig, MgGo
  <2>. QED  BY <1>0, <1>5, <2>1, ApplyCallMoves DEF BumpConfig
<1>6. ASSUME NEW c \in Callers, ReadRecord(c) PROVE MigrationTypeOK'
  <2>1. [step |-> "commit", before |-> mgcall[c].before, rev |-> mrecord.rev] \in ApplyCalls
    BY <1>0, <1>6, ApplyCallShapes DEF ApplyCalls, ReadRecord
  <2>2. mgcall' = [mgcall EXCEPT ![c] = [step |-> "commit", before |-> mgcall[c].before, rev |-> mrecord.rev]]
    BY <1>6 DEF ReadRecord
  <2>. QED  BY <1>0, <1>6, <2>1, <2>2, ApplyCallMoves DEF ReadRecord
<1>7. ASSUME NEW c \in Callers, CommitMigration(c) PROVE MigrationTypeOK'
  <2>1. PICK call \in ApplyCalls \cup {MgIdle} : mgcall' = [mgcall EXCEPT ![c] = call]
    BY <1>7, ApplyCallShapes DEF CommitMigration, MgGo, MgEnd
  <2>2. /\ mrecord' \in [rev : Nat] /\ mjournal' \in {"none", "applied", "failed"}
        /\ mgbudget' \in [calls : Nat, troubles : Nat]
    BY <1>0, <1>7 DEF CommitMigration, Appended
  <2>. QED  BY <1>0, <1>7, <2>1, <2>2, ApplyCallMoves DEF CommitMigration
<1>8. ASSUME NEW c \in Callers, UndoConfig(c) PROVE MigrationTypeOK'
  <2>1. PICK call \in ApplyCalls \cup {MgIdle} : mgcall' = [mgcall EXCEPT ![c] = call]
    BY <1>8, ApplyCallShapes DEF UndoConfig, MgGo
  <2>2. config' \in Versioned
    BY <1>8, ApplyCallShapes DEF UndoConfig
  <2>. QED  BY <1>0, <1>8, <2>1, <2>2, ApplyCallMoves DEF UndoConfig
<1>9. ASSUME NEW c \in Callers, RecordFailure(c) \/ MigratorDies(c) PROVE MigrationTypeOK'
  <2>1. mgcall' = [mgcall EXCEPT ![c] = MgIdle] /\ mjournal' \in {"none", "applied", "failed"}
        /\ mgbudget' \in [calls : Nat, troubles : Nat]
    BY <1>0, <1>9 DEF RecordFailure, MigratorDies, MgEnd
  <2>. QED  BY <1>0, <1>9, <2>1, ApplyCallMoves DEF RecordFailure, MigratorDies
<1>. QED  BY <1>1, <1>2, <1>3, <1>4, <1>5, <1>6, <1>7, <1>8, <1>9 DEF MigrationNext

-----------------------------------------------------------------------------
(* Brand migration                                                          *)

\* The calls are calls and stand as RebrandStands says.
RebrandsStand(calls, backed) ==
    /\ calls \in [Callers -> RebrandCalls \cup {RbIdle}]
    /\ \A d \in Callers : RebrandStands(calls[d], backed)

Counts == [calls : Nat, arrivals : Nat, deaths : Nat, ino : Nat]

\* A legacy workspace that nobody migrates yet.
LEMMA BrandInvInit == BrandInit => BrandInv
<1> SUFFICES ASSUME BrandInit PROVE BrandInv
  OBVIOUS
<1>1. PICK meta \in {"legacy", "broken"} :
        place = [x \in Items |-> [side \in Sides |->
                   IF side = "current" THEN Nothing
                   ELSE Object(First[x], "first", IF x = "config" THEN "none" ELSE meta)]]
  BY DEF BrandInit
<1>2. \A x \in Items : Object(First[x], "first", IF x = "config" THEN "none" ELSE meta) \in Objects
  BY DEF Object, Objects, Metas, First, Items
<1>3. /\ \A x \in Items : place[x]["current"].ino = 0 /\ place[x]["legacy"].ino = First[x]
      /\ First["config"] = 1 /\ First["state"] = 2 /\ "config" \in Items /\ "state" \in Items
      /\ \A s \in Sides : s = "legacy" \/ s = "current"
  BY <1>1 DEF Items, Sides, Object, Nothing, First
<1>4. rbudget.ino = 2 /\ RbIdle.step = "idle" /\ zips = {} /\ rcall = [c \in Callers |-> RbIdle]
      /\ rbudget \in [calls : Nat, arrivals : Nat, deaths : Nat, ino : Nat]
  BY DEF BrandInit, RbIdle
<1>5. BrandTypeOK
  <2>1. place \in [Items -> [Sides -> Objects \cup {Nothing}]]
    BY <1>1, <1>2
  <2>. QED  BY <1>4, <2>1 DEF BrandTypeOK
<1>6. NothingLost
  <2>1. \A ino \in 1 .. 2 : ino = 1 \/ ino = 2
    OBVIOUS
  <2>2. "legacy" \in Sides
    BY DEF Sides
  <2>. QED  BY <1>3, <1>4, <2>1, <2>2 DEF NothingLost
<1>7. \A c \in Callers : RebrandStands(rcall[c], zips)
  <2>1. RebrandStands(RbIdle, zips)
    BY DEF RebrandStands, RbIdle
  <2>2. \A c \in Callers : rcall[c] = RbIdle
    <3>1. rcall = [c \in Callers |-> RbIdle]
      BY <1>4
    <3>. QED  BY <3>1, Zenon
  <2>. QED  BY <2>1, <2>2, Zenon
<1>8. \A x \in Items, side \in Sides : place[x][side].ino \in {1, 2} => place[x][side].ino = First[x]
  BY <1>3
<1>. QED  BY <1>4, <1>5, <1>6, <1>7, <1>8 DEF BrandInv

\* What the invariant says of the calls.
LEMMA BrandStands == BrandInv => RebrandsStand(rcall, zips)
BY DEF BrandInv, BrandTypeOK, RebrandsStand

\* A step that changes what is at the two names of one item keeps the
\* invariant when every inode of that item is kept, a new one is at one of
\* the names, only its own first stands there, and what is at the current
\* name was backed up or is new.
LEMMA BrandPlaceMoves ==
    ASSUME BrandInv, NEW x \in Items, NEW row \in [Sides -> Objects \cup {Nothing}],
           place' = [place EXCEPT ![x] = row],
           \A s \in Sides : place[x][s] # Nothing => \E t \in Sides : row[t].ino = place[x][s].ino,
           \A s \in Sides : row[s].ino \in {1, 2} => row[s].ino = First[x],
           row["current"].ino \in {1, 2} => \E z \in zips : z[x].ino = row["current"].ino,
           UNCHANGED zips, rbudget' \in Counts,
           rbudget'.ino = rbudget.ino \/ (rbudget'.ino = rbudget.ino + 1 /\ \E t \in Sides : row[t].ino = rbudget'.ino),
           RebrandsStand(rcall', zips)
    PROVE  BrandInv'
<1>1. BrandTypeOK /\ NothingLost /\ rbudget.ino \in Nat /\ rbudget.ino >= 2 /\ rbudget'.ino \in Nat /\ rbudget'.ino >= 2
  BY DEF BrandInv, BrandTypeOK, Counts
<1>2. BrandTypeOK'
  BY <1>1 DEF BrandTypeOK, RebrandsStand, Counts
<1>0. place'[x] = row /\ \A y \in Items \ {x} : place'[y] = place[y]
  BY <1>1 DEF BrandTypeOK
<1>3. ASSUME NEW ino \in 1 .. rbudget'.ino PROVE \E y \in Items, s \in Sides : place'[y][s].ino = ino
  <2>1. CASE ino = rbudget.ino + 1
    <3>1. \E t \in Sides : row[t].ino = ino
      BY <1>1, <2>1
    <3>. QED  BY <1>0, <3>1
  <2>2. CASE ino # rbudget.ino + 1
    <3>1. ino \in 1 .. rbudget.ino
      BY <1>1, <2>2
    <3>2. PICK y \in Items, s \in Sides : place[y][s].ino = ino
      BY <1>1, <3>1 DEF NothingLost
    <3>3. CASE y # x
      BY <1>0, <3>2, <3>3
    <3>4. CASE y = x
      <4>1. place[x][s] # Nothing
        BY <3>1, <3>2, <3>4 DEF Nothing
      <4>. QED  BY <1>0, <3>2, <3>4, <4>1
    <3>. QED  BY <3>3, <3>4
  <2>. QED  BY <2>1, <2>2
<1>4. \A y \in Items : place'[y]["current"].ino \in {1, 2} => \E z \in zips' : z[y].ino = place'[y]["current"].ino
  BY <1>1 DEF BrandTypeOK, NothingLost
<1>5. NothingLost'
  BY <1>3, <1>4 DEF NothingLost
<1>6. \A y \in Items, s \in Sides : place'[y][s].ino \in {1, 2} => place'[y][s].ino = First[y]
  BY <1>0 DEF BrandInv
<1>. QED  BY <1>1, <1>2, <1>5, <1>6 DEF BrandInv, RebrandsStand

\* A step of one call leaves the others as they stand.
LEMMA RebrandCallMoves ==
    ASSUME BrandInv, NEW c \in Callers, NEW call \in RebrandCalls \cup {RbIdle},
           rcall' = [rcall EXCEPT ![c] = call], RebrandStands(call, zips)
    PROVE  RebrandsStand(rcall', zips)
BY DEF BrandInv, BrandTypeOK, RebrandsStand

\* A step that moves nothing and adds at most a backup keeps the invariant.
LEMMA BrandCallMoves ==
    ASSUME BrandInv, UNCHANGED place, zips \subseteq zips', zips' \subseteq Found,
           rbudget' \in Counts, rbudget'.ino = rbudget.ino, RebrandsStand(rcall', zips')
    PROVE  BrandInv'
<1>1. BrandTypeOK'
  BY DEF BrandInv, BrandTypeOK, Counts, RebrandsStand
<1>2. NothingLost'
  BY DEF BrandInv, NothingLost
<1>. QED  BY <1>1, <1>2 DEF BrandInv, RebrandsStand

\* A rename takes what is at one name to the other, where nothing is.
LEMMA RenameKeeps ==
    ASSUME BrandTypeOK, NEW x \in Items, NEW from \in Sides, NEW to \in Sides, from # to, MayTake(x, to)
    PROVE  \E row \in [Sides -> Objects \cup {Nothing}] :
             /\ Renamed(x, from, to) = [place EXCEPT ![x] = row]
             /\ row[to] = place[x][from] /\ row[from] = Nothing
             /\ \A s \in Sides : place[x][s] # Nothing => \E t \in Sides : row[t].ino = place[x][s].ino
<1> DEFINE row == [place[x] EXCEPT ![to] = place[x][from], ![from] = Nothing]
<1>1. place[x] \in [Sides -> Objects \cup {Nothing}] /\ place[x][to] = Nothing
  BY DEF BrandTypeOK, MayTake
<1>2. row \in [Sides -> Objects \cup {Nothing}] /\ row[to] = place[x][from] /\ row[from] = Nothing
  BY <1>1
<1>3. Renamed(x, from, to) = [place EXCEPT ![x] = row]
  BY <1>1 DEF Renamed, BrandTypeOK
<1>4. \A s \in Sides : s = from \/ s = to
  BY DEF Sides
<1> HIDE DEF row
<1>. QED  BY <1>1, <1>2, <1>3, <1>4

\* A call that goes on, whatever else of it changes, stands when it stood, has
\* the same first sight, and keeps the rules of the step it comes to.
LEMMA RebrandGoesOn ==
    ASSUME NEW call, NEW new, NEW backed, RebrandStands(call, backed), call.step \notin {"idle", "backup"},
           new.seen = call.seen,
           new.step \in {"move", "moved"} => new.seen[new.item] # Nothing,
           new.step = "back" => new.moved # <<>>
    PROVE  RebrandStands(new, backed)
BY DEF RebrandStands

\* A step that only takes a call on, or ends it, keeps the invariant.
LEMMA RebrandOnward ==
    ASSUME BrandInv, NEW c \in Callers, NEW new \in RebrandCalls \cup {RbIdle},
           UNCHANGED <<place, zips>>, rbudget' \in Counts, rbudget'.ino = rbudget.ino,
           rcall' = [rcall EXCEPT ![c] = new],
           \/ new = RbIdle
           \/ /\ rcall[c].step \notin {"idle", "backup"}
              /\ new.seen = rcall[c].seen
              /\ new.step \in {"move", "moved"} => new.seen[new.item] # Nothing
              /\ new.step = "back" => new.moved # <<>>
    PROVE  BrandInv'
<1>1. zips \subseteq Found /\ RebrandStands(rcall[c], zips)
  BY DEF BrandInv, BrandTypeOK
<1>2. RebrandStands(RbIdle, zips)
  BY DEF RebrandStands, RbIdle
<1>3. RebrandStands(new, zips)
  BY <1>1, <1>2, RebrandGoesOn
<1>4. RebrandsStand(rcall', zips)
  BY <1>3, RebrandCallMoves
<1>. QED  BY <1>1, <1>4, BrandCallMoves

\* RbGo and NextItem, of a call, give a call.
LEMMA RebrandGoes ==
    ASSUME BrandInv, NEW c \in Callers, rcall[c].step # "idle"
    PROVE  /\ rcall[c] \in RebrandCalls
           /\ \A step \in {"verify", "check", "move", "rollback", "rewrite", "reread", "back"} :
                RbGo(c, step) => \E new \in RebrandCalls :
                   /\ rcall' = [rcall EXCEPT ![c] = new] /\ new.step = step
                   /\ new.seen = rcall[c].seen /\ new.item = rcall[c].item /\ new.moved = rcall[c].moved
           /\ NextItem(c) => \E new \in RebrandCalls :
                 rcall' = [rcall EXCEPT ![c] = new] /\ new.step \in {"check", "rewrite"} /\ new.seen = rcall[c].seen
           /\ RbEnd(c) => rcall' = [rcall EXCEPT ![c] = RbIdle]
<1>1. rcall[c] \in RebrandCalls /\ rcall \in [Callers -> RebrandCalls \cup {RbIdle}]
  BY DEF BrandInv, BrandTypeOK, RbIdle
<1>2. ASSUME NEW step \in {"verify", "check", "move", "rollback", "rewrite", "reread", "back"}, RbGo(c, step)
      PROVE  \E new \in RebrandCalls :
                   /\ rcall' = [rcall EXCEPT ![c] = new] /\ new.step = step
                   /\ new.seen = rcall[c].seen /\ new.item = rcall[c].item /\ new.moved = rcall[c].moved
  <2> DEFINE new == [rcall[c] EXCEPT !.step = step]
  <2>1. new \in RebrandCalls /\ new.step = step /\ new.seen = rcall[c].seen /\ new.item = rcall[c].item
        /\ new.moved = rcall[c].moved
    BY <1>1 DEF RebrandCalls
  <2>2. rcall' = [rcall EXCEPT ![c] = new]
    BY <1>1, <1>2 DEF RbGo
  <2> HIDE DEF new
  <2>. QED  BY <2>1, <2>2
<1>3. ASSUME NextItem(c)
      PROVE  \E new \in RebrandCalls :
                 rcall' = [rcall EXCEPT ![c] = new] /\ new.step \in {"check", "rewrite"} /\ new.seen = rcall[c].seen
  <2> DEFINE new == IF rcall[c].item = "config" THEN [rcall[c] EXCEPT !.step = "check", !.item = "state"]
                    ELSE [rcall[c] EXCEPT !.step = "rewrite"]
  <2>1. new \in RebrandCalls /\ new.step \in {"check", "rewrite"} /\ new.seen = rcall[c].seen
    BY <1>1 DEF RebrandCalls, Items
  <2>2. rcall' = [rcall EXCEPT ![c] = new]
    BY <1>1, <1>3 DEF NextItem
  <2> HIDE DEF new
  <2>. QED  BY <2>1, <2>2
<1>. QED  BY <1>1, <1>2, <1>3 DEF RbEnd

\* What a call sees when it starts is the first of each item: where nothing is
\* at the current name, the first is still at the legacy one.
LEMMA StartRebrandKeeps ==
    ASSUME BrandInv, NEW c \in Callers, StartRebrand(c)
    PROVE  BrandInv'
<1> DEFINE call == [step |-> "backup", item |-> "config", side |-> "legacy", seen |-> Legacy,
                    moved |-> <<>>, meta |-> "none"]
<1>0. /\ place \in [Items -> [Sides -> Objects \cup {Nothing}]] /\ NothingLost /\ rbudget.ino >= 2 /\ rbudget.ino \in Nat
      /\ rbudget \in Counts /\ zips \subseteq Found
  BY DEF BrandInv, BrandTypeOK, Counts
<1>1. Legacy \in Found /\ \A x \in Items : Legacy[x] = place[x]["legacy"]
  BY <1>0 DEF Legacy, Found, Sides
<1>2. ASSUME NEW x \in Items, Legacy[x] # Nothing PROVE Legacy[x].ino = First[x]
  <2>1. First[x] \in 1 .. rbudget.ino /\ First[x] \in {1, 2} /\ \A y \in Items : First[y] = First[x] => y = x
    BY <1>0 DEF First, Items
  <2>2. PICK y \in Items, s \in Sides : place[y][s].ino = First[x]
    BY <1>0, <2>1 DEF NothingLost
  <2>3. y = x
    BY <2>1, <2>2 DEF BrandInv
  <2>4. place[x]["current"] = Nothing
    BY <1>1, <1>2 DEF StartRebrand
  <2>5. s = "legacy"
    BY <2>1, <2>2, <2>3, <2>4 DEF Sides, Nothing
  <2>. QED  BY <1>1, <2>2, <2>3, <2>5
<1>3. call \in RebrandCalls
  BY <1>1 DEF RebrandCalls, Items, Sides, Metas
<1>4. call.step = "backup" /\ call.seen = Legacy
  OBVIOUS
<1>5. rcall' = [rcall EXCEPT ![c] = call]
  BY DEF StartRebrand
<1> HIDE DEF call
<1>6. RebrandStands(call, zips)
  BY <1>2, <1>4 DEF RebrandStands
<1>7. RebrandsStand(rcall', zips)
  BY <1>3, <1>5, <1>6, RebrandCallMoves
<1>8. rbudget' \in Counts /\ rbudget'.ino = rbudget.ino /\ UNCHANGED <<place, zips>>
  BY <1>0 DEF StartRebrand, Counts
<1>. QED  BY <1>0, <1>7, <1>8, BrandCallMoves

\* A backup is of what the call saw.
LEMMA BackupKeeps ==
    ASSUME BrandInv, NEW c \in Callers, Backup(c)
    PROVE  BrandInv'
<1>0. /\ rcall[c].step = "backup" /\ UNCHANGED <<place, rbudget>> /\ rbudget \in Counts /\ zips \subseteq Found
      /\ place \in [Items -> [Sides -> Objects \cup {Nothing}]] /\ RebrandStands(rcall[c], zips)
  BY DEF Backup, BrandInv, BrandTypeOK, Counts
<1>1. Legacy \in Found
  BY <1>0 DEF Legacy, Found, Sides
<1>2. CASE Legacy = rcall[c].seen /\ zips' = zips \cup {Legacy} /\ RbGo(c, "verify")
  <2>1. PICK new \in RebrandCalls : rcall' = [rcall EXCEPT ![c] = new] /\ new.step = "verify" /\ new.seen = rcall[c].seen
    BY <1>0, <1>2, RebrandGoes
  <2>2. RebrandStands(new, zips')
    BY <1>0, <1>2, <2>1 DEF RebrandStands
  <2>3. \A d \in Callers : RebrandStands(rcall[d], zips')
    BY <1>2 DEF BrandInv, RebrandStands
  <2>4. RebrandsStand(rcall', zips')
    BY <2>1, <2>2, <2>3 DEF RebrandsStand, BrandInv, BrandTypeOK
  <2>. QED  BY <1>0, <1>1, <1>2, <2>4, BrandCallMoves
<1>3. CASE RbEnd(c) /\ UNCHANGED zips
  BY <1>0, <1>3, RebrandGoes, RebrandOnward
<1>. QED  BY <1>2, <1>3 DEF Backup

\* _move_verified keeps the invariant: what is renamed goes where nothing is,
\* and if it is the first it was backed up, whatever was looked at before.
LEMMA TakeItemKeeps ==
    ASSUME BrandInv, NEW c \in Callers, TakeItem(c)
    PROVE  BrandInv'
<1> DEFINE call == rcall[c]
<1>0. call.step = "move" /\ call.step # "idle" /\ UNCHANGED <<zips, rbudget>> /\ BrandTypeOK /\ rbudget \in Counts
  BY DEF TakeItem, BrandInv, BrandTypeOK, Counts
<1>1. call \in RebrandCalls /\ RebrandStands(call, zips)
  BY <1>0, RebrandGoes DEF BrandInv
<1>2. PICK x \in Items : x = call.item
  BY <1>1 DEF RebrandCalls
<1>3. call.seen \in zips /\ call.seen[x].ino = First[x] /\ call.seen[x] # Nothing
  BY <1>0, <1>1, <1>2 DEF RebrandStands
<1>4. CASE RbGo(c, "rollback") /\ UNCHANGED place
  <2>1. PICK new \in RebrandCalls : rcall' = [rcall EXCEPT ![c] = new] /\ new.step = "rollback" /\ new.seen = call.seen
    BY <1>0, <1>4, RebrandGoes
  <2>. QED  BY <1>0, <1>4, <2>1, RebrandOnward
<1>5. CASE /\ MayTake(x, "current") /\ place' = Renamed(x, "legacy", "current")
           /\ rcall' = [rcall EXCEPT ![c] = [call EXCEPT !.step = "moved", !.moved = <<x>> \o call.moved]]
  <2> DEFINE new == [call EXCEPT !.step = "moved", !.moved = <<x>> \o call.moved]
  <2>1. <<x>> \o call.moved \in Seq(Items)
    BY <1>1, <1>2 DEF RebrandCalls
  <2>2. /\ new \in RebrandCalls /\ new.seen = call.seen /\ new.item = x /\ new.step = "moved"
        /\ rcall' = [rcall EXCEPT ![c] = new]
    BY <1>1, <1>2, <1>5, <2>1 DEF RebrandCalls
  <2> HIDE DEF new
  <2>3. RebrandStands(new, zips)
    BY <1>0, <1>1, <1>3, <2>2, RebrandGoesOn
  <2>4. RebrandsStand(rcall', zips)
    BY <2>2, <2>3, RebrandCallMoves
  <2>5. "legacy" \in Sides /\ "current" \in Sides /\ "legacy" # "current"
    BY DEF Sides
  <2>6. PICK row \in [Sides -> Objects \cup {Nothing}] :
          /\ Renamed(x, "legacy", "current") = [place EXCEPT ![x] = row]
          /\ row["current"] = place[x]["legacy"] /\ row["legacy"] = Nothing
          /\ \A s \in Sides : place[x][s] # Nothing => \E t \in Sides : row[t].ino = place[x][s].ino
    BY <1>0, <1>5, <2>5, RenameKeeps
  <2>7. place' = [place EXCEPT ![x] = row]
    BY <1>5, <2>6
  <2>8. \A s \in Sides : row[s].ino \in {1, 2} => row[s].ino = First[x]
    BY <2>5, <2>6 DEF BrandInv, Sides, Nothing
  <2>9. row["current"].ino \in {1, 2} => \E z \in zips : z[x].ino = row["current"].ino
    BY <1>3, <2>5, <2>8
  <2>. QED  BY <1>0, <2>4, <2>6, <2>7, <2>8, <2>9, BrandPlaceMoves
<1>. QED  BY <1>2, <1>4, <1>5 DEF TakeItem

\* _rollback_namespace keeps it: what is renamed goes back where nothing is.
LEMMA MoveBackKeeps ==
    ASSUME BrandInv, NEW c \in Callers, MoveBack(c)
    PROVE  BrandInv'
<1> DEFINE call == rcall[c]
<1>0. call.step = "back" /\ call.step # "idle" /\ UNCHANGED <<zips, rbudget>> /\ BrandTypeOK /\ rbudget \in Counts
  BY DEF MoveBack, BrandInv, BrandTypeOK, Counts
<1>1. call \in RebrandCalls /\ RebrandStands(call, zips)
  BY <1>0, RebrandGoes DEF BrandInv
<1>2. call.moved \in Seq(Items) /\ call.moved # <<>>
  BY <1>0, <1>1 DEF RebrandCalls, RebrandStands
<1>3. PICK x \in Items : x = Head(call.moved)
  BY <1>2
<1> DEFINE new == [call EXCEPT !.step = "rollback", !.moved = Tail(call.moved)]
<1>4. Tail(call.moved) \in Seq(Items)
  BY <1>2
<1>5. new \in RebrandCalls /\ new.seen = call.seen /\ new.step = "rollback" /\ rcall' = [rcall EXCEPT ![c] = new]
  BY <1>1, <1>4 DEF RebrandCalls, MoveBack
<1> HIDE DEF new
<1>6. CASE place' = place
  BY <1>0, <1>5, <1>6, RebrandOnward
<1>7. CASE MayTake(x, "legacy") /\ place' = Renamed(x, "current", "legacy")
  <2>1. RebrandStands(new, zips)
    BY <1>0, <1>1, <1>5, RebrandGoesOn
  <2>2. RebrandsStand(rcall', zips)
    BY <1>5, <2>1, RebrandCallMoves
  <2>3. "legacy" \in Sides /\ "current" \in Sides /\ "legacy" # "current"
    BY DEF Sides
  <2>4. PICK row \in [Sides -> Objects \cup {Nothing}] :
          /\ Renamed(x, "current", "legacy") = [place EXCEPT ![x] = row]
          /\ row["legacy"] = place[x]["current"] /\ row["current"] = Nothing
          /\ \A s \in Sides : place[x][s] # Nothing => \E t \in Sides : row[t].ino = place[x][s].ino
    BY <1>0, <1>7, <2>3, RenameKeeps
  <2>5. place' = [place EXCEPT ![x] = row]
    BY <1>7, <2>4
  <2>6. \A s \in Sides : row[s].ino \in {1, 2} => row[s].ino = First[x]
    BY <2>3, <2>4 DEF BrandInv, Sides, Nothing
  <2>7. row["current"].ino \notin {1, 2}
    BY <2>4 DEF Nothing
  <2>. QED  BY <1>0, <2>2, <2>4, <2>5, <2>6, <2>7, BrandPlaceMoves
<1>. QED  BY <1>3, <1>6, <1>7 DEF MoveBack

\* Something put at one of the names keeps it, when it keeps the inode of what
\* was there, or is new where nothing was.
LEMMA PutKeeps ==
    ASSUME BrandInv, NEW x \in Items, NEW side \in Sides, NEW new \in Objects,
           place' = [place EXCEPT ![x] = [place[x] EXCEPT ![side] = new]],
           new.ino = IF place[x][side] = Nothing THEN rbudget.ino + 1 ELSE place[x][side].ino,
           UNCHANGED zips, rbudget' \in Counts,
           rbudget'.ino = IF place[x][side] = Nothing THEN rbudget.ino + 1 ELSE rbudget.ino,
           RebrandsStand(rcall', zips)
    PROVE  BrandInv'
<1>0. NothingLost /\ rbudget.ino >= 2 /\ rbudget.ino \in Nat /\ place[x] \in [Sides -> Objects \cup {Nothing}]
  BY DEF BrandInv, BrandTypeOK
<1> DEFINE row == [place[x] EXCEPT ![side] = new]
<1>1. row \in [Sides -> Objects \cup {Nothing}] /\ row[side] = new /\ \A s \in Sides \ {side} : row[s] = place[x][s]
  BY <1>0
<1>2. place' = [place EXCEPT ![x] = row]
  OBVIOUS
<1> HIDE DEF row
<1>3. \A s \in Sides : place[x][s] # Nothing => row[s].ino = place[x][s].ino
  BY <1>1
<1>4. \A s \in Sides : row[s].ino \in {1, 2} => row[s].ino = place[x][s].ino
  BY <1>0, <1>1
<1>5. \A s \in Sides : row[s].ino \in {1, 2} => row[s].ino = First[x]
  BY <1>4 DEF BrandInv
<1>6. row["current"].ino \in {1, 2} => \E z \in zips : z[x].ino = row["current"].ino
  <2>1. "current" \in Sides
    BY DEF Sides
  <2>. QED  BY <1>0, <1>4, <2>1 DEF NothingLost
<1>7. rbudget'.ino = rbudget.ino \/ (rbudget'.ino = rbudget.ino + 1 /\ \E t \in Sides : row[t].ino = rbudget'.ino)
  BY <1>1
<1>. QED  BY <1>1, <1>2, <1>3, <1>5, <1>6, <1>7, BrandPlaceMoves

\* write_bytes_atomic of a metadata file keeps it: the state keeps its inode,
\* or a new one is made.
LEMMA PutMetaKeeps ==
    ASSUME BrandInv, NEW side \in Sides, NEW meta \in Metas, PutMeta(side, meta), UNCHANGED zips,
           RebrandsStand(rcall', zips)
    PROVE  BrandInv'
<1>0. /\ place \in [Items -> [Sides -> Objects \cup {Nothing}]] /\ rbudget \in Counts /\ rbudget.ino \in Nat
      /\ "state" \in Items
  BY DEF BrandInv, BrandTypeOK, Counts, Items
<1> DEFINE there == place["state"][side]
           made == Object(rbudget.ino + 1, "made", meta)
           edited == [there EXCEPT !.meta = meta]
<1>1. made \in Objects /\ made.ino = rbudget.ino + 1
  BY <1>0 DEF Object, Objects
<1>2. there # Nothing => edited \in Objects /\ edited.ino = there.ino
  <2>1. there # Nothing => there \in Objects
    BY <1>0
  <2>. QED  BY <2>1 DEF Objects
<1>3. place' = [place EXCEPT !["state"] = [place["state"] EXCEPT ![side] = IF there = Nothing THEN made ELSE edited]]
  BY <1>0 DEF PutMeta
<1>4. rbudget' \in Counts /\ rbudget'.ino = IF there = Nothing THEN rbudget.ino + 1 ELSE rbudget.ino
  BY <1>0 DEF PutMeta, Counts
<1> HIDE DEF made, edited
<1>5. PICK new \in Objects : /\ place' = [place EXCEPT !["state"] = [place["state"] EXCEPT ![side] = new]]
                             /\ new.ino = IF place["state"][side] = Nothing THEN rbudget.ino + 1 ELSE place["state"][side].ino
  BY <1>1, <1>2, <1>3
<1>. QED  BY <1>0, <1>4, <1>5, PutKeeps

\* People and processes keep it: they write to what is there, or make what is not.
LEMMA ArriveKeeps ==
    ASSUME BrandInv, NEW x \in Items, NEW side \in Sides, Arrive(x, side)
    PROVE  BrandInv'
<1>0. place \in [Items -> [Sides -> Objects \cup {Nothing}]] /\ rbudget \in Counts /\ rbudget.ino \in Nat
  BY DEF BrandInv, BrandTypeOK, Counts
<1> DEFINE there == place[x][side]
           made == Object(rbudget.ino + 1, "own", IF x = "config" THEN "none" ELSE "current")
           edited == [there EXCEPT !.text = "own"]
<1>1. made \in Objects /\ made.ino = rbudget.ino + 1
  BY <1>0 DEF Object, Objects, Metas
<1>2. there # Nothing => edited \in Objects /\ edited.ino = there.ino
  <2>1. there # Nothing => there \in Objects
    BY <1>0
  <2>. QED  BY <2>1 DEF Objects
<1>3. place' = [place EXCEPT ![x] = [place[x] EXCEPT ![side] = IF there = Nothing THEN made ELSE edited]]
  BY <1>0 DEF Arrive
<1>4. rbudget' \in Counts /\ rbudget'.ino = IF there = Nothing THEN rbudget.ino + 1 ELSE rbudget.ino
  <2>1. PICK n \in Nat : n = IF there = Nothing THEN rbudget.ino + 1 ELSE rbudget.ino
    BY <1>0
  <2>2. rbudget' = [rbudget EXCEPT !.arrivals = rbudget.arrivals + 1, !.ino = n]
    BY <2>1 DEF Arrive
  <2>3. rbudget.arrivals + 1 \in Nat
    BY <1>0 DEF Counts
  <2>4. rbudget' \in Counts /\ rbudget'.ino = n
    BY <1>0, <2>2, <2>3 DEF Counts
  <2>. QED  BY <2>1, <2>4
<1> HIDE DEF made, edited
<1>5. PICK new \in Objects : /\ place' = [place EXCEPT ![x] = [place[x] EXCEPT ![side] = new]]
                             /\ new.ino = IF place[x][side] = Nothing THEN rbudget.ino + 1 ELSE place[x][side].ino
  BY <1>1, <1>2, <1>3
<1>6. UNCHANGED zips /\ RebrandsStand(rcall', zips)
  BY BrandStands DEF Arrive
<1>. QED  BY <1>0, <1>4, <1>5, <1>6, PutKeeps

\* The steps that only look keep it.
LEMMA BrandLooksKeep ==
    ASSUME BrandInv, NEW c \in Callers,
           \/ VerifySources(c) \/ CheckItem(c) \/ CheckTaken(c) \/ ReadMeta(c) \/ Reread(c) \/ Rollback(c) \/ Restore(c)
    PROVE  BrandInv'
<1> DEFINE call == rcall[c]
<1>0. rbudget \in Counts /\ zips \subseteq Found /\ place \in [Items -> [Sides -> Objects \cup {Nothing}]]
  BY DEF BrandInv, BrandTypeOK, Counts
<1>1. call.step \notin {"idle", "backup"} /\ UNCHANGED <<place, zips, rbudget>>
  BY DEF VerifySources, CheckItem, CheckTaken, ReadMeta, Reread, Rollback, Restore
<1>2. call \in RebrandCalls /\ rcall \in [Callers -> RebrandCalls \cup {RbIdle}]
  BY <1>1, RebrandGoes DEF BrandInv, BrandTypeOK
<1>3. CASE RbEnd(c)
  <2>1. rcall' = [rcall EXCEPT ![c] = RbIdle] /\ RbIdle \in RebrandCalls \cup {RbIdle}
    BY <1>3 DEF RbEnd
  <2>2. rbudget' \in Counts /\ rbudget'.ino = rbudget.ino /\ UNCHANGED <<place, zips>>
    BY <1>0, <1>1
  <2>. QED  BY <2>1, <2>2, RebrandOnward
<1>4. CASE RbGo(c, "check") \/ RbGo(c, "rollback")
  <2>1. PICK new \in RebrandCalls : /\ rcall' = [rcall EXCEPT ![c] = new] /\ new.seen = call.seen
                                    /\ new.step \in {"check", "rollback"}
    BY <1>1, <1>4, RebrandGoes
  <2>. QED  BY <1>0, <1>1, <2>1, RebrandOnward
<1>5. CASE NextItem(c)
  <2>1. PICK new \in RebrandCalls : /\ rcall' = [rcall EXCEPT ![c] = new] /\ new.seen = call.seen
                                    /\ new.step \in {"check", "rewrite"}
    BY <1>1, <1>5, RebrandGoes
  <2>. QED  BY <1>0, <1>1, <2>1, RebrandOnward
<1>6. CASE VerifySources(c)
  BY <1>3, <1>4, <1>6 DEF VerifySources
<1>7. CASE CheckItem(c)
  <2>1. CASE RbGo(c, "move") /\ call.seen[call.item] # Nothing
    <3>1. PICK new \in RebrandCalls : /\ rcall' = [rcall EXCEPT ![c] = new] /\ new.seen = call.seen
                                      /\ new.step = "move" /\ new.item = call.item
      BY <1>1, <2>1, RebrandGoes
    <3>. QED  BY <1>0, <1>1, <2>1, <3>1, RebrandOnward
  <2>. QED  BY <1>4, <1>5, <1>7, <2>1 DEF CheckItem
<1>8. CASE CheckTaken(c)
  BY <1>4, <1>5, <1>8 DEF CheckTaken
<1>9. CASE ReadMeta(c)
  <2> DEFINE there == place["state"]["current"]
  <2>1. CASE there # Nothing /\ rcall' = [rcall EXCEPT ![c] = [call EXCEPT !.step = "write", !.meta = there.meta]]
    <3> DEFINE new == [call EXCEPT !.step = "write", !.meta = there.meta]
    <3>1. there.meta \in Metas
      BY <1>0, <2>1 DEF Items, Sides, Objects
    <3>2. new \in RebrandCalls /\ new.seen = call.seen /\ new.step = "write" /\ rcall' = [rcall EXCEPT ![c] = new]
      BY <1>2, <2>1, <3>1 DEF RebrandCalls
    <3> HIDE DEF new
    <3>. QED  BY <1>0, <1>1, <3>2, RebrandOnward
  <2>. QED  BY <1>3, <1>4, <1>9, <2>1 DEF ReadMeta
<1>10. CASE Reread(c)
  BY <1>3, <1>4, <1>10 DEF Reread
<1>11. CASE Rollback(c)
  <2>1. CASE RbGo(c, "back")
    <3>1. PICK new \in RebrandCalls : /\ rcall' = [rcall EXCEPT ![c] = new] /\ new.seen = call.seen
                                      /\ new.step = "back" /\ new.moved = call.moved
      BY <1>1, <2>1, RebrandGoes
    <3>2. call.moved # <<>>
      BY <1>11 DEF Rollback
    <3>. QED  BY <1>0, <1>1, <3>1, <3>2, RebrandOnward
  <2>2. CASE rcall' = [rcall EXCEPT ![c].moved = Tail(@)]
    <3> DEFINE new == [call EXCEPT !.moved = Tail(call.moved)]
    <3>1. Tail(call.moved) \in Seq(Items)
      BY <1>2, <1>11 DEF RebrandCalls, Rollback
    <3>2. new \in RebrandCalls /\ new.seen = call.seen /\ new.step = "rollback" /\ rcall' = [rcall EXCEPT ![c] = new]
      BY <1>2, <1>11, <2>2, <3>1 DEF RebrandCalls, Rollback
    <3> HIDE DEF new
    <3>. QED  BY <1>0, <1>1, <3>2, RebrandOnward
  <2>. QED  BY <1>11, <2>1, <2>2 DEF Rollback
<1>12. CASE Restore(c)
  <2>1. ASSUME NEW side \in Sides, rcall' = [rcall EXCEPT ![c] = [call EXCEPT !.step = "putback", !.side = side]]
        PROVE  BrandInv'
    <3> DEFINE new == [call EXCEPT !.step = "putback", !.side = side]
    <3>1. new \in RebrandCalls /\ new.seen = call.seen /\ new.step = "putback" /\ rcall' = [rcall EXCEPT ![c] = new]
      BY <1>2, <2>1 DEF RebrandCalls
    <3> HIDE DEF new
    <3>. QED  BY <1>0, <1>1, <3>1, RebrandOnward
  <2>. QED  BY <1>3, <1>12, <2>1 DEF Restore, Sides
<1>. QED  BY <1>6, <1>7, <1>8, <1>9, <1>10, <1>11, <1>12

\* Every step of brand migrations and of people keeps the invariant.
LEMMA BrandInvStep == BrandInv /\ [BrandNext]_rvars => BrandInv'
<1> SUFFICES ASSUME BrandInv, [BrandNext]_rvars PROVE BrandInv'
  OBVIOUS
<1>0. rbudget \in Counts /\ zips \subseteq Found
  BY DEF BrandInv, BrandTypeOK, Counts
<1>1. CASE UNCHANGED rvars
  BY <1>0, <1>1, BrandStands, BrandCallMoves DEF rvars
<1>2. ASSUME NEW c \in Callers, WriteMeta(c) PROVE BrandInv'
  <2>1. rcall[c].step = "write" /\ PutMeta("current", "current") /\ RbGo(c, "reread") /\ UNCHANGED zips
    BY <1>2 DEF WriteMeta
  <2>2. PICK new \in RebrandCalls : rcall' = [rcall EXCEPT ![c] = new] /\ new.step = "reread" /\ new.seen = rcall[c].seen
    BY <2>1, RebrandGoes
  <2>3. RebrandStands(new, zips)
    BY <2>1, <2>2, RebrandGoesOn DEF BrandInv
  <2>4. RebrandsStand(rcall', zips)
    BY <2>2, <2>3, RebrandCallMoves
  <2>. QED  BY <2>1, <2>4, PutMetaKeeps DEF Sides, Metas
<1>3. ASSUME NEW c \in Callers, PutBack(c) PROVE BrandInv'
  <2>1. rcall[c].step = "putback" /\ PutMeta(rcall[c].side, rcall[c].meta) /\ RbEnd(c) /\ UNCHANGED zips
    BY <1>3 DEF PutBack
  <2>2. rcall[c].side \in Sides /\ rcall[c].meta \in Metas
    BY <2>1, RebrandGoes DEF RebrandCalls
  <2>3. RebrandStands(RbIdle, zips)
    BY DEF RebrandStands, RbIdle
  <2>4. RebrandsStand(rcall', zips)
    BY <2>1, <2>3, RebrandCallMoves DEF RbEnd
  <2>. QED  BY <2>1, <2>2, <2>4, PutMetaKeeps
<1>4. ASSUME NEW c \in Callers, RebrandDies(c) PROVE BrandInv'
  <2>1. rbudget' \in Counts /\ rbudget'.ino = rbudget.ino /\ UNCHANGED <<place, zips>> /\ RbEnd(c)
    BY <1>0, <1>4 DEF RebrandDies, Counts
  <2>. QED  BY <2>1, RebrandOnward DEF RbEnd
<1>. QED  BY <1>1, <1>2, <1>3, <1>4, StartRebrandKeeps, BackupKeeps, BrandLooksKeep, TakeItemKeeps, MoveBackKeeps,
            ArriveKeeps DEF BrandNext

\* However calls overlap, fail, die and are made again, and whatever people
\* put at the names meanwhile: nothing that was there is lost, and nothing
\* stands moved without a backup of it (_rename_no_replace_at,
\* migrate_legacy_workspace in brand_migration.py).
THEOREM RebrandLosesNothing == Spec => []NothingLost
<1>1. Init => BrandInv
  BY BrandInvInit DEF Init
<1>2. BrandInv /\ [Next]_vars => BrandInv'
  BY BrandInvStep, AreaSteps
<1>3. BrandInv => NothingLost
  BY DEF BrandInv
<1>. QED  BY <1>1, <1>2, <1>3, PTL DEF Spec

-----------------------------------------------------------------------------
(* Managed documents                                                        *)

\* One document is indexed, under the identity of its path.
LEMMA DocumentInvInit == DocumentInit => DocumentInv
<1> SUFFICES ASSUME DocumentInit PROVE DocumentInv
  OBVIOUS
<1>1. PICK p \in Paths, t \in Texts :
        /\ files = [q \in Paths |-> IF q = p THEN t ELSE Absent]
        /\ ident = [NoRows EXCEPT ![p] = [state |-> "active", id |-> Born(p)]]
        /\ rows = [NoRows EXCEPT ![p] = [state |-> "row", id |-> Born(p), text |-> t]]
  BY DocumentAssumption DEF DocumentInit
<1>2. /\ twins = {} /\ revs = {} /\ ops = [k \in DocKeys |-> Unasked]
      /\ dcall = [c \in Callers |-> DocIdle] /\ shared \in BOOLEAN
  BY DEF DocumentInit
<1>3. Born(p) \in DocIds
  BY DEF DocIds
<1>4. /\ ident \in [Paths -> Identities] /\ rows \in [Paths -> IndexRows]
      /\ \A q \in Paths : q # p => ident[q].state = "none" /\ rows[q].state = "none"
      /\ ident[p].state = "active" /\ ident[p].id = Born(p)
  BY <1>1, <1>3 DEF NoRows, NoRecord, Identities, IndexRows
<1>5. DocumentTypeOK
  BY <1>1, <1>2, <1>4 DEF DocumentTypeOK, Operations
<1>6. IdentitiesUnique /\ BornWhereMoved /\ IndexedIdentified
  BY <1>2, <1>4 DEF IdentitiesUnique, BornWhereMoved, IndexedIdentified, Active, Born
<1>7. ASSUME NEW c \in Callers PROVE DocCallStands(dcall[c], ident, ops)
  <2>1. dcall[c] = DocIdle /\ DocIdle.step = "idle"
    BY <1>2 DEF DocIdle
  <2>. QED  BY <2>1 DEF DocCallStands, DocSteps, IndexSteps
<1>. QED  BY <1>5, <1>6, <1>7 DEF DocumentInv

AnyCall == {DocIdle} \cup IndexCalls \cup DocCalls \cup Exchanges

\* Identity records never go away.
IdentitiesStay == \A p \in Paths : ident[p].state # "none" => ident'[p].state # "none"

\* Paths without a record may be given the identity they are born with.
OnlyBirths ==
    \A p \in Paths : \/ ident'[p] = ident[p]
                     \/ ident[p].state = "none" /\ ident'[p] = [state |-> "active", id |-> Born(p)]

\* A birth takes no identity that is somewhere else: who left the path left a tombstone.
LEMMA BirthsUnique ==
    ASSUME IdentitiesUnique, BornWhereMoved, ident \in [Paths -> Identities], OnlyBirths,
           ident' \in [Paths -> Identities]
    PROVE  IdentitiesUnique' /\ BornWhereMoved' /\ IdentitiesStay
<1>1. \A p, q \in Paths : Born(p) = Born(q) => p = q
  BY DEF Born
<1>2. IdentitiesStay
  BY DEF IdentitiesStay, OnlyBirths
<1>3. ASSUME NEW p \in Paths, NEW q \in Paths, p # q, Active(p)', Active(q)' PROVE ident'[p].id # ident'[q].id
  <2>1. CASE ident'[p] = ident[p] /\ ident'[q] = ident[q]
    BY <1>3, <2>1 DEF IdentitiesUnique, Active
  <2>2. CASE ident[p].state = "none" /\ ident'[p] = [state |-> "active", id |-> Born(p)]
    BY <1>1, <1>3, <2>2 DEF OnlyBirths, BornWhereMoved, Active
  <2>3. CASE ident[q].state = "none" /\ ident'[q] = [state |-> "active", id |-> Born(q)]
    BY <1>1, <1>3, <2>3 DEF OnlyBirths, BornWhereMoved, Active
  <2>. QED  BY <2>1, <2>2, <2>3 DEF OnlyBirths
<1>4. ASSUME NEW p \in Paths, NEW q \in Paths, Active(p)', ident'[p].id = Born(q), p # q PROVE ident'[q].state = "moved"
  <2>1. ident'[p] = ident[p]
    BY <1>1, <1>4 DEF OnlyBirths
  <2>2. ident[q].state = "moved"
    BY <1>4, <2>1 DEF BornWhereMoved, Active
  <2>. QED  BY <2>2 DEF OnlyBirths
<1>. QED  BY <1>2, <1>3, <1>4 DEF IdentitiesUnique, BornWhereMoved

\* One request goes on to a call that stands: the others stand as before.
LEMMA DocCallMoves ==
    ASSUME DocumentInv, NEW c \in Callers, NEW call \in AnyCall,
           dcall' = [dcall EXCEPT ![c] = call], IdentitiesStay,
           \A k \in DocKeys : ops[k] # Unasked => ops'[k] # Unasked,
           DocCallStands(call, ident, ops)'
    PROVE  /\ dcall' \in [Callers -> AnyCall]
           /\ \A d \in Callers : DocCallStands(dcall[d], ident, ops)'
<1>1. dcall \in [Callers -> AnyCall]
  BY DEF DocumentInv, DocumentTypeOK, AnyCall
<1>2. ASSUME NEW d \in Callers PROVE DocCallStands(dcall[d], ident, ops)'
  <2>1. CASE d = c
    BY <1>1, <2>1
  <2>2. CASE d # c
    <3>1. dcall'[d] = dcall[d] /\ DocCallStands(dcall[d], ident, ops)
      BY <1>1, <2>2 DEF DocumentInv
    <3>2. dcall[d].step \in DocSteps \cup {"verify"} => dcall[d].key \in DocKeys
      BY <1>1 DEF AnyCall, IndexCalls, DocCalls, Exchanges, DocIdle, DocSteps, IndexSteps
    <3>3. dcall[d].step \in IndexSteps => /\ dcall[d].known \subseteq Paths
                                          /\ dcall[d].then # DocIdle => dcall[d].then.key \in DocKeys
      BY <1>1 DEF AnyCall, IndexCalls, DocCalls, Exchanges, DocIdle, DocSteps, IndexSteps
    <3>. QED  BY <3>1, <3>2, <3>3 DEF DocCallStands, IdentitiesStay
  <2>. QED  BY <2>1, <2>2
<1>. QED  BY <1>1, <1>2

\* What a request that goes on, gives up or ends leaves behind.
LEMMA DocGo ==
    ASSUME NEW x \in DocCalls \cup Exchanges, NEW step
    PROVE  LET call == [x EXCEPT !.step = step] IN
           /\ x \in DocCalls /\ step \in DocSteps => call \in DocCalls
           /\ x \in Exchanges /\ step \in {"verify", "refresh", "complete"} => call \in Exchanges
           /\ call.step = step /\ call.req = x.req /\ call.key = x.key
BY DEF DocCalls, Exchanges

\* A step that writes no record and no index row.
LEMMA DocPlainStep ==
    ASSUME DocumentInv, NEW c \in Callers, NEW call \in AnyCall,
           dcall' = [dcall EXCEPT ![c] = call], DocCallStands(call, ident, ops)',
           files' \in [Paths -> Texts \cup {Absent, Dir}], twins' \subseteq SUBSET Paths,
           ops' \in [DocKeys -> Operations], \A k \in DocKeys : ops[k] # Unasked => ops'[k] # Unasked,
           revs' \subseteq DocIds \X Texts, UNCHANGED <<ident, rows, shared>>
    PROVE  DocumentInv'
<1>1. IdentitiesStay
  BY DEF IdentitiesStay
<1>2. /\ dcall' \in [Callers -> AnyCall]
      /\ \A d \in Callers : DocCallStands(dcall[d], ident, ops)'
  BY <1>1, DocCallMoves
<1>3. DocumentTypeOK'
  BY <1>2 DEF DocumentInv, DocumentTypeOK, AnyCall
<1>4. IdentitiesUnique' /\ BornWhereMoved' /\ IndexedIdentified'
  BY DEF DocumentInv, IdentitiesUnique, BornWhereMoved, IndexedIdentified, Active
<1>. QED  BY <1>2, <1>3, <1>4 DEF DocumentInv

\* A step that gives files identities and may take a table into the index.
LEMMA DocBirthStep ==
    ASSUME DocumentInv, NEW c \in Callers, NEW call \in AnyCall,
           dcall' = [dcall EXCEPT ![c] = call], DocCallStands(call, ident, ops)',
           ident' \in [Paths -> Identities], OnlyBirths,
           rows' \in [Paths -> IndexRows], IndexedIdentified',
           UNCHANGED <<files, twins, revs, ops, shared>>
    PROVE  DocumentInv'
<1>1. IdentitiesUnique' /\ BornWhereMoved' /\ IdentitiesStay
  BY BirthsUnique DEF DocumentInv, DocumentTypeOK
<1>2. /\ dcall' \in [Callers -> AnyCall]
      /\ \A d \in Callers : DocCallStands(dcall[d], ident, ops)'
  BY <1>1, DocCallMoves
<1>3. DocumentTypeOK'
  BY <1>2 DEF DocumentInv, DocumentTypeOK, AnyCall
<1>. QED  BY <1>1, <1>2, <1>3 DEF DocumentInv

\* A scan of the files gives what it does not know the identity of its path,
\* and once that is written everything scanned has a record.
LEMMA ScansIdentified ==
    ASSUME DocumentTypeOK, NEW known \in SUBSET Paths, \A p \in known : ident[p].state # "none"
    PROVE  /\ ScannedRows(known) \in [Paths -> IndexRows]
           /\ \A p \in Paths \ known : ScannedRows(known)[p].state = "row" => ScannedRows(known)[p].id = Born(p)
<1>1. ASSUME NEW p \in Paths PROVE KnownId(known, p) \in DocIds /\ (p \notin known => KnownId(known, p) = Born(p))
  BY DEF KnownId, DocumentTypeOK, Identities, DocIds, NoRecord
<1>2. ASSUME NEW p \in Paths, Readable(p) PROVE [state |-> "row", id |-> KnownId(known, p), text |-> files[p]] \in IndexRows
  BY <1>1, <1>2 DEF Readable, IndexRows
<1>3. NoRecord \in IndexRows /\ NoRecord.state = "none"
  BY DEF IndexRows, NoRecord
<1>. QED  BY <1>1, <1>2, <1>3 DEF ScannedRows

LEMMA PersistingIdentifies ==
    ASSUME DocumentTypeOK, NEW table \in [Paths -> IndexRows], NEW known \in SUBSET Paths,
           \A p \in known : ident[p].state # "none",
           \A p \in Paths \ known : table[p].state = "row" => table[p].id = Born(p)
    PROVE  LET new == Persisted(table, known) IN
           /\ new \in [Paths -> Identities]
           /\ \A p \in Paths : new[p] = ident[p] \/ (ident[p].state = "none" /\ new[p] = [state |-> "active", id |-> Born(p)])
           /\ \A p \in Paths : table[p].state = "row" => new[p].state # "none"
<1>1. \A p \in Paths : [state |-> "active", id |-> Born(p)] \in Identities
  BY DEF Identities, DocIds
<1>. QED  BY <1>1 DEF Persisted, DocumentTypeOK

\* What a request asks is of its kind.
LEMMA RequestsTyped ==
    ASSUME DocumentTypeOK, NEW req \in Requests
    PROVE  req \in DocRequests
<1>1. NoRows \in [Paths -> IndexRows]
  BY DEF NoRows, IndexRows
<1>2. ASSUME NEW p \in Paths, NEW t \in Texts, NEW new \in Paths, NEW d \in DocIds, NEW seen \in Texts
      PROVE  /\ NewRequest("create", NoDoc, p, "none", t, "none") \in DocRequests
             /\ NewRequest("update", d, p, "none", t, seen) \in DocRequests
             /\ NewRequest("restore", d, p, "none", t, seen) \in DocRequests
             /\ NewRequest("move", d, p, new, "none", seen) \in DocRequests
  BY <1>1 DEF NewRequest, DocRequests, DocumentTypeOK
<1>3. CASE req \in {NewRequest("create", NoDoc, p, "none", t, "none") : p \in Paths, t \in Texts}
  <2>1. PICK p \in Paths, t \in Texts : req = NewRequest("create", NoDoc, p, "none", t, "none")
    BY <1>3
  <2>2. Born(p) \in DocIds
    BY DEF DocIds
  <2>. QED  BY <1>2, <2>1, <2>2
<1>4. CASE req \in {NewRequest("folder", NoDoc, p, "none", "none", "none") : p \in Paths}
  BY <1>1, <1>4 DEF NewRequest, DocRequests, DocumentTypeOK
<1>5. ASSUME NEW p \in Paths, rows[p].state = "row",
             req \in {NewRequest("update", rows[p].id, p, "none", t, rows[p].text) : t \in Texts}
                     \cup {NewRequest("restore", rows[p].id, p, "none", t, rows[p].text) : t \in Restorable(rows[p].id)}
                     \cup {NewRequest("move", rows[p].id, p, new, "none", rows[p].text) : new \in Paths \ {p}}
      PROVE  req \in DocRequests
  <2>1. rows[p].id \in DocIds /\ rows[p].text \in Texts /\ Restorable(rows[p].id) \subseteq Texts
    BY <1>5 DEF DocumentTypeOK, IndexRows, NoRecord, Restorable
  <2>2. CASE \E t \in Texts : req = NewRequest("update", rows[p].id, p, "none", t, rows[p].text)
    BY <1>2, <2>1, <2>2
  <2>3. CASE \E t \in Texts : req = NewRequest("restore", rows[p].id, p, "none", t, rows[p].text)
    BY <1>2, <2>1, <2>3
  <2>4. CASE \E new \in Paths : req = NewRequest("move", rows[p].id, p, new, "none", rows[p].text)
    BY <1>2, <2>1, <2>4
  <2>. QED  BY <1>5, <2>1, <2>2, <2>3, <2>4
<1>. QED  BY <1>3, <1>4, <1>5 DEF Requests

LEMMA RetriesTyped ==
    ASSUME DocumentTypeOK, NEW k \in DocKeys, ops[k].state \in {"prepared", "publishing"}, NEW req \in Retried(k)
    PROVE  req \in DocRequests
<1>1. ops[k].req \in DocRequests
  BY DEF DocumentTypeOK, Operations, Unasked
<1>2. \A p \in Paths : ops[k].req.op # "move" => [ops[k].req EXCEPT !.path = p] \in DocRequests
  BY <1>1 DEF DocRequests
<1>. QED  BY <1>1, <1>2 DEF Retried, PathOf

\* Every step of requests, rebuilds and people keeps the invariant.
LEMMA DocumentInvStep == DocumentInv /\ [DocumentNext]_dvars => DocumentInv'
<1> SUFFICES ASSUME DocumentInv, [DocumentNext]_dvars PROVE DocumentInv'
  OBVIOUS
<1>0. DocumentTypeOK /\ dcall \in [Callers -> AnyCall] /\ ops \in [DocKeys -> Operations]
      /\ files \in [Paths -> Texts \cup {Absent, Dir}] /\ twins \subseteq SUBSET Paths /\ revs \subseteq DocIds \X Texts
      /\ ident \in [Paths -> Identities] /\ rows \in [Paths -> IndexRows]
  BY DEF DocumentInv, DocumentTypeOK, AnyCall
<1>a. ASSUME NEW c \in Callers
      PROVE  /\ DocCallStands(dcall[c], ident, ops)
             /\ dcall[c].step \in IndexSteps => dcall[c] \in IndexCalls
             /\ dcall[c].step \in DocSteps \ {"refresh", "complete"} => dcall[c] \in DocCalls /\ dcall[c].req \in DocRequests
             /\ dcall[c].step = "verify" => dcall[c] \in Exchanges /\ dcall[c].req \in DocRequests
             /\ dcall[c].step \in {"refresh", "complete"} => dcall[c] \in DocCalls \cup Exchanges /\ dcall[c].req \in DocRequests
  <2>1. ASSUME NEW x \in AnyCall
        PROVE  /\ x.step \in IndexSteps => x \in IndexCalls
               /\ x.step \in DocSteps \ {"refresh", "complete"} => x \in DocCalls /\ x.req \in DocRequests
               /\ x.step = "verify" => x \in Exchanges /\ x.req \in DocRequests
               /\ x.step \in {"refresh", "complete"} => x \in DocCalls \cup Exchanges /\ x.req \in DocRequests
    BY DEF AnyCall, IndexCalls, DocCalls, Exchanges, DocSteps, IndexSteps, DocIdle
  <2>. QED  BY <1>0, <2>1 DEF DocumentInv
<1>b. DocIdle \in AnyCall /\ DocIdle.step = "idle" /\ DocCallStands(DocIdle, ident, ops)'
  BY DEF DocIdle, DocCallStands, DocSteps, IndexSteps, AnyCall
<1>c. ASSUME NEW c \in Callers, NEW step, Go(c, step), dcall[c] \in DocCalls \cup Exchanges,
             \/ dcall[c] \in DocCalls /\ step \in DocSteps
             \/ dcall[c] \in Exchanges /\ step \in {"refresh", "complete"}
      PROVE  \E call \in DocCalls \cup Exchanges :
               dcall' = [dcall EXCEPT ![c] = call] /\ call.step = step /\ call.req = dcall[c].req /\ call.key = dcall[c].key
  <2> DEFINE call == [dcall[c] EXCEPT !.step = step]
  <2>1. dcall' = [dcall EXCEPT ![c] = call]
    BY <1>0, <1>c DEF Go
  <2>2. call \in DocCalls \cup Exchanges /\ call.step = step /\ call.req = dcall[c].req /\ call.key = dcall[c].key
    BY <1>c, DocGo
  <2>. QED  BY <2>1, <2>2
<1>d. ASSUME NEW req \in DocRequests
      PROVE  /\ req.path \in Paths /\ req.op \in {"create", "folder", "update", "restore", "move"}
             /\ req.op \in {"create", "update", "restore"} => req.text \in Texts
             /\ req.op \in {"update", "restore"} => req.doc \in DocIds
             /\ req.op = "move" => req.new \in Paths
  BY DEF DocRequests
<1>1. CASE UNCHANGED dvars
  <2>1. IdentitiesUnique' /\ BornWhereMoved' /\ IndexedIdentified'
    BY <1>1 DEF dvars, DocumentInv, IdentitiesUnique, BornWhereMoved, IndexedIdentified, Active
  <2>. QED  BY <1>0, <1>1, <2>1 DEF dvars, DocumentInv, DocumentTypeOK
\* A request that gives up leaves what its step did to the files.
<1>g. ASSUME NEW c \in Callers, GiveUp(c), files' \in [Paths -> Texts \cup {Absent, Dir}], twins' \subseteq SUBSET Paths,
             ops' \in [DocKeys -> Operations], \A k \in DocKeys : ops[k] # Unasked => ops'[k] # Unasked,
             UNCHANGED <<ident, rows, revs, shared>>
      PROVE  DocumentInv'
  BY <1>0, <1>b, <1>g, DocPlainStep DEF GiveUp
\* A request that goes on and writes no record stands where its next step needs it to.
<1>h. ASSUME NEW c \in Callers, NEW step, Go(c, step), dcall[c] \in DocCalls \cup Exchanges,
             \/ dcall[c] \in DocCalls /\ step \in DocSteps
             \/ dcall[c] \in Exchanges /\ step \in {"refresh", "complete"},
             step = "check" => dcall[c].req.op \in {"update", "restore", "move"},
             step = "exchange" => dcall[c].req.op \in {"update", "restore"},
             step \in {"drop", "find", "compare", "unlink", "rename"} => dcall[c].req.op = "move",
             files' \in [Paths -> Texts \cup {Absent, Dir}], twins' \subseteq SUBSET Paths,
             ops' \in [DocKeys -> Operations], \A k \in DocKeys : ops[k] # Unasked => ops'[k] # Unasked,
             revs' \subseteq DocIds \X Texts, UNCHANGED <<ident, rows, shared>>
      PROVE  DocumentInv'
  <2>1. PICK call \in DocCalls \cup Exchanges :
               dcall' = [dcall EXCEPT ![c] = call] /\ call.step = step /\ call.req = dcall[c].req /\ call.key = dcall[c].key
    BY <1>c, <1>h
  <2>2. step \notin IndexSteps \cup {"verify"} /\ call \in AnyCall
    BY <1>h, <2>1 DEF DocSteps, IndexSteps, AnyCall
  <2>3. dcall[c].key \in DocKeys /\ dcall[c].step \in DocSteps \cup {"verify"}
    BY <1>h DEF DocCalls, Exchanges, DocSteps
  <2>4. DocCallStands(call, ident, ops)'
    BY <1>a, <1>h, <2>1, <2>2, <2>3 DEF DocCallStands, IndexSteps
  <2>. QED  BY <1>h, <2>1, <2>2, <2>4, DocPlainStep
\* Whoever begins to work on the index knows paths that have a record.
<1>i. ASSUME NEW c \in Callers, NEW step \in {"scan", "write"}, NEW then \in {DocIdle} \cup DocCalls \cup Exchanges,
             then = DocIdle \/ (then.step = "complete" /\ ops[then.key] # Unasked),
             dcall' = [dcall EXCEPT ![c] = IndexCall(step, then)],
             UNCHANGED <<files, twins, ident, rows, revs, ops, shared>>
      PROVE  DocumentInv'
  <2>1. NoRows \in [Paths -> IndexRows]
    BY DEF NoRows, IndexRows
  <2>2. PICK y \in IndexCalls : /\ y.step = step /\ y.then = then /\ y.known = {p \in Paths : Active(p)}
                                /\ dcall' = [dcall EXCEPT ![c] = y]
    BY <1>i, <2>1 DEF IndexCall, IndexCalls, IndexSteps
  <2>3. DocCallStands(y, ident, ops)'
    BY <1>i, <2>2 DEF DocCallStands, Active, DocSteps
  <2>4. y \in AnyCall
    BY DEF AnyCall
  <2>. QED  BY <1>0, <1>i, <2>2, <2>3, <2>4, DocPlainStep
<1>2. ASSUME NEW c \in Callers, StartRebuild(c) PROVE DocumentInv'
  BY <1>2, <1>i DEF StartRebuild
<1>22. ASSUME NEW c \in Callers, ScanFiles(c) PROVE DocumentInv'
  <2> DEFINE x == dcall[c]
             table == ScannedRows(x.known)
  <2>1. /\ x.step = "scan" /\ x \in IndexCalls /\ UNCHANGED <<files, twins, ident, rows, revs, ops, shared, dbudget>>
        /\ x.known \in SUBSET Paths /\ DocCallStands(x, ident, ops) /\ \A p \in x.known : ident[p].state # "none"
    BY <1>a, <1>22 DEF ScanFiles, IndexSteps, IndexCalls, DocCallStands
  <2>2. CASE GiveUp(c)
    BY <1>0, <1>g, <2>1, <2>2
  <2>3. CASE dcall' = [dcall EXCEPT ![c].step = "persist", ![c].table = table]
    <3>1. /\ table \in [Paths -> IndexRows]
          /\ \A p \in Paths \ x.known : table[p].state = "row" => table[p].id = Born(p)
      BY <1>0, <2>1, ScansIdentified
    <3> HIDE DEF table
    <3> DEFINE call == [x EXCEPT !.step = "persist", !.table = table]
    <3>2. /\ call \in IndexCalls /\ call.step = "persist" /\ call.table = table /\ call.known = x.known
          /\ call.then = x.then
      BY <2>1, <3>1 DEF IndexCalls, IndexSteps
    <3>3. dcall' = [dcall EXCEPT ![c] = call]
      BY <1>0, <2>3
    <3>4. PICK y \in IndexCalls : /\ y.step = "persist" /\ y.table = table /\ y.known = x.known /\ y.then = x.then
                                  /\ dcall' = [dcall EXCEPT ![c] = y]
      BY <3>2, <3>3
    <3>5. DocCallStands(y, ident, ops)'
      BY <2>1, <3>1, <3>4 DEF DocCallStands, DocSteps, IndexSteps
    <3>6. y \in AnyCall
      BY DEF AnyCall
    <3>. QED  BY <1>0, <2>1, <3>4, <3>5, <3>6, DocPlainStep
  <2>. QED  BY <1>22, <2>2, <2>3 DEF ScanFiles
<1>3. ASSUME NEW c \in Callers, PersistIdentities(c) PROVE DocumentInv'
  <2> DEFINE x == dcall[c]
  <2>1. /\ x.step = "persist" /\ x \in IndexCalls /\ UNCHANGED <<files, twins, rows, revs, ops, shared, dbudget>>
        /\ DocCallStands(x, ident, ops)
    BY <1>a, <1>3 DEF PersistIdentities, IndexSteps
  <2>2. CASE GiveUp(c) /\ UNCHANGED ident
    BY <1>0, <1>g, <2>1, <2>2
  <2>3. CASE ident' = Persisted(x.table, x.known) /\ Go(c, "swap")
    <3>1. x.table \in [Paths -> IndexRows] /\ x.known \in SUBSET Paths
      BY <2>1 DEF IndexCalls
    <3>2. /\ \A p \in x.known : ident[p].state # "none"
          /\ \A p \in Paths \ x.known : x.table[p].state = "row" => x.table[p].id = Born(p)
      BY <2>1 DEF DocCallStands, IndexSteps
    <3>3. /\ ident' \in [Paths -> Identities] /\ OnlyBirths
          /\ \A p \in Paths : x.table[p].state = "row" => ident'[p].state # "none"
      BY <1>0, <2>3, <3>1, <3>2, PersistingIdentifies DEF OnlyBirths
    <3> DEFINE call == [x EXCEPT !.step = "swap"]
    <3>4. call \in IndexCalls /\ call.step = "swap" /\ call.table = x.table /\ call.known = x.known /\ call.then = x.then
      BY <2>1 DEF IndexCalls, IndexSteps
    <3>5. dcall' = [dcall EXCEPT ![c] = call]
      BY <1>0, <2>3 DEF Go
    <3>6. PICK y \in IndexCalls : /\ y.step = "swap" /\ y.table = x.table /\ y.known = x.known /\ y.then = x.then
                                  /\ dcall' = [dcall EXCEPT ![c] = y]
      BY <3>4, <3>5
    <3>7. \A p \in x.known : ident'[p].state # "none"
      BY <3>1, <3>2, <3>3 DEF OnlyBirths
    <3>8. DocCallStands(y, ident, ops)' /\ y \in AnyCall
      BY <2>1, <3>3, <3>6, <3>7 DEF DocCallStands, DocSteps, IndexSteps, AnyCall
    <3>9. IndexedIdentified'
      BY <2>1, <3>3 DEF IndexedIdentified, OnlyBirths, DocumentInv
    <3>. QED  BY <1>0, <2>1, <3>3, <3>6, <3>8, <3>9, DocBirthStep
  <2>. QED  BY <1>3, <2>2, <2>3 DEF PersistIdentities
\* An index writer hands over to the request it worked for, if there is one.
<1>j. ASSUME NEW c \in Callers, dcall[c] \in IndexCalls, UNCHANGED ops
      PROVE  \E y \in AnyCall : y = dcall[c].then /\ DocCallStands(y, ident, ops)'
  <2>1. dcall[c].step \in IndexSteps /\ dcall[c].then \in {DocIdle} \cup DocCalls \cup Exchanges
    BY <1>j DEF IndexCalls
  <2>2. dcall[c].then = DocIdle \/ (dcall[c].then.step = "complete" /\ ops[dcall[c].then.key] # Unasked)
    BY <1>a, <2>1 DEF DocCallStands
  <2>3. PICK y \in AnyCall : y = dcall[c].then
    BY <2>1 DEF AnyCall
  <2>4. CASE y = DocIdle
    BY <1>b, <2>3, <2>4
  <2>5. CASE y.step = "complete" /\ ops[y.key] # Unasked
    <3>1. DocCallStands(y, ident, ops)'
      BY <1>j, <2>5 DEF DocCallStands, IndexSteps
    <3>. QED  BY <2>3, <3>1
  <2>. QED  BY <2>2, <2>3, <2>4, <2>5
<1>4. ASSUME NEW c \in Callers, SwapIndex(c) PROVE DocumentInv'
  <2>1. /\ dcall[c].step = "swap" /\ dcall[c] \in IndexCalls /\ rows' = dcall[c].table
        /\ dcall' = [dcall EXCEPT ![c] = dcall[c].then] /\ UNCHANGED <<files, twins, ident, revs, ops, shared, dbudget>>
    BY <1>a, <1>4 DEF SwapIndex, IndexSteps
  <2>2. rows' \in [Paths -> IndexRows] /\ OnlyBirths /\ ident' \in [Paths -> Identities]
    BY <1>0, <2>1 DEF IndexCalls, OnlyBirths
  <2>3. IndexedIdentified'
    BY <1>a, <2>1 DEF IndexedIdentified, DocCallStands
  <2>4. PICK y \in AnyCall : y = dcall[c].then /\ DocCallStands(y, ident, ops)'
    BY <1>j, <2>1
  <2>. QED  BY <2>1, <2>2, <2>3, <2>4, DocBirthStep
<1>5. ASSUME NEW c \in Callers, NEW k \in DocKeys, Request(c, k) PROVE DocumentInv'
  <2>1. PICK req \in DocRequests, op \in Operations \ {Unasked} : Ask(c, k, req, op)
    <3>1. ASSUME NEW req \in Requests, Ask(c, k, req, [state |-> "prepared", req |-> req])
          PROVE  \E r \in DocRequests, op \in Operations \ {Unasked} : Ask(c, k, r, op)
      <4>1. req \in DocRequests
        BY <1>0, RequestsTyped
      <4>2. [state |-> "prepared", req |-> req] \in Operations \ {Unasked}
        BY <4>1 DEF Operations, Unasked
      <4>. QED  BY <3>1, <4>1, <4>2
    <3>2. ASSUME NEW req \in Retried(k), ops[k].state \in {"prepared", "publishing"}, Ask(c, k, req, ops[k])
          PROVE  \E r \in DocRequests, op \in Operations \ {Unasked} : Ask(c, k, r, op)
      BY <1>0, <3>2, RetriesTyped DEF Unasked
    <3>. QED  BY <1>5, <3>1, <3>2 DEF Request
  <2>2. PICK b \in BOOLEAN : b = (op.state = "publishing")
    OBVIOUS
  <2> DEFINE call == [step |-> "look", key |-> k, req |-> req, recovering |-> b, back |-> FALSE]
  <2>3. call \in DocCalls /\ call \in AnyCall /\ call.step = "look" /\ call.key = k
    BY DEF DocCalls, DocSteps, AnyCall
  <2>4. /\ dcall' = [dcall EXCEPT ![c] = call] /\ ops' = [ops EXCEPT ![k] = op]
        /\ UNCHANGED <<files, twins, ident, rows, revs, shared>>
    BY <2>1, <2>2, Zenon DEF Ask
  <2>6. ops' \in [DocKeys -> Operations] /\ ops'[k] # Unasked /\ \A o \in DocKeys : ops[o] # Unasked => ops'[o] # Unasked
    BY <1>0, <2>4
  <2>5. DocCallStands(call, ident, ops)'
    BY <2>3, <2>6 DEF DocCallStands, IndexSteps
  <2>. QED  BY <1>0, <2>3, <2>4, <2>5, <2>6, DocPlainStep
<1>6. ASSUME NEW c \in Callers, LookCreate(c) \/ LookFolder(c) PROVE DocumentInv'
  <2>1. /\ dcall[c].step = "look" /\ dcall[c].req.op \in {"create", "folder"}
        /\ UNCHANGED <<files, twins, ident, rows, revs, ops, shared, dbudget>>
        /\ GiveUp(c) \/ \E step \in {"refresh", "identify", "link", "mark"} : Go(c, step)
    BY <1>6 DEF LookCreate, LookFolder
  <2>2. dcall[c] \in DocCalls
    BY <1>a, <2>1 DEF DocSteps
  <2>3. ASSUME NEW step \in {"refresh", "identify", "link", "mark"}, Go(c, step) PROVE DocumentInv'
    BY <1>0, <1>h, <2>1, <2>2, <2>3 DEF DocSteps
  <2>. QED  BY <1>0, <1>g, <2>1, <2>3
<1>7. ASSUME NEW c \in Callers, LookUpdate(c) PROVE DocumentInv'
  <2> DEFINE x == dcall[c]
  <2>1. /\ x.step = "look" /\ x.req.op \in {"update", "restore"}
        /\ UNCHANGED <<files, twins, ident, rows, ops, shared, dbudget>>
    BY <1>7 DEF LookUpdate
  <2>2. x \in DocCalls /\ x.req \in DocRequests
    BY <1>a, <2>1 DEF DocSteps
  <2>3. CASE GiveUp(c) /\ UNCHANGED revs
    BY <1>0, <1>g, <2>1, <2>3
  <2>4. CASE Go(c, "refresh") /\ UNCHANGED revs
    BY <1>0, <1>h, <2>1, <2>2, <2>4 DEF DocSteps
  <2>5. ASSUME NEW step \in {"check", "mark"}, Go(c, step), Readable(x.req.path),
               revs' = revs \cup Revision(c, files[x.req.path])
        PROVE  DocumentInv'
    <3>1. revs' = revs \cup {<<x.req.doc, files[x.req.path]>>} /\ x.req.doc \in DocIds /\ files[x.req.path] \in Texts
      BY <1>d, <2>1, <2>2, <2>5 DEF Revision, Readable
    <3>2. revs' \subseteq DocIds \X Texts
      BY <1>0, <3>1
    <3>. QED  BY <1>0, <1>h, <2>1, <2>2, <2>5, <3>2 DEF DocSteps
  <2>. QED  BY <1>7, <2>3, <2>4, <2>5 DEF LookUpdate
<1>8. ASSUME NEW c \in Callers, LookMove(c) \/ DropLink(c) \/ FindMoved(c) PROVE DocumentInv'
  <2> DEFINE x == dcall[c]
  <2>1. /\ x.step \in {"look", "drop", "find"} /\ (x.step = "look" => x.req.op = "move")
        /\ UNCHANGED <<ident, rows, revs, ops, shared, dbudget>>
        /\ files' \in {files, [files EXCEPT ![x.req.path] = Absent]} /\ twins' \subseteq twins
        /\ GiveUp(c) \/ \E step \in {"drop", "find", "rename", "check", "mark"} : Go(c, step)
    BY <1>8 DEF LookMove, DropLink, FindMoved, Unlink
  <2>2. x \in DocCalls /\ x.req \in DocRequests /\ x.req.path \in Paths /\ x.req.op = "move"
    BY <1>a, <1>d, <2>1 DEF DocSteps, DocCallStands
  <2>3. files' \in [Paths -> Texts \cup {Absent, Dir}] /\ twins' \subseteq SUBSET Paths
    BY <1>0, <2>1, <2>2
  <2>4. ASSUME NEW step \in {"drop", "find", "rename", "check", "mark"}, Go(c, step) PROVE DocumentInv'
    BY <1>0, <1>h, <2>1, <2>2, <2>3, <2>4 DEF DocSteps
  <2>. QED  BY <1>0, <1>g, <2>1, <2>3, <2>4
<1>9. ASSUME NEW c \in Callers, MarkPublishing(c) PROVE DocumentInv'
  <2> DEFINE x == dcall[c]
  <2>1. /\ x.step = "mark" /\ UNCHANGED <<files, twins, ident, rows, revs, shared, dbudget>>
        /\ DocCallStands(x, ident, ops) /\ x \in DocCalls /\ x.req \in DocRequests /\ x.key \in DocKeys
    BY <1>a, <1>9 DEF MarkPublishing, DocSteps, DocCalls
  <2>2. CASE GiveUp(c) /\ UNCHANGED ops
    BY <1>0, <1>g, <2>1, <2>2
  <2>3. ASSUME NEW step \in {"link", "check"}, Go(c, step), step = "check" => x.req.op \notin {"create", "folder"},
               ops[x.key].state = "prepared", ops' = [ops EXCEPT ![x.key].state = "publishing"]
        PROVE  DocumentInv'
    <3>1. [ops[x.key] EXCEPT !.state = "publishing"] \in Operations \ {Unasked}
      BY <1>0, <2>1, <2>3 DEF Operations, Unasked
    <3>2. ops' = [ops EXCEPT ![x.key] = [ops[x.key] EXCEPT !.state = "publishing"]]
      BY <1>0, <2>1, <2>3
    <3>3. ops' \in [DocKeys -> Operations] /\ \A k \in DocKeys : ops[k] # Unasked => ops'[k] # Unasked
      BY <1>0, <2>1, <3>1, <3>2
    <3>4. step = "check" => x.req.op \in {"update", "restore", "move"}
      BY <1>d, <2>1, <2>3
    <3>. QED  BY <1>0, <1>h, <2>1, <2>3, <3>3, <3>4 DEF DocSteps
  <2>. QED  BY <1>9, <2>2, <2>3 DEF MarkPublishing
<1>10. ASSUME NEW c \in Callers, LinkNew(c) PROVE DocumentInv'
  <2> DEFINE x == dcall[c]
  <2>1. /\ x.step = "link" /\ x.req.op \in {"create", "folder"}
        /\ UNCHANGED <<twins, ident, rows, revs, ops, shared, dbudget>>
    BY <1>10 DEF LinkNew
  <2>2. x \in DocCalls /\ x.req \in DocRequests /\ x.req.path \in Paths /\ (x.req.op = "create" => x.req.text \in Texts)
    BY <1>a, <1>d, <2>1 DEF DocSteps
  <2>3. /\ files' \in [Paths -> Texts \cup {Absent, Dir}]
        /\ GiveUp(c) \/ \E step \in {"refresh", "identify"} : Go(c, step)
    BY <1>0, <1>10, <2>1, <2>2 DEF LinkNew
  <2>4. ASSUME NEW step \in {"refresh", "identify"}, Go(c, step) PROVE DocumentInv'
    BY <1>0, <1>h, <2>1, <2>2, <2>3, <2>4 DEF DocSteps
  <2>. QED  BY <1>0, <1>g, <2>1, <2>3, <2>4
<1>11. ASSUME NEW c \in Callers, Identify(c) PROVE DocumentInv'
  <2> DEFINE x == dcall[c]
             p == x.req.path
  <2>1. /\ x.step = "identify" /\ ident' = [ident EXCEPT ![p] = Identified(p)]
        /\ UNCHANGED <<files, twins, rows, revs, ops, shared, dbudget>>
        /\ GiveUp(c) \/ Go(c, "refresh")
    BY <1>11 DEF Identify
  <2>2. x \in DocCalls /\ x.req \in DocRequests /\ p \in Paths
    BY <1>a, <1>d, <2>1 DEF DocSteps
  <2>3. [state |-> "active", id |-> Born(p)] \in Identities
    BY <2>2 DEF Identities, DocIds
  <2>4. ident' \in [Paths -> Identities] /\ OnlyBirths
    BY <1>0, <2>1, <2>2, <2>3 DEF Identified, OnlyBirths
  <2>5. IndexedIdentified'
    BY <2>1, <2>4 DEF IndexedIdentified, OnlyBirths, DocumentInv
  <2>6. PICK call \in AnyCall : /\ dcall' = [dcall EXCEPT ![c] = call]
                                /\ call.step = "idle" \/ (call.step = "refresh" /\ call.key = x.key)
    BY <1>b, <1>c, <2>1, <2>2 DEF GiveUp, DocSteps, AnyCall
  <2>7. DocCallStands(call, ident, ops)'
    BY <1>a, <2>1, <2>6 DEF DocCallStands, DocSteps, IndexSteps
  <2>. QED  BY <1>0, <2>1, <2>4, <2>5, <2>6, <2>7, DocBirthStep
<1>12. ASSUME NEW c \in Callers, Check(c) PROVE DocumentInv'
  <2> DEFINE x == dcall[c]
  <2>1. /\ x.step = "check" /\ UNCHANGED <<files, twins, ident, rows, revs, ops, shared, dbudget>>
        /\ DocCallStands(x, ident, ops) /\ x \in DocCalls /\ x.req.op \in {"update", "restore", "move"}
    BY <1>a, <1>12 DEF Check, DocSteps, DocCallStands
  <2>2. GiveUp(c) \/ (x.req.op = "move" /\ Go(c, "link")) \/ (x.req.op # "move" /\ Go(c, "exchange"))
    BY <1>12 DEF Check
  <2>3. ASSUME NEW step \in {"link", "exchange"}, Go(c, step), step = "exchange" => x.req.op # "move" PROVE DocumentInv'
    BY <1>0, <1>h, <2>1, <2>3 DEF DocSteps
  <2>. QED  BY <1>0, <1>g, <2>1, <2>2, <2>3
<1>13. ASSUME NEW c \in Callers, Exchange(c) PROVE DocumentInv'
  <2> DEFINE x == dcall[c]
             p == x.req.path
  <2>1. /\ x.step = "exchange" /\ UNCHANGED <<twins, ident, rows, revs, ops, shared, dbudget>>
        /\ DocCallStands(x, ident, ops) /\ x \in DocCalls /\ x.req.op \in {"update", "restore"}
        /\ x.req \in DocRequests
    BY <1>a, <1>13 DEF Exchange, DocSteps, DocCallStands
  <2>2. CASE GiveUp(c) /\ UNCHANGED files
    BY <1>0, <1>g, <2>1, <2>2
  <2> DEFINE call == [step |-> "verify", key |-> x.key, req |-> x.req, took |-> files[p], recovering |-> x.recovering]
  <2>3. CASE files[p] \in Texts /\ files' = [files EXCEPT ![p] = x.req.text] /\ dcall' = [dcall EXCEPT ![c] = call]
    <3>1. files' \in [Paths -> Texts \cup {Absent, Dir}]
      BY <1>0, <1>d, <2>1, <2>3
    <3>2. call \in Exchanges /\ call.step = "verify" /\ call.req = x.req
      BY <2>1, <2>3 DEF DocCalls, Exchanges
    <3>3. dcall' = [dcall EXCEPT ![c] = call]
      BY <2>3
    <3>4. PICK y \in Exchanges : y.step = "verify" /\ y.req = x.req /\ y.key = x.key /\ dcall' = [dcall EXCEPT ![c] = y]
      BY <3>2, <3>3
    <3>5. DocCallStands(y, ident, ops)'
      BY <2>1, <3>4 DEF DocCallStands, DocSteps, IndexSteps
    <3>6. y \in AnyCall
      BY DEF AnyCall
    <3>. QED  BY <1>0, <2>1, <3>1, <3>4, <3>5, <3>6, DocPlainStep
  <2>. QED  BY <1>13, <2>2, <2>3 DEF Exchange
<1>14. ASSUME NEW c \in Callers, Verify(c) PROVE DocumentInv'
  <2> DEFINE x == dcall[c]
             p == x.req.path
  <2>1. /\ x.step = "verify" /\ UNCHANGED <<twins, ident, rows, revs, ops, shared, dbudget>>
        /\ x \in Exchanges /\ x.req \in DocRequests /\ p \in Paths /\ x.took \in Texts
    BY <1>a, <1>d, <1>14 DEF Verify, Exchanges
  <2>2. CASE Go(c, "refresh") /\ UNCHANGED files
    BY <1>0, <1>h, <2>1, <2>2 DEF DocSteps
  <2>3. CASE files' \in {files, [files EXCEPT ![p] = x.took]} /\ GiveUp(c)
    <3>1. files' \in [Paths -> Texts \cup {Absent, Dir}]
      BY <1>0, <2>1, <2>3
    <3>. QED  BY <1>0, <1>g, <2>1, <2>3, <3>1
  <2>. QED  BY <1>14, <2>2, <2>3 DEF Verify
<1>15. ASSUME NEW c \in Callers, LinkSecond(c) PROVE DocumentInv'
  <2> DEFINE x == dcall[c]
  <2>1. /\ x.step = "link" /\ x.req.op = "move" /\ UNCHANGED <<ident, rows, revs, ops, shared, dbudget>>
        /\ x \in DocCalls /\ x.req \in DocRequests /\ x.req.path \in Paths /\ x.req.new \in Paths
    BY <1>a, <1>d, <1>15 DEF LinkSecond, DocSteps
  <2>2. CASE GiveUp(c) /\ UNCHANGED <<files, twins>>
    BY <1>0, <1>g, <2>1, <2>2
  <2>3. CASE /\ files[x.req.path] \in Texts /\ files' = [files EXCEPT ![x.req.new] = files[x.req.path]]
             /\ twins' = twins \cup {{x.req.path, x.req.new}} /\ Go(c, "compare")
    <3>1. files' \in [Paths -> Texts \cup {Absent, Dir}] /\ twins' \subseteq SUBSET Paths
      BY <1>0, <2>1, <2>3
    <3>. QED  BY <1>0, <1>h, <2>1, <2>3, <3>1 DEF DocSteps
  <2>. QED  BY <1>15, <2>2, <2>3 DEF LinkSecond
<1>16. ASSUME NEW c \in Callers, CompareLinks(c) \/ UnlinkFirst(c) PROVE DocumentInv'
  <2> DEFINE x == dcall[c]
  <2>1. /\ x.step \in {"compare", "unlink"} /\ UNCHANGED <<ident, rows, revs, ops, shared, dbudget>>
        /\ x \in DocCalls /\ x.req \in DocRequests /\ x.req.op = "move" /\ x.req.path \in Paths /\ x.req.new \in Paths
    <3>1. x.step \in {"compare", "unlink"} /\ UNCHANGED <<ident, rows, revs, ops, shared, dbudget>>
      BY <1>16 DEF CompareLinks, UnlinkFirst
    <3>. QED  BY <1>a, <1>d, <3>1 DEF DocSteps, DocCallStands
  <2>2. /\ files' \in {files, [files EXCEPT ![x.req.new] = Absent], [files EXCEPT ![x.req.path] = Absent]}
        /\ twins' \subseteq twins /\ (GiveUp(c) \/ \E step \in {"unlink", "rename"} : Go(c, step))
    BY <1>16 DEF CompareLinks, UnlinkFirst, UndoLink, Unlink
  <2>3. files' \in [Paths -> Texts \cup {Absent, Dir}] /\ twins' \subseteq SUBSET Paths
    <3>1. /\ [files EXCEPT ![x.req.new] = Absent] \in [Paths -> Texts \cup {Absent, Dir}]
          /\ [files EXCEPT ![x.req.path] = Absent] \in [Paths -> Texts \cup {Absent, Dir}]
      BY <1>0
    <3>2. files' \in [Paths -> Texts \cup {Absent, Dir}]
      BY <1>0, <2>2, <3>1, Zenon
    <3>. QED  BY <1>0, <2>2, <3>2
  <2>4. ASSUME NEW step \in {"unlink", "rename"}, Go(c, step) PROVE DocumentInv'
    BY <1>0, <1>h, <2>1, <2>3, <2>4 DEF DocSteps
  <2>. QED  BY <1>0, <1>g, <2>1, <2>2, <2>3, <2>4
<1>17. ASSUME NEW c \in Callers, MoveIdentity(c) PROVE DocumentInv'
  <2> DEFINE x == dcall[c]
             old == x.req.path
             new == x.req.new
  <2>1. /\ x.step = "rename" /\ UNCHANGED <<files, twins, rows, revs, ops, shared, dbudget>>
        /\ x \in DocCalls /\ x.req \in DocRequests /\ x.req.op = "move" /\ old \in Paths /\ new \in Paths
    <3>1. x.step = "rename" /\ UNCHANGED <<files, twins, rows, revs, ops, shared, dbudget>>
      BY <1>17 DEF MoveIdentity
    <3>. QED  BY <1>a, <1>d, <3>1 DEF DocSteps, DocCallStands
  <2>2. CASE Go(c, "refresh") /\ UNCHANGED ident
    BY <1>0, <1>h, <2>1, <2>2 DEF DocSteps
  <2>3. CASE /\ ident[new].state = "none" /\ Active(old) /\ ident[old].id = x.req.doc
             /\ ident' = [ident EXCEPT ![old].state = "moved", ![new] = [state |-> "active", id |-> x.req.doc]]
             /\ Go(c, "refresh")
    <3> DEFINE d == ident[old].id
               gone == [ident[old] EXCEPT !.state = "moved"]
               here == [state |-> "active", id |-> d]
    <3>1. old # new /\ d \in DocIds /\ gone \in Identities /\ gone.state = "moved" /\ gone.id = d
          /\ here \in Identities /\ here.state = "active" /\ here.id = d
      BY <1>0, <2>1, <2>3 DEF Active, Identities, NoRecord
    <3>2. ident' = [ident EXCEPT ![old] = gone, ![new] = here]
      BY <1>0, <2>1, <2>3, <3>1
    <3>3. /\ ident' \in [Paths -> Identities] /\ ident'[old] = gone /\ ident'[new] = here
          /\ \A p \in Paths : p # old /\ p # new => ident'[p] = ident[p]
      BY <1>0, <2>1, <3>1, <3>2
    <3> HIDE DEF gone, here
    <3>4. IdentitiesStay
      BY <2>1, <3>1, <3>3 DEF IdentitiesStay
    <3>5. \A p \in Paths : p # old /\ Active(p) => ident[p].id # d
      BY <2>1, <2>3 DEF DocumentInv, IdentitiesUnique
    <3>6. IdentitiesUnique'
      BY <2>1, <3>1, <3>3, <3>5 DEF DocumentInv, IdentitiesUnique, Active
    <3>7. ASSUME NEW p \in Paths, NEW q \in Paths, Active(p)', ident'[p].id = Born(q), p # q PROVE ident'[q].state = "moved"
      <4>1. CASE p = new
        <5>1. q # old => ident[q].state = "moved"
          BY <2>1, <2>3, <3>1, <3>3, <3>7, <4>1 DEF DocumentInv, BornWhereMoved
        <5>. QED  BY <2>1, <2>3, <3>1, <3>3, <4>1, <5>1, <3>7
      <4>2. CASE p # new
        <5>1. p # old /\ ident'[p] = ident[p]
          BY <3>1, <3>3, <3>7, <4>2 DEF Active
        <5>2. ident[q].state = "moved"
          BY <3>7, <5>1 DEF DocumentInv, BornWhereMoved, Active
        <5>. QED  BY <2>3, <3>1, <3>3, <5>2
      <4>. QED  BY <4>1, <4>2
    <3>8. BornWhereMoved'
      BY <3>7 DEF BornWhereMoved
    <3>9. IndexedIdentified'
      BY <2>1, <3>4 DEF DocumentInv, IndexedIdentified, IdentitiesStay
    <3>10. PICK call \in DocCalls \cup Exchanges :
             dcall' = [dcall EXCEPT ![c] = call] /\ call.step = "refresh" /\ call.key = x.key
      BY <1>c, <2>1, <2>3 DEF DocSteps
    <3>11. DocCallStands(call, ident, ops)' /\ call \in AnyCall
      BY <1>a, <2>1, <3>10 DEF DocCallStands, DocSteps, IndexSteps, AnyCall
    <3>12. dcall' \in [Callers -> AnyCall] /\ \A e \in Callers : DocCallStands(dcall[e], ident, ops)'
      BY <2>1, <3>4, <3>10, <3>11, DocCallMoves
    <3>13. DocumentTypeOK'
      BY <1>0, <2>1, <2>3, <3>3, <3>12 DEF DocumentTypeOK, AnyCall
    <3>. QED  BY <1>0, <2>1, <3>6, <3>8, <3>9, <3>12, <3>13 DEF DocumentInv
  <2>4. CASE /\ dcall' = [dcall EXCEPT ![c].step = "check", ![c].back = TRUE,
                                       ![c].req = [x.req EXCEPT !.path = new, !.new = old]]
             /\ UNCHANGED ident
    <3> DEFINE back == [x.req EXCEPT !.path = new, !.new = old]
               call == [x EXCEPT !.step = "check", !.back = TRUE, !.req = back]
    <3>1. back \in DocRequests /\ back.op = "move"
      BY <2>1 DEF DocRequests
    <3>2. call \in DocCalls /\ call.step = "check" /\ call.key = x.key /\ call.req.op = "move"
      BY <2>1, <3>1 DEF DocCalls, DocSteps
    <3>3. dcall' = [dcall EXCEPT ![c] = call]
      BY <1>0, <2>4
    <3>4. PICK y \in DocCalls : y.step = "check" /\ y.key = x.key /\ y.req.op = "move" /\ dcall' = [dcall EXCEPT ![c] = y]
      BY <3>2, <3>3
    <3>5. DocCallStands(y, ident, ops)' /\ y \in AnyCall
      BY <1>a, <2>1, <3>4 DEF DocCallStands, DocSteps, IndexSteps, AnyCall
    <3>. QED  BY <1>0, <2>1, <2>4, <3>4, <3>5, DocPlainStep
  <2>. QED  BY <1>17, <2>2, <2>3, <2>4 DEF MoveIdentity
<1>18. ASSUME NEW c \in Callers, ReadIdentities(c) PROVE DocumentInv'
  <2> DEFINE x == dcall[c]
             then == [x EXCEPT !.step = "complete"]
  <2>1. /\ x.step = "refresh" /\ x \in DocCalls \cup Exchanges
        /\ UNCHANGED <<files, twins, ident, rows, revs, ops, shared, dbudget>>
        /\ \E step \in {"scan", "write"} : dcall' = [dcall EXCEPT ![c] = IndexCall(step, then)]
    BY <1>a, <1>18 DEF ReadIdentities
  <2>2. then \in DocCalls \cup Exchanges /\ then.step = "complete" /\ then.key = x.key
    BY <2>1, DocGo DEF DocSteps
  <2>3. ops[x.key] # Unasked
    BY <1>a, <2>1 DEF DocCallStands, DocSteps
  <2>. QED  BY <1>i, <2>1, <2>2, <2>3
<1>23. ASSUME NEW c \in Callers, WriteRows(c) PROVE DocumentInv'
  <2> DEFINE x == dcall[c]
             ps == Touched(x.then.req)
             table == RefreshedRows(ps, x.known)
  <2>1. /\ x.step = "write" /\ x \in IndexCalls /\ UNCHANGED <<files, twins, revs, ops, shared, dbudget>>
        /\ x.known \in SUBSET Paths /\ \A p \in x.known : ident[p].state # "none"
    BY <1>a, <1>23 DEF WriteRows, IndexSteps, IndexCalls, DocCallStands
  <2>3. ASSUME NEW p \in Paths
        PROVE  RefreshId(x.known, p) \in DocIds /\ (ident[p].state = "none" => RefreshId(x.known, p) = Born(p))
    BY <1>0, <2>1 DEF RefreshId, Identities, IndexRows, DocIds, NoRecord, DocumentInv, IndexedIdentified
  <2>4. ASSUME NEW p \in Paths
        PROVE  /\ [state |-> "active", id |-> RefreshId(x.known, p)] \in Identities
               /\ Readable(p) => [state |-> "row", id |-> RefreshId(x.known, p), text |-> files[p]] \in IndexRows
    BY <2>3 DEF Identities, IndexRows, Readable
  <2>5. NoRecord \in IndexRows /\ NoRecord.state = "none"
    BY DEF IndexRows, NoRecord
  <2>6. /\ table \in [Paths -> IndexRows]
        /\ \A p \in Paths : /\ p \in ps /\ Readable(p) => table[p].id = RefreshId(x.known, p)
                            /\ p \in ps /\ ~Readable(p) => table[p].state = "none"
                            /\ p \notin ps => table[p] = rows[p]
    BY <1>0, <2>4, <2>5 DEF RefreshedRows
  <2> HIDE DEF table, ps
  <2>7. PICK qs \in SUBSET ps :
          /\ ident' = WithRecords(qs, table)
          /\ \/ qs = ps /\ rows' = table /\ dcall' = [dcall EXCEPT ![c] = x.then]
             \/ rows' = rows /\ dcall' = [dcall EXCEPT ![c] = DocIdle]
    BY <1>23 DEF WriteRows, GiveUp, table, ps
  <2>8. ident' \in [Paths -> Identities] /\ rows' \in [Paths -> IndexRows]
    BY <1>0, <2>4, <2>6, <2>7 DEF WithRecords
  <2>9. OnlyBirths
    BY <2>3, <2>6, <2>7 DEF OnlyBirths, WithRecords
  <2>10. IndexedIdentified'
    BY <2>6, <2>7 DEF IndexedIdentified, DocumentInv, WithRecords
  <2>11. \E y \in AnyCall : y = x.then /\ DocCallStands(y, ident, ops)'
    BY <1>j, <2>1
  <2>12. PICK y \in AnyCall : dcall' = [dcall EXCEPT ![c] = y] /\ DocCallStands(y, ident, ops)'
    BY <1>b, <2>7, <2>11
  <2>. QED  BY <1>0, <2>1, <2>8, <2>9, <2>10, <2>12, DocBirthStep
<1>19. ASSUME NEW c \in Callers, Complete(c) PROVE DocumentInv'
  <2> DEFINE x == dcall[c]
  <2>1. /\ x.step = "complete" /\ GiveUp(c) /\ UNCHANGED <<files, twins, ident, rows, revs, shared, dbudget>>
        /\ x.key \in DocKeys /\ x.req \in DocRequests
    BY <1>a, <1>19 DEF Complete, DocCalls, Exchanges
  <2>2. CASE ops' = ops
    BY <1>0, <1>g, <2>1, <2>2
  <2>3. CASE Answerable(x.req) /\ ops' = [ops EXCEPT ![x.key].state = "completed"]
    <3>1. ops[x.key] \in Operations \ {Unasked}
      BY <1>0, <1>a, <2>1 DEF DocCallStands, DocSteps
    <3>2. [ops[x.key] EXCEPT !.state = "completed"] \in Operations \ {Unasked}
      BY <3>1 DEF Operations, Unasked
    <3>3. ops' = [ops EXCEPT ![x.key] = [ops[x.key] EXCEPT !.state = "completed"]]
      BY <1>0, <2>1, <2>3
    <3>4. ops' \in [DocKeys -> Operations] /\ \A k \in DocKeys : ops[k] # Unasked => ops'[k] # Unasked
      BY <1>0, <2>1, <3>2, <3>3
    <3>. QED  BY <1>0, <1>g, <2>1, <3>4
  <2>. QED  BY <1>19, <2>2, <2>3 DEF Complete
<1>20. ASSUME NEW c \in Callers, RequestDies(c) PROVE DocumentInv'
  <2>1. /\ UNCHANGED <<files, twins, ident, rows, revs, ops, shared>>
        /\ dcall' \in [Callers -> AnyCall] /\ \A o \in Callers : dcall'[o] = dcall[o] \/ dcall'[o] = DocIdle
    BY <1>0, <1>b, <1>20 DEF RequestDies
  <2>2. \A o \in Callers : DocCallStands(dcall[o], ident, ops)'
    BY <1>a, <1>b, <2>1
  <2>3. IdentitiesUnique' /\ BornWhereMoved' /\ IndexedIdentified'
    BY <2>1 DEF DocumentInv, IdentitiesUnique, BornWhereMoved, IndexedIdentified, Active
  <2>. QED  BY <1>0, <2>1, <2>2, <2>3 DEF DocumentInv, DocumentTypeOK
<1>21. ASSUME NEW p \in Paths, NEW t \in Texts \cup {Absent}, Edit(p, t) PROVE DocumentInv'
  <2>1. /\ files' = [files EXCEPT ![p] = t] /\ twins' \subseteq twins
        /\ UNCHANGED <<ident, rows, revs, ops, dcall, shared>>
    BY <1>21 DEF Edit
  <2>2. IdentitiesUnique' /\ BornWhereMoved' /\ IndexedIdentified'
    BY <2>1 DEF DocumentInv, IdentitiesUnique, BornWhereMoved, IndexedIdentified, Active
  <2>3. files' \in [Paths -> Texts \cup {Absent, Dir}] /\ twins' \subseteq SUBSET Paths
    BY <1>0, <2>1
  <2>. QED  BY <1>0, <2>1, <2>2, <2>3 DEF DocumentInv, DocumentTypeOK
<1>. QED  BY <1>1, <1>2, <1>3, <1>4, <1>5, <1>6, <1>7, <1>8, <1>9, <1>10, <1>11, <1>12, <1>13, <1>14, <1>15, <1>16,
             <1>17, <1>18, <1>19, <1>20, <1>21, <1>22, <1>23 DEF DocumentNext

\* A document identity is at one path at most, whatever is moved, created,
\* edited, scanned or interrupted: a tombstone stays where an identity left
\* (ensure_identity, move_identity, _persist_identities of documents/index.py).
THEOREM IdentitiesStayUnique == Spec => []IdentitiesUnique
<1>1. Init => DocumentInv
  BY DocumentInvInit DEF Init
<1>2. DocumentInv /\ [Next]_vars => DocumentInv'
  BY AreaSteps, DocumentInvStep
<1>3. DocumentInv => IdentitiesUnique
  BY DEF DocumentInv
<1>. QED  BY <1>1, <1>2, <1>3, PTL DEF Spec


-----------------------------------------------------------------------------
(* The code graph                                                           *)

\* One history is the beginning of another.
Later(past, new) == Len(past) <= Len(new) /\ \A k \in 1 .. Len(past) : new[k] = past[k]

\* What was there once stays so whatever people do next: what builders and
\* queries found (BuildStands and QueryStands are about _build and status).
LEMMA SeenLater ==
    ASSUME NEW past \in Seq(Moments), NEW new \in Seq(Moments), Later(past, new)
    PROVE  /\ \A p, text : \A i \in 1 .. Len(past) : \A j \in 1 .. Len(past) : Seen(past, p, text, i, j) => Seen(new, p, text, i, j)
           /\ \A p, text : \A i \in 1 .. Len(past) : Seen(past, p, text, i, Len(past)) => Seen(new, p, text, i, Len(new))
BY DEF Later, Seen

\* What was seen around a head is, in a longer history, and so is what is done.
LEMMA AroundLater ==
    ASSUME NEW past \in Seq(Moments), NEW new \in Seq(Moments), Later(past, new), NEW i \in 1 .. Len(past)
    PROVE  /\ \A snap : \A j \in 1 .. Len(past) : SeenAround(past, snap, i, j) => SeenAround(new, snap, i, j)
           /\ \A snap : SeenAround(past, snap, i, Len(past)) => SeenAround(new, snap, i, Len(new))
           /\ \A snap : \A j \in 1 .. Len(past) : AllSeen(past, snap, i, j) => AllSeen(new, snap, i, j)
           /\ \A snap : AllSeen(past, snap, i, Len(past)) => AllSeen(new, snap, i, Len(new))
           /\ \A call : DoneSeen(past, call, i) => DoneSeen(new, call, i)
<1>0. /\ Len(past) \in Nat /\ Len(new) \in Nat /\ Len(past) <= Len(new)
      /\ \A k \in 1 .. Len(past) : k \in 1 .. Len(new) /\ new[k] = past[k]
  BY DEF Later
<1>1. \A snap : \A k \in 1 .. Len(past), j \in 1 .. Len(past) : AllSeen(past, snap, k, j) => AllSeen(new, snap, k, j)
  BY SeenLater DEF AllSeen
<1>2. \A snap : \A k \in 1 .. Len(past) : AllSeen(past, snap, k, Len(past)) => AllSeen(new, snap, k, Len(new))
  BY SeenLater DEF AllSeen
<1>3. \A call : DoneSeen(past, call, i) => DoneSeen(new, call, i)
  BY SeenLater DEF DoneSeen
<1>4. ASSUME NEW snap, NEW j \in 1 .. Len(past), SeenAround(past, snap, i, j) PROVE SeenAround(new, snap, i, j)
  <2>1. PICK k \in i .. j : past[k].head = snap.head /\ AllSeen(past, snap, i, k) /\ AllSeen(past, snap, k, j)
    BY <1>4 DEF SeenAround
  <2>2. k \in 1 .. Len(past)
    BY <1>0
  <2>3. new[k].head = snap.head /\ AllSeen(new, snap, i, k) /\ AllSeen(new, snap, k, j)
    BY <1>0, <1>1, <2>1, <2>2
  <2>. QED  BY <2>3 DEF SeenAround
<1>5. ASSUME NEW snap, SeenAround(past, snap, i, Len(past)) PROVE SeenAround(new, snap, i, Len(new))
  <2>1. PICK k \in i .. Len(past) : past[k].head = snap.head /\ AllSeen(past, snap, i, k) /\ AllSeen(past, snap, k, Len(past))
    BY <1>5 DEF SeenAround
  <2>2. k \in 1 .. Len(past) /\ k \in i .. Len(new)
    BY <1>0
  <2>3. new[k].head = snap.head /\ AllSeen(new, snap, i, k) /\ AllSeen(new, snap, k, Len(new))
    BY <1>0, <1>1, <1>2, <2>1, <2>2
  <2>. QED  BY <2>2, <2>3 DEF SeenAround
<1>. QED  BY <1>1, <1>2, <1>3, <1>4, <1>5

\* A builder and a query stand as they did when somebody edits.
LEMMA BuildStandsLater ==
    ASSUME NEW past \in Seq(Moments), NEW new \in Seq(Moments), Later(past, new), NEW n \in 1 .. Len(past),
           NEW call, BuildStands(past, call, n)
    PROVE  BuildStands(new, call, n)
<1>0. /\ Len(past) \in Nat /\ Len(new) \in Nat /\ Len(past) <= Len(new)
      /\ \A k \in 1 .. Len(past) : k \in 1 .. Len(new) /\ new[k] = past[k]
  BY DEF Later
<1>1. call.step \in {"list", "read"} /\ call.pass = "first" => DoneSeen(new, call, n)
  BY AroundLater DEF BuildStands
<1>2. call.step \in {"snapshot", "manifest", "prepare", "pointer"} => SeenAround(new, call.snap, n, Len(new))
  BY AroundLater DEF BuildStands
<1>3. ASSUME call.step \in {"list", "read"}, call.pass = "second"
      PROVE  \E k \in n .. Len(new) : new[k].head = call.snap.head /\ AllSeen(new, call.snap, n, k) /\ DoneSeen(new, call, k)
  <2>1. PICK k \in n .. Len(past) : past[k].head = call.snap.head /\ AllSeen(past, call.snap, n, k) /\ DoneSeen(past, call, k)
    BY <1>3 DEF BuildStands
  <2>2. k \in 1 .. Len(past) /\ k \in n .. Len(new) /\ new[k] = past[k]
    BY <1>0
  <2>3. AllSeen(new, call.snap, n, k) /\ DoneSeen(new, call, k)
    BY <2>1, <2>2, AroundLater
  <2>. QED  BY <2>1, <2>2, <2>3
<1>. QED  BY <1>1, <1>2, <1>3 DEF BuildStands

LEMMA QueryStandsLater ==
    ASSUME NEW past \in Seq(Moments), NEW new \in Seq(Moments), Later(past, new), NEW call, QueryStands(past, call)
    PROVE  QueryStands(new, call)
<1>0. /\ Len(past) \in Nat /\ Len(new) \in Nat /\ Len(past) <= Len(new)
      /\ \A k \in 1 .. Len(past) : k \in 1 .. Len(new) /\ new[k] = past[k]
  BY DEF Later
<1>1. call.since \in 1 .. Len(past) /\ call.since \in 1 .. Len(new)
  BY <1>0 DEF QueryStands
<1>2. \A k \in call.since .. Len(past) : k \in call.since .. Len(new) /\ new[k] = past[k]
  BY <1>0, <1>1
<1>. QED  BY <1>1, <1>2, AroundLater DEF QueryStands

\* A call goes on to a record that stands or ends: the rest stands as before.
LEMMA GraphCallMoves ==
    ASSUME GraphInv, NEW c \in Callers, NEW call \in {QIdle} \cup Builds \cup Queries,
           qcall' = [qcall EXCEPT ![c] = call],
           \/ call = QIdle
           \/ /\ Building(c) /\ call \in Builds /\ call.fence = qcall[c].fence
              /\ call.fence = glease.fence => BuildStands(moments, call, swap.last)
           \/ /\ Asking(c) /\ call \in Queries /\ QueryStands(moments, call),
           UNCHANGED <<moments, pointer, swap>>,
           published' \in [snapshots : SUBSET Snapshots, manifests : SUBSET Snapshots], flat' \in Snapshots \cup {NoSnapshot},
           glease' \in [fence : Nat, live : BOOLEAN, guard : Callers \cup {Open}], glease'.fence = glease.fence
    PROVE  GraphInv'
<1>0. GraphTypeOK /\ qcall \in [Callers -> {QIdle} \cup Builds \cup Queries]
  BY DEF GraphInv, GraphTypeOK
<1>1. GraphTypeOK'
  BY <1>0 DEF GraphTypeOK
<1>2. qcall'[c] = call /\ \A d \in Callers : d # c => qcall'[d] = qcall[d]
  BY <1>0
<1>3. /\ call \in Builds => call # QIdle /\ call.pass # "query"
      /\ call \in Queries => call # QIdle /\ call.pass = "query"
  BY DEF Builds, Queries, QIdle
<1>4. \A d \in Callers : d # c => (Building(d)' <=> Building(d)) /\ (Asking(d)' <=> Asking(d))
  BY <1>2 DEF Building, Asking
<1>5. Building(c)' => /\ Building(c) /\ call.fence = qcall[c].fence
                      /\ call.fence = glease.fence => BuildStands(moments, call, swap.last)
  BY <1>2, <1>3 DEF Building
<1>6. Asking(c)' => QueryStands(moments, call)
  BY <1>2, <1>3 DEF Asking
<1>7. ASSUME NEW d \in Callers, Building(d)'
      PROVE  /\ Building(d) /\ qcall'[d].fence = qcall[d].fence
             /\ qcall'[d].fence = glease.fence => BuildStands(moments, qcall'[d], swap.last)
  BY <1>2, <1>4, <1>5, <1>7 DEF GraphInv
<1>8. \A d \in Callers : Asking(d)' => QueryStands(moments, qcall'[d])
  BY <1>2, <1>4, <1>6 DEF GraphInv
<1>9. ASSUME NEW d \in Callers, Building(d)'
      PROVE  /\ qcall'[d].fence <= glease'.fence
             /\ qcall'[d].fence = glease'.fence => BuildStands(moments', qcall'[d], swap'.last)
             /\ \A e \in Callers : Building(e)' /\ qcall'[e].fence = qcall'[d].fence => e = d
  BY <1>7, <1>9 DEF GraphInv
<1>. QED  BY <1>1, <1>8, <1>9 DEF GraphInv

\* The first moment is all there is.
LEMMA GraphInvInit == GraphInit => GraphInv
<1> SUFFICES ASSUME GraphInit PROVE GraphInv
  OBVIOUS
<1> DEFINE text == CHOOSE t \in CodeTexts : TRUE
           branch == CHOOSE h \in Heads : TRUE
           first == [files |-> [p \in CodePaths |-> text], head |-> branch]
<1>1. text \in CodeTexts /\ branch \in Heads
  BY GraphAssumption
<1> HIDE DEF text, branch
<1>2. first \in Moments
  BY <1>1 DEF Moments, CodeFiles
<1>3. moments = <<first>>
  BY DEF GraphInit, text, branch
<1> HIDE DEF first
<1>4. moments \in Seq(Moments) /\ moments # <<>> /\ Len(moments) = 1
  BY <1>2, <1>3
<1>5. \A c \in Callers : ~Building(c) /\ ~Asking(c)
  <2>1. qcall = [c \in Callers |-> QIdle]
    BY Zenon DEF GraphInit
  <2>2. \A c \in Callers : qcall[c] = QIdle
    BY <2>1, Zenon
  <2>. QED  BY <2>2, Zenon DEF Building, Asking
<1>6. GraphTypeOK /\ pointer = NoSnapshot /\ swap.before = 1 /\ swap.last = 1
  BY <1>4 DEF GraphInit, GraphTypeOK
<1>. QED  BY <1>4, <1>5, <1>6 DEF GraphInv

\* One more path listed or read leaves what is done as it was found, or as it is.
LEMMA DoneMore ==
    ASSUME NEW past \in Seq(Moments), past # <<>>, NEW n \in 1 .. Len(past), NEW x, NEW y, DoneSeen(past, x, n),
           \A q \in CodePaths \ (y.names \cup y.todo) :
             \/ q \notin x.names \cup x.todo /\ y.found[q] = x.found[q]
             \/ y.found[q] = past[Len(past)].files[q]
    PROVE  DoneSeen(past, y, n)
<1>1. Len(past) \in n .. Len(past)
  OBVIOUS
<1>2. ASSUME NEW q \in CodePaths \ (y.names \cup y.todo) PROVE Seen(past, q, y.found[q], n, Len(past))
  <2>1. CASE q \notin x.names \cup x.todo /\ y.found[q] = x.found[q]
    BY <2>1 DEF DoneSeen
  <2>2. CASE y.found[q] = past[Len(past)].files[q]
    BY <1>1, <2>2 DEF Seen
  <2>. QED  BY <1>2, <2>1, <2>2
<1>. QED  BY <1>2 DEF DoneSeen

\* A call that lists and reads on, and one that is else what it was.
OnlyLooks(past, x, y) ==
    /\ x.step \in {"list", "read"} /\ y.step \in {"list", "read"} /\ y.snap = x.snap
    /\ y.step = "read" => y.names = {} \/ (x.step = "read" /\ y.names = x.names)
    /\ \A q \in CodePaths \ (y.names \cup y.todo) :
         \/ q \notin x.names \cup x.todo /\ y.found[q] = x.found[q]
         \/ y.found[q] = past[Len(past)].files[q]
SameCall(x, y) ==
    \/ x \in Builds /\ y \in Builds /\ y.fence = x.fence /\ y.pass = x.pass
    \/ x \in Queries /\ y \in Queries /\ y.since = x.since /\ y.judged = x.judged

\* A builder or a query that lists and reads on stands as it did.
LEMMA LooksOn ==
    ASSUME NEW past \in Seq(Moments), past # <<>>, NEW x, NEW y, OnlyLooks(past, x, y)
    PROVE  /\ \A n \in 1 .. Len(past) : y.pass = x.pass /\ BuildStands(past, x, n) => BuildStands(past, y, n)
           /\ y.since = x.since /\ y.judged = x.judged /\ QueryStands(past, x) => QueryStands(past, y)
<1>0. Len(past) \in Nat
  OBVIOUS
<1>1. \A n \in 1 .. Len(past) : DoneSeen(past, x, n) => DoneSeen(past, y, n)
  BY DoneMore DEF OnlyLooks
<1>2. ASSUME NEW n \in 1 .. Len(past), y.pass = x.pass, BuildStands(past, x, n) PROVE BuildStands(past, y, n)
  <2>1. \A k \in n .. Len(past) : k \in 1 .. Len(past)
    BY <1>0
  <2>2. y.step \in {"list", "read"} /\ y.pass = "first" => DoneSeen(past, y, n)
    BY <1>1, <1>2 DEF BuildStands, OnlyLooks
  <2>3. y.step \in {"list", "read"} /\ y.pass = "second" =>
          \E k \in n .. Len(past) : past[k].head = y.snap.head /\ AllSeen(past, y.snap, n, k) /\ DoneSeen(past, y, k)
    BY <1>1, <1>2, <2>1 DEF BuildStands, OnlyLooks
  <2>. QED  BY <1>2, <2>2, <2>3 DEF BuildStands, OnlyLooks
<1>3. ASSUME y.since = x.since, y.judged = x.judged, QueryStands(past, x) PROVE QueryStands(past, y)
  BY <1>1, <1>3 DEF QueryStands, OnlyLooks
<1>. QED  BY <1>2, <1>3

\* Every step of builders, queries and people keeps the invariant.
LEMMA GraphInvStep == GraphInv /\ [GraphNext]_qvars => GraphInv'
<1> SUFFICES ASSUME GraphInv, [GraphNext]_qvars PROVE GraphInv'
  OBVIOUS
<1>0. /\ GraphTypeOK /\ moments \in Seq(Moments) /\ moments # <<>> /\ Len(moments) \in Nat /\ 1 <= Len(moments)
      /\ published \in [snapshots : SUBSET Snapshots, manifests : SUBSET Snapshots]
      /\ pointer \in Snapshots \cup {NoSnapshot} /\ flat \in Snapshots \cup {NoSnapshot}
      /\ glease \in [fence : Nat, live : BOOLEAN, guard : Callers \cup {Open}]
      /\ qcall \in [Callers -> {QIdle} \cup Builds \cup Queries]
      /\ swap \in [before : Nat, last : Nat] /\ swap.before \in 1 .. Len(moments) /\ swap.last \in 1 .. Len(moments)
  BY DEF GraphInv, GraphTypeOK
<1>a. ASSUME NEW c \in Callers, qcall[c] # QIdle
      PROVE  \/ Building(c) /\ qcall[c] \in Builds /\ ~Asking(c)
             \/ Asking(c) /\ qcall[c] \in Queries /\ ~Building(c) /\ QueryStands(moments, qcall[c])
  BY <1>0, <1>a DEF Building, Asking, Builds, Queries, GraphInv
<1>b. QIdle.step = "idle"
  BY DEF QIdle
<1>c. Now \in Moments /\ Now = moments[Len(moments)] /\ Now.files \in CodeFiles /\ Now.head \in Heads
  <2>1. Now \in Moments /\ Now = moments[Len(moments)]
    BY <1>0 DEF Now
  <2>. QED  BY <2>1 DEF Moments
<1>n. ASSUME NotBuilding
      PROVE  /\ UNCHANGED <<moments, pointer, swap>> /\ glease'.fence = glease.fence
             /\ published' \in [snapshots : SUBSET Snapshots, manifests : SUBSET Snapshots]
             /\ flat' \in Snapshots \cup {NoSnapshot} /\ glease' \in [fence : Nat, live : BOOLEAN, guard : Callers \cup {Open}]
  BY <1>0, <1>n DEF NotBuilding
\* A builder only changes its step.
<1>g. ASSUME NEW c \in Callers, NEW step \in {"old", "fail", "release", "flat", "committed", "manifest", "prepare", "pointer", "snapshot"},
             Building(c), qcall[c] \in Builds, QGo(c, step), step = "old" => qcall[c].step = "recover",
             step \in {"snapshot", "manifest", "prepare", "pointer"} =>
               (qcall[c].fence = glease.fence => SeenAround(moments, qcall[c].snap, swap.last, Len(moments))),
             UNCHANGED <<moments, pointer, swap>>,
             published' \in [snapshots : SUBSET Snapshots, manifests : SUBSET Snapshots], flat' \in Snapshots \cup {NoSnapshot},
             glease' \in [fence : Nat, live : BOOLEAN, guard : Callers \cup {Open}], glease'.fence = glease.fence
      PROVE  GraphInv'
  <2> DEFINE x == qcall[c]
             call == [x EXCEPT !.step = step]
  <2>1. /\ call \in Builds /\ call.step = step /\ call.fence = x.fence /\ call.pass = x.pass /\ call.snap = x.snap
        /\ call.names = x.names
    BY <1>g DEF Builds
  <2>2. PICK y \in Builds : /\ y.step = step /\ y.fence = x.fence /\ y.pass = x.pass /\ y.snap = x.snap /\ y.names = x.names
                            /\ qcall' = [qcall EXCEPT ![c] = y]
    BY <1>g, <2>1 DEF QGo
  <2>3. x.fence = glease.fence => BuildStands(moments, x, swap.last)
    BY <1>g DEF GraphInv
  <2>4. y.fence = glease.fence => BuildStands(moments, y, swap.last)
    BY <1>g, <2>2, <2>3 DEF BuildStands
  <2>. QED  BY <1>g, <2>2, <2>4, GraphCallMoves
\* A call ends.
<1>h. ASSUME NEW c \in Callers, QEnd(c), UNCHANGED <<moments, pointer, swap>>,
             published' \in [snapshots : SUBSET Snapshots, manifests : SUBSET Snapshots], flat' \in Snapshots \cup {NoSnapshot},
             glease' \in [fence : Nat, live : BOOLEAN, guard : Callers \cup {Open}], glease'.fence = glease.fence
      PROVE  GraphInv'
  BY <1>h, GraphCallMoves DEF QEnd
\* A query changes its step.
<1>q. ASSUME NEW c \in Callers, NEW step \in {"wal", "git", "answer", "fail"}, Asking(c), qcall[c] \in Queries,
             QueryStands(moments, qcall[c]), QGo(c, step), qcall[c].step # "answered",
             step \in {"wal", "git", "answer"} => AllSeen(moments, qcall[c].judged, qcall[c].since, Len(moments)),
             step = "answer" => \E k \in qcall[c].since .. Len(moments) : moments[k].head = qcall[c].judged.head,
             NotBuilding
      PROVE  GraphInv'
  <2> DEFINE x == qcall[c]
             call == [x EXCEPT !.step = step]
  <2>1. call \in Queries /\ call.step = step /\ call.since = x.since /\ call.judged = x.judged /\ call.snap = x.snap
    BY <1>q DEF Queries
  <2>2. PICK y \in Queries : /\ y.step = step /\ y.since = x.since /\ y.judged = x.judged /\ y.snap = x.snap
                             /\ qcall' = [qcall EXCEPT ![c] = y]
    BY <1>q, <2>1 DEF QGo
  <2>3. QueryStands(moments, y)
    BY <1>q, <2>2 DEF QueryStands
  <2>. QED  BY <1>n, <1>q, <2>2, <2>3, GraphCallMoves
\* A builder or a query lists and reads on.
<1>l. ASSUME NEW c \in Callers, NEW y, OnlyLooks(moments, qcall[c], y), SameCall(qcall[c], y), qcall' = [qcall EXCEPT ![c] = y],
             NotBuilding
      PROVE  GraphInv'
  <2> DEFINE x == qcall[c]
  <2>1. /\ \A n \in 1 .. Len(moments) : y.pass = x.pass /\ BuildStands(moments, x, n) => BuildStands(moments, y, n)
        /\ y.since = x.since /\ y.judged = x.judged /\ QueryStands(moments, x) => QueryStands(moments, y)
    BY <1>0, <1>l, LooksOn
  <2>2. x # QIdle
    BY <1>b, <1>l DEF OnlyLooks
  <2>3. CASE x \in Builds /\ y \in Builds /\ y.fence = x.fence /\ y.pass = x.pass
    <3>1. Building(c)
      BY <2>2, <2>3 DEF Building, Builds
    <3>2. x.fence = glease.fence => BuildStands(moments, x, swap.last)
      BY <3>1 DEF GraphInv
    <3>. QED  BY <1>0, <1>l, <1>n, <2>1, <2>3, <3>1, <3>2, GraphCallMoves
  <2>4. CASE x \in Queries /\ y \in Queries /\ y.since = x.since /\ y.judged = x.judged
    <3>1. Asking(c)
      BY <2>2, <2>4 DEF Asking, Queries
    <3>2. QueryStands(moments, y)
      BY <2>1, <2>4, <3>1 DEF GraphInv
    <3>. QED  BY <1>l, <1>n, <2>4, <3>1, <3>2, GraphCallMoves
  <2>. QED  BY <1>l, <2>3, <2>4 DEF SameCall
<1>d. ASSUME NEW c \in Callers, qcall[c] # QIdle
      PROVE  /\ qcall[c].names \in SUBSET CodePaths /\ qcall[c].todo \in SUBSET CodePaths /\ qcall[c].found \in CodeFiles
  BY <1>a, <1>d DEF Builds, Queries
<1>1. CASE UNCHANGED qvars
  BY <1>0, <1>1 DEF qvars, GraphInv, GraphTypeOK, Building, Asking
<1>2. ASSUME NEW c \in Callers, StartBuild(c) PROVE GraphInv'
  <2> DEFINE call == [step |-> "recover", pass |-> "first", fence |-> glease.fence + 1, old |-> NoSnapshot,
                      snap |-> NothingDerived, names |-> CodePaths, todo |-> {}, found |-> NothingFound]
  <2>1. /\ qcall[c] = QIdle /\ glease' = [fence |-> glease.fence + 1, live |-> TRUE, guard |-> Open]
        /\ qcall' = [qcall EXCEPT ![c] = call] /\ UNCHANGED <<moments, published, pointer, flat, gwal, swap>>
    BY <1>2 DEF StartBuild
  <2>2. call \in Builds /\ call # QIdle /\ glease.fence \in Nat /\ glease'.fence = glease.fence + 1
    <3>1. NothingFound \in CodeFiles
      BY DEF NothingFound, CodeFiles
    <3>2. NothingDerived \in Snapshots
      BY <3>1, GraphAssumption DEF NothingDerived, Snapshots
    <3>. QED  BY <1>0, <2>1, <3>1, <3>2 DEF Builds, QIdle
  <2>3. PICK y \in Builds : /\ y.step = "recover" /\ y.pass = "first" /\ y.fence = glease.fence + 1 /\ y.names = CodePaths
                            /\ qcall' = [qcall EXCEPT ![c] = y]
    BY <2>1, <2>2
  <2>4. qcall'[c] = y /\ y # QIdle /\ \A d \in Callers : d # c => qcall'[d] = qcall[d]
    BY <1>0, <2>3 DEF QIdle
  <2>5. /\ ~Asking(c)' /\ ~Building(c)
        /\ \A d \in Callers : d # c => (Building(d)' <=> Building(d)) /\ (Asking(d)' <=> Asking(d))
    BY <2>1, <2>3, <2>4 DEF Asking, Building
  <2>6. BuildStands(moments, y, swap.last)
    BY <2>3 DEF BuildStands
  <2>7. GraphTypeOK'
    BY <1>0, <2>1, <2>2, <2>3 DEF GraphTypeOK
  <2>8. ASSUME NEW d \in Callers, d # c, Building(d)'
        PROVE  /\ Building(d) /\ qcall'[d] = qcall[d] /\ qcall[d].fence \in Nat /\ qcall[d].fence <= glease.fence
               /\ qcall[d].fence # glease'.fence
    <3>1. Building(d) /\ qcall'[d] = qcall[d] /\ qcall[d] # QIdle
      BY <2>4, <2>5, <2>8 DEF Building
    <3>2. qcall[d] \in Builds /\ qcall[d].fence <= glease.fence
      BY <1>a, <3>1 DEF GraphInv
    <3>3. qcall[d].fence \in Nat
      BY <3>2 DEF Builds
    <3>. QED  BY <2>2, <3>1, <3>2, <3>3
  <2>9. ASSUME NEW d \in Callers, Building(d)'
        PROVE  /\ qcall'[d].fence <= glease'.fence
               /\ qcall'[d].fence = glease'.fence => BuildStands(moments', qcall'[d], swap'.last)
               /\ \A e \in Callers : Building(e)' /\ qcall'[e].fence = qcall'[d].fence => e = d
    <3>1. CASE d = c
      <4>1. qcall'[d] = y /\ y.fence = glease'.fence /\ glease'.fence \in Nat
        BY <2>2, <2>3, <2>4, <3>1
      <4>2. BuildStands(moments', y, swap'.last)
        BY <2>1, <2>6
      <4>3. \A e \in Callers : e # c /\ Building(e)' => qcall'[e].fence # y.fence
        BY <2>8, <4>1
      <4>. QED  BY <3>1, <4>1, <4>2, <4>3
    <3>2. CASE d # c
      <4>1. /\ Building(d) /\ qcall'[d] = qcall[d] /\ qcall[d].fence \in Nat /\ qcall[d].fence <= glease.fence
            /\ qcall[d].fence # glease'.fence
        BY <2>8, <2>9, <3>2
      <4>2. ASSUME NEW e \in Callers, Building(e)', qcall'[e].fence = qcall'[d].fence PROVE e = d
        <5>1. e # c
          BY <2>2, <2>3, <2>4, <4>1, <4>2
        <5>2. Building(e) /\ qcall'[e] = qcall[e]
          BY <2>8, <4>2, <5>1
        <5>. QED  BY <4>1, <4>2, <5>2 DEF GraphInv
      <4>. QED  BY <2>2, <4>1, <4>2
    <3>. QED  BY <3>1, <3>2
  <2>10. \A d \in Callers : Asking(d)' => QueryStands(moments', qcall'[d])
    BY <2>1, <2>4, <2>5 DEF GraphInv
  <2>. QED  BY <2>1, <2>7, <2>9, <2>10 DEF GraphInv
<1>3. ASSUME NEW c \in Callers, RecoverCommitted(c) PROVE GraphInv'
  <2>1. /\ qcall[c].step = "recover" /\ UNCHANGED <<moments, published, pointer, glease, qbudget, swap>> /\ flat' \in {flat, pointer}
        /\ \E step \in {"fail", "old"} : QGo(c, step)
    BY <1>3 DEF RecoverCommitted
  <2>2. Building(c) /\ qcall[c] \in Builds
    BY <1>a, <1>b, <2>1 DEF Queries
  <2>. QED  BY <1>0, <1>g, <2>1, <2>2
<1>4. ASSUME NEW c \in Callers, LoadOld(c) PROVE GraphInv'
  <2> DEFINE x == qcall[c]
  <2>1. x.step = "old" /\ UNCHANGED <<moments, published, pointer, flat, glease, qbudget, swap>>
    BY <1>4 DEF LoadOld
  <2>2. Building(c) /\ x \in Builds
    BY <1>a, <1>b, <2>1 DEF Queries
  <2>3. CASE QGo(c, "fail")
    BY <1>0, <1>g, <2>1, <2>2, <2>3
  <2>4. CASE qcall' = [qcall EXCEPT ![c].step = "list", ![c].old = IF Loadable THEN pointer ELSE NoSnapshot]
    <3>1. PICK old \in Snapshots \cup {NoSnapshot} : old = IF Loadable THEN pointer ELSE NoSnapshot
      BY <1>0
    <3> DEFINE call == [x EXCEPT !.step = "list", !.old = old]
    <3>2. /\ call \in Builds /\ call.step = "list" /\ call.fence = x.fence /\ call.pass = x.pass /\ call.snap = x.snap
          /\ call.names = x.names
      BY <2>2 DEF Builds
    <3>3. qcall' = [qcall EXCEPT ![c] = call]
      BY <1>0, <2>4, <3>1
    <3>4. PICK y \in Builds : /\ y.step = "list" /\ y.fence = x.fence /\ y.pass = x.pass /\ y.snap = x.snap /\ y.names = x.names
                              /\ qcall' = [qcall EXCEPT ![c] = y]
      BY <3>2, <3>3
    <3>5. ASSUME BuildStands(moments, x, swap.last) PROVE BuildStands(moments, y, swap.last)
      <4>1. y.pass = "first" /\ y.names = CodePaths
        BY <2>1, <3>4, <3>5 DEF BuildStands
      <4>. QED  BY <3>4, <4>1 DEF BuildStands, DoneSeen
    <3>6. x.fence = glease.fence => BuildStands(moments, x, swap.last)
      BY <2>2 DEF GraphInv
    <3>. QED  BY <1>0, <2>1, <2>2, <3>4, <3>5, <3>6, GraphCallMoves
  <2>. QED  BY <1>4, <2>3, <2>4 DEF LoadOld
<1>5. ASSUME NEW c \in Callers, ListPaths(c) PROVE GraphInv'
  <2> DEFINE x == qcall[c]
             p == CHOOSE q \in x.names : TRUE
             todo == IF Now.files[p] = Gone THEN x.todo ELSE x.todo \cup {p}
             found == [x.found EXCEPT ![p] = Gone]
  <2>1. x.step = "list" /\ NotBuilding
    BY <1>5 DEF ListPaths
  <2>2. x # QIdle /\ x.names \in SUBSET CodePaths /\ x.todo \in SUBSET CodePaths /\ x.found \in CodeFiles
        /\ (x \in Builds \/ x \in Queries)
    BY <1>a, <1>b, <1>d, <2>1
  <2>3. CASE x.names = {}
    <3> DEFINE y == [x EXCEPT !.step = "read"]
    <3>1. qcall' = [qcall EXCEPT ![c] = y]
      BY <1>5, <2>3 DEF ListPaths, QGo
    <3>2. x.step \in {"list", "read"} /\ y.step \in {"list", "read"} /\ y.names = {} /\ y.todo = x.todo /\ y.found = x.found /\ y.snap = x.snap
      BY <2>1, <2>2, <2>3 DEF Builds, Queries
    <3>3. SameCall(x, y)
      BY <2>2 DEF SameCall, Builds, Queries
    <3> HIDE DEF y
    <3>4. OnlyLooks(moments, x, y)
      BY <2>3, <3>2 DEF OnlyLooks
    <3>. QED  BY <1>l, <2>1, <3>1, <3>3, <3>4
  <2>4. CASE x.names # {}
    <3> DEFINE y == [x EXCEPT !.names = x.names \ {p}, !.found = found, !.todo = todo]
    <3>1. p \in x.names /\ p \in CodePaths
      BY <2>2, <2>4
    <3>2. qcall' = [qcall EXCEPT ![c] = y]
      BY <1>5, <2>4 DEF ListPaths
    <3>3. todo \in SUBSET CodePaths /\ found \in CodeFiles /\ x.names \ {p} \in SUBSET CodePaths
      BY <2>2, <3>1 DEF CodeFiles
    <3>4. \A q \in CodePaths \ ((x.names \ {p}) \cup todo) :
            (q \notin x.names \cup x.todo /\ found[q] = x.found[q]) \/ found[q] = Now.files[q]
      BY <2>2, <3>1 DEF CodeFiles
    <3> HIDE DEF todo, found, p
    <3>5. y.step = "list" /\ y.names = x.names \ {p} /\ y.todo = todo /\ y.found = found /\ y.snap = x.snap
      BY <2>1, <2>2 DEF Builds, Queries
    <3>6. SameCall(x, y)
      BY <2>2, <3>3 DEF SameCall, Builds, Queries
    <3> HIDE DEF y
    <3>7. OnlyLooks(moments, x, y)
      BY <1>c, <2>1, <3>4, <3>5 DEF OnlyLooks
    <3>. QED  BY <1>l, <2>1, <3>2, <3>6, <3>7
  <2>. QED  BY <2>3, <2>4
<1>6. ASSUME NEW c \in Callers, ReadCode(c) PROVE GraphInv'
  <2> DEFINE x == qcall[c]
             p == CHOOSE q \in x.todo : TRUE
             found == [x.found EXCEPT ![p] = Now.files[p]]
             y == [x EXCEPT !.todo = x.todo \ {p}, !.found = found]
  <2>1. x.step = "read" /\ NotBuilding /\ x.todo # {}
    BY <1>6 DEF ReadCode
  <2>2. x # QIdle /\ x.names \in SUBSET CodePaths /\ x.todo \in SUBSET CodePaths /\ x.found \in CodeFiles
        /\ (x \in Builds \/ x \in Queries)
    BY <1>a, <1>b, <1>d, <2>1
  <2>3. p \in x.todo /\ p \in CodePaths
    BY <2>1, <2>2
  <2>4. CASE QGo(c, "fail")
    <3>1. CASE Building(c) /\ x \in Builds
      BY <1>g, <1>n, <2>1, <2>4, <3>1
    <3>2. CASE Asking(c) /\ x \in Queries /\ QueryStands(moments, x)
      BY <1>q, <2>1, <2>4, <3>2
    <3>. QED  BY <1>a, <2>2, <3>1, <3>2
  <2>5. CASE qcall' = [qcall EXCEPT ![c] = y]
    <3>1. found \in CodeFiles /\ x.todo \ {p} \in SUBSET CodePaths
      BY <1>c, <2>2, <2>3 DEF CodeFiles
    <3>2. \A q \in CodePaths \ (x.names \cup (x.todo \ {p})) :
            (q \notin x.names \cup x.todo /\ found[q] = x.found[q]) \/ found[q] = Now.files[q]
      BY <2>2, <2>3 DEF CodeFiles
    <3> HIDE DEF found, p
    <3>3. y.step = "read" /\ y.names = x.names /\ y.todo = x.todo \ {p} /\ y.found = found /\ y.snap = x.snap
      BY <2>1, <2>2 DEF Builds, Queries
    <3>4. SameCall(x, y)
      BY <2>2, <3>1 DEF SameCall, Builds, Queries
    <3> HIDE DEF y
    <3>5. OnlyLooks(moments, x, y)
      BY <1>c, <2>1, <3>2, <3>3 DEF OnlyLooks
    <3>. QED  BY <1>l, <2>1, <2>5, <3>4, <3>5
  <2>. QED  BY <1>6, <2>4, <2>5 DEF ReadCode
<1>7. ASSUME NEW c \in Callers, Extract(c) PROVE GraphInv'
  <2> DEFINE x == qcall[c]
             snap == SnapshotOf(x, Now.head)
             step == IF SameContent(snap, x.old) THEN "noop" ELSE "list"
             call == [x EXCEPT !.step = step, !.pass = "second", !.snap = snap, !.names = CodePaths]
  <2>1. x.step = "read" /\ x.todo = {} /\ x.pass = "first" /\ NotBuilding
    BY <1>7 DEF Extract
  <2>2. Building(c) /\ x \in Builds
    BY <1>a, <1>b, <2>1 DEF Queries
  <2>3. CASE QGo(c, "fail")
    BY <1>g, <1>n, <2>1, <2>2, <2>3
  <2>4. CASE ~QGo(c, "fail")
    <3>1. qcall' = [qcall EXCEPT ![c].step = step, ![c].pass = "second", ![c].snap = snap, ![c].names = CodePaths]
      BY <1>7, <2>4 DEF Extract, GitHead
    <3>2. snap \in Snapshots /\ snap.head = Now.head /\ snap.files = x.found /\ step \in {"noop", "list"}
      BY <1>c, <2>2 DEF SnapshotOf, Snapshots, Builds
    <3>3. qcall' = [qcall EXCEPT ![c] = call]
      BY <1>0, <3>1
    <3> HIDE DEF step, snap
    <3>4. /\ call \in Builds /\ call.step = step /\ call.fence = x.fence /\ call.pass = "second" /\ call.snap = snap
          /\ call.names = CodePaths
      BY <2>2, <3>2 DEF Builds
    <3>5. PICK y \in Builds : /\ y.step \in {"noop", "list"} /\ y.fence = x.fence /\ y.pass = "second" /\ y.snap = snap
                              /\ y.names = CodePaths /\ qcall' = [qcall EXCEPT ![c] = y]
      BY <3>2, <3>3, <3>4
    <3>6. ASSUME BuildStands(moments, x, swap.last) PROVE BuildStands(moments, y, swap.last)
      <4>1. AllSeen(moments, snap, swap.last, Len(moments))
        BY <2>1, <3>2, <3>6 DEF BuildStands, DoneSeen, AllSeen
      <4>2. Len(moments) \in swap.last .. Len(moments) /\ moments[Len(moments)].head = snap.head
        BY <1>0, <1>c, <3>2
      <4>3. DoneSeen(moments, y, Len(moments))
        BY <3>5 DEF DoneSeen
      <4>. QED  BY <3>2, <3>5, <4>1, <4>2, <4>3 DEF BuildStands
    <3>7. x.fence = glease.fence => BuildStands(moments, x, swap.last)
      BY <2>2 DEF GraphInv
    <3>. QED  BY <1>n, <2>1, <2>2, <3>5, <3>6, <3>7, GraphCallMoves
  <2>. QED  BY <2>3, <2>4
<1>8. ASSUME NEW c \in Callers, CommitNoop(c) PROVE GraphInv'
  <2>1. /\ qcall[c].step = "noop" /\ UNCHANGED <<moments, published, pointer, flat, glease, qbudget, swap>>
        /\ \E step \in {"release", "fail"} : QGo(c, step)
    BY <1>8 DEF CommitNoop, FencedWal
  <2>2. Building(c) /\ qcall[c] \in Builds
    BY <1>a, <1>b, <2>1 DEF Queries
  <2>. QED  BY <1>0, <1>g, <2>1, <2>2
<1>9. ASSUME NEW c \in Callers, CompareInputs(c) PROVE GraphInv'
  <2> DEFINE x == qcall[c]
  <2>1. /\ x.step = "read" /\ x.todo = {} /\ x.pass = "second" /\ NotBuilding
        /\ (x.found = x.snap.files /\ QGo(c, "snapshot")) \/ QGo(c, "fail")
    BY <1>9 DEF CompareInputs, SeenAgain
  <2>2. Building(c) /\ x \in Builds
    BY <1>a, <1>b, <2>1 DEF Queries
  <2>3. CASE QGo(c, "fail")
    BY <1>g, <1>n, <2>1, <2>2, <2>3
  <2>4. CASE x.found = x.snap.files /\ QGo(c, "snapshot")
    <3>1. ASSUME x.fence = glease.fence
          PROVE  SeenAround(moments, x.snap, swap.last, Len(moments))
      <4>1. BuildStands(moments, x, swap.last)
        BY <2>2, <3>1 DEF GraphInv
      <4>2. x.names = {}
        BY <2>1, <4>1 DEF BuildStands
      <4>3. PICK k \in swap.last .. Len(moments) : /\ moments[k].head = x.snap.head
                                                   /\ AllSeen(moments, x.snap, swap.last, k) /\ DoneSeen(moments, x, k)
        BY <2>1, <4>1 DEF BuildStands
      <4>4. AllSeen(moments, x.snap, k, Len(moments))
        BY <2>1, <2>4, <4>2, <4>3 DEF DoneSeen, AllSeen
      <4>. QED  BY <4>2, <4>3, <4>4 DEF SeenAround
    <3>. QED  BY <1>g, <1>n, <2>1, <2>2, <2>4, <3>1
  <2>. QED  BY <2>1, <2>3, <2>4
\* What was compared stays so until CURRENT is written.
<1>s. ASSUME NEW c \in Callers, qcall[c].step \in {"snapshot", "manifest", "prepare", "pointer"}
      PROVE  /\ Building(c) /\ qcall[c] \in Builds
             /\ qcall[c].fence = glease.fence =>
                  SeenAround(moments, qcall[c].snap, swap.last, Len(moments))
  <2>1. Building(c) /\ qcall[c] \in Builds
    BY <1>a, <1>b, <1>s DEF Queries
  <2>. QED  BY <1>s, <2>1 DEF GraphInv, BuildStands
<1>10. ASSUME NEW c \in Callers, PublishSnapshot(c) \/ PublishManifest(c) \/ PrepareGraph(c) PROVE GraphInv'
  <2>1. /\ qcall[c].step \in {"snapshot", "manifest", "prepare"} /\ UNCHANGED <<moments, pointer, flat, glease, swap>>
        /\ \E step \in {"manifest", "prepare", "pointer", "fail"} : QGo(c, step)
    BY <1>10 DEF PublishSnapshot, PublishManifest, PrepareGraph, FencedWal
  <2>2. published' \in [snapshots : SUBSET Snapshots, manifests : SUBSET Snapshots]
    <3>1. CASE UNCHANGED published
      BY <1>0, <3>1
    <3>2. CASE published' = [published EXCEPT !.snapshots = @ \cup {qcall[c].snap}]
                 \/ published' = [published EXCEPT !.manifests = @ \cup {qcall[c].snap}]
      <4>1. qcall[c].snap \in Snapshots
        BY <1>s, <2>1 DEF Builds
      <4>. QED  BY <1>0, <3>2, <4>1
    <3>. QED  BY <1>10, <3>1, <3>2 DEF PublishSnapshot, PublishManifest, PrepareGraph
  <2>. QED  BY <1>0, <1>g, <1>s, <2>1, <2>2
<1>11. ASSUME NEW c \in Callers, SwapPointer(c) PROVE GraphInv'
  <2> DEFINE x == qcall[c]
             call == [x EXCEPT !.step = "flat"]
             len == Len(moments)
  <2>1. x.step = "pointer" /\ UNCHANGED <<moments, published, flat, gwal, qbudget>>
    BY <1>11 DEF SwapPointer
  <2>2. Building(c) /\ x \in Builds
    BY <1>s, <2>1
  <2>3. CASE QGo(c, "fail") /\ UNCHANGED <<pointer, glease, swap>>
    BY <1>0, <1>g, <2>1, <2>2, <2>3
  <2>4. CASE /\ Leased(c) /\ pointer' = x.snap /\ QGo(c, "flat") /\ glease' = [glease EXCEPT !.guard = c]
             /\ swap' = [before |-> swap.last, last |-> len]
    <3>1. x.fence = glease.fence /\ glease'.fence = glease.fence
          /\ glease' \in [fence : Nat, live : BOOLEAN, guard : Callers \cup {Open}]
      BY <1>0, <2>4 DEF Leased
    <3>2. SeenAround(moments, x.snap, swap.last, len)
      BY <1>s, <2>1, <3>1
    <3>3. /\ call \in Builds /\ call.step = "flat" /\ call.fence = x.fence /\ call.pass = x.pass /\ x.snap \in Snapshots
      BY <2>2 DEF Builds
    <3>4. PICK y \in Builds : y.step = "flat" /\ y.fence = x.fence /\ y.pass = x.pass /\ qcall' = [qcall EXCEPT ![c] = y]
      BY <2>4, <3>3 DEF QGo
    <3>5. /\ qcall'[c] = y /\ \A d \in Callers : d # c => qcall'[d] = qcall[d]
          /\ qcall' \in [Callers -> {QIdle} \cup Builds \cup Queries]
      BY <1>0, <3>4
    <3>6. Building(c)' /\ ~Asking(c)' /\ ~Asking(c)
      BY <2>2, <3>4, <3>5 DEF Building, Asking, Builds, QIdle
    <3>7. \A d \in Callers : d # c => (Building(d)' <=> Building(d)) /\ (Asking(d)' <=> Asking(d))
      BY <3>5 DEF Building, Asking
    <3>8. swap' \in [before : Nat, last : Nat] /\ swap'.before = swap.last /\ swap'.last = len
      BY <1>0, <2>4
    <3>9. GraphTypeOK'
      BY <1>0, <2>1, <2>4, <3>1, <3>3, <3>5, <3>8 DEF GraphTypeOK
    <3>10. \A d \in Callers : Building(d)' => Building(d) /\ qcall'[d].fence = qcall[d].fence
      BY <2>2, <3>4, <3>5, <3>7
    <3>11. ASSUME NEW d \in Callers, Building(d)'
           PROVE  /\ qcall'[d].fence <= glease'.fence
                  /\ qcall'[d].fence = glease'.fence => BuildStands(moments', qcall'[d], swap'.last)
                  /\ \A e \in Callers : Building(e)' /\ qcall'[e].fence = qcall'[d].fence => e = d
      <4>1. Building(d) /\ qcall'[d].fence = qcall[d].fence /\ qcall[d].fence <= glease.fence
        BY <3>10, <3>11 DEF GraphInv
      <4>2. \A e \in Callers : Building(e)' /\ qcall'[e].fence = qcall'[d].fence => e = d
        BY <3>10, <4>1 DEF GraphInv
      <4>3. ASSUME qcall'[d].fence = glease'.fence PROVE BuildStands(moments', qcall'[d], swap'.last)
        <5>1. d = c
          BY <2>2, <3>1, <3>4, <3>5, <3>6, <4>2, <4>3
        <5>. QED  BY <3>4, <3>5, <5>1 DEF BuildStands
      <4>. QED  BY <3>1, <4>1, <4>2, <4>3
    <3>12. \A d \in Callers : Asking(d)' => QueryStands(moments', qcall'[d])
      BY <2>1, <3>5, <3>6, <3>7 DEF GraphInv
    <3>13. SeenAround(moments', pointer', swap'.before, swap'.last)
      BY <2>1, <2>4, <3>2, <3>8
    <3>14. 1 <= swap'.before /\ swap'.before <= swap'.last /\ swap'.last <= Len(moments')
      BY <1>0, <2>1, <3>8
    <3>. QED  BY <3>9, <3>11, <3>12, <3>13, <3>14 DEF GraphInv
  <2>. QED  BY <1>11, <2>3, <2>4 DEF SwapPointer
<1>12. ASSUME NEW c \in Callers, WriteFlat(c) \/ CommitGraph(c) PROVE GraphInv'
  <2>1. /\ qcall[c].step \in {"flat", "committed"} /\ UNCHANGED <<moments, published, pointer, swap>>
        /\ flat' \in {flat, qcall[c].snap} /\ glease' \in {glease, [glease EXCEPT !.guard = Open]}
        /\ \E step \in {"committed", "release"} : QGo(c, step)
    BY <1>12 DEF WriteFlat, CommitGraph
  <2>2. Building(c) /\ qcall[c] \in Builds
    BY <1>a, <1>b, <2>1 DEF Queries
  <2>3. flat' \in Snapshots \cup {NoSnapshot}
    BY <1>0, <2>1, <2>2 DEF Builds
  <2>4. glease'.fence = glease.fence /\ glease' \in [fence : Nat, live : BOOLEAN, guard : Callers \cup {Open}]
    BY <1>0, <2>1
  <2>. QED  BY <1>0, <1>g, <2>1, <2>2, <2>3, <2>4
<1>13. ASSUME NEW c \in Callers, FailBuild(c) PROVE GraphInv'
  <2>1. qcall[c].step = "fail" /\ UNCHANGED <<moments, published, pointer, flat, glease, swap>>
    BY <1>13 DEF FailBuild
  <2>2. CASE QEnd(c)
    BY <1>0, <1>h, <2>1, <2>2
  <2>3. CASE QGo(c, "release") /\ qcall[c].pass # "query"
    <3>1. Building(c) /\ qcall[c] \in Builds
      BY <1>a, <1>b, <2>1, <2>3 DEF Asking
    <3>. QED  BY <1>0, <1>g, <2>1, <2>3, <3>1
  <2>. QED  BY <1>13, <2>2, <2>3 DEF FailBuild
<1>14. ASSUME NEW c \in Callers, ReleaseGraph(c) \/ BuilderDies(c) PROVE GraphInv'
  <2>1. /\ QEnd(c) /\ UNCHANGED <<moments, published, pointer, flat, swap>>
        /\ glease' \in {glease, [glease EXCEPT !.live = FALSE], [glease EXCEPT !.guard = Open]}
    BY <1>14 DEF ReleaseGraph, BuilderDies
  <2>2. glease'.fence = glease.fence /\ glease' \in [fence : Nat, live : BOOLEAN, guard : Callers \cup {Open}]
    BY <1>0, <2>1
  <2>. QED  BY <1>0, <1>h, <2>1, <2>2
<1>15. ASSUME NEW c \in Callers, StartQuery(c) PROVE GraphInv'
  <2> DEFINE call == [step |-> "list", pass |-> "query", since |-> Len(moments), judged |-> pointer, snap |-> pointer,
                      names |-> CodePaths, todo |-> {}, found |-> NothingFound]
  <2>1. /\ qcall[c] = QIdle /\ Loadable /\ qcall' = [qcall EXCEPT ![c] = call]
        /\ UNCHANGED <<moments, published, pointer, flat, gwal, glease, swap>>
    BY <1>15 DEF StartQuery
  <2>2. pointer \in Snapshots
    BY <1>0, <2>1 DEF Loadable
  <2>3. call \in Queries
    BY <1>0, <2>2 DEF Queries, NothingFound, CodeFiles
  <2>4. PICK y \in Queries : /\ y.step = "list" /\ y.since = Len(moments) /\ y.judged = pointer /\ y.snap = pointer
                             /\ y.names = CodePaths /\ qcall' = [qcall EXCEPT ![c] = y]
    BY <2>1, <2>3
  <2>5. /\ qcall'[c] = y /\ \A d \in Callers : d # c => qcall'[d] = qcall[d]
        /\ qcall' \in [Callers -> {QIdle} \cup Builds \cup Queries]
    BY <1>0, <2>4
  <2>6. QueryStands(moments, y)
    BY <1>0, <2>4 DEF QueryStands, DoneSeen
  <2>7. ~Building(c)' /\ ~Building(c) /\ ~Asking(c)
    BY <2>1, <2>5 DEF Building, Asking, Queries
  <2>8. \A d \in Callers : d # c => (Building(d)' <=> Building(d)) /\ (Asking(d)' <=> Asking(d))
    BY <2>5 DEF Building, Asking
  <2>9. \A d \in Callers : Building(d)' => Building(d) /\ qcall'[d] = qcall[d]
    BY <2>5, <2>7, <2>8
  <2>10. \A d \in Callers : Asking(d)' => QueryStands(moments', qcall'[d])
    BY <2>1, <2>5, <2>6, <2>8 DEF GraphInv
  <2>11. GraphTypeOK'
    BY <1>0, <2>1, <2>5 DEF GraphTypeOK
  <2>12. \A d \in Callers : Building(d)' =>
           /\ qcall'[d].fence <= glease'.fence
           /\ qcall'[d].fence = glease'.fence => BuildStands(moments', qcall'[d], swap'.last)
           /\ \A e \in Callers : Building(e)' /\ qcall'[e].fence = qcall'[d].fence => e = d
    BY <2>1, <2>9 DEF GraphInv
  <2>. QED  BY <1>0, <2>1, <2>10, <2>11, <2>12 DEF GraphInv
<1>16. ASSUME NEW c \in Callers, CompareStatus(c) PROVE GraphInv'
  <2> DEFINE x == qcall[c]
  <2>1. /\ x.step = "read" /\ x.todo = {} /\ x.pass = "query" /\ NotBuilding
        /\ (x.found = x.snap.files /\ QGo(c, "wal")) \/ QEnd(c)
    BY <1>16 DEF CompareStatus
  <2>2. Asking(c) /\ x \in Queries /\ QueryStands(moments, x)
    BY <1>a, <1>b, <2>1 DEF Building
  <2>3. CASE QEnd(c)
    BY <1>h, <1>n, <2>1, <2>3
  <2>4. CASE x.found = x.snap.files /\ QGo(c, "wal")
    <3>1. x.names = {} /\ x.snap = x.judged /\ DoneSeen(moments, x, x.since)
      BY <2>1, <2>2 DEF QueryStands
    <3>2. AllSeen(moments, x.judged, x.since, Len(moments))
      BY <2>1, <2>4, <3>1 DEF AllSeen, DoneSeen
    <3>. QED  BY <1>q, <2>1, <2>2, <2>4, <3>2
  <2>. QED  BY <2>1, <2>3, <2>4
<1>17. ASSUME NEW c \in Callers, ReadLog(c) PROVE GraphInv'
  <2>1. qcall[c].step = "wal" /\ NotBuilding /\ (QGo(c, "git") \/ QEnd(c))
    BY <1>17 DEF ReadLog
  <2>2. CASE QEnd(c)
    BY <1>h, <1>n, <2>1, <2>2
  <2>3. CASE ~QEnd(c)
    <3>1. qcall[c].step = "wal" /\ NotBuilding /\ QGo(c, "git")
      BY <2>1, <2>3
    <3>2. Asking(c) /\ qcall[c] \in Queries /\ QueryStands(moments, qcall[c])
      BY <1>a, <1>b, <3>1 DEF Builds
    <3>3. AllSeen(moments, qcall[c].judged, qcall[c].since, Len(moments))
      BY <3>1, <3>2 DEF QueryStands
    <3>. QED  BY <1>q, <3>1, <3>2, <3>3
  <2>. QED  BY <2>2, <2>3
<1>18. ASSUME NEW c \in Callers, CompareHead(c) PROVE GraphInv'
  <2> DEFINE x == qcall[c]
  <2>1. /\ x.step = "git" /\ NotBuilding
        /\ (Now.head = x.snap.head /\ QGo(c, "answer")) \/ QEnd(c)
    BY <1>18 DEF CompareHead, GitHead
  <2>2. Asking(c) /\ x \in Queries /\ QueryStands(moments, x)
    BY <1>a, <1>b, <2>1 DEF Builds
  <2>3. CASE QEnd(c)
    BY <1>h, <1>n, <2>1, <2>3
  <2>4. CASE Now.head = x.snap.head /\ QGo(c, "answer")
    <3>1. x.since \in 1 .. Len(moments) /\ x.snap = x.judged /\ AllSeen(moments, x.judged, x.since, Len(moments))
      BY <2>1, <2>2 DEF QueryStands
    <3>2. Len(moments) \in x.since .. Len(moments) /\ moments[Len(moments)].head = x.judged.head
      BY <1>0, <1>c, <2>4, <3>1
    <3>3. \E k \in x.since .. Len(moments) : moments[k].head = x.judged.head
      BY <3>2
    <3>. QED  BY <1>q, <2>1, <2>2, <2>4, <3>1, <3>3
  <2>. QED  BY <2>1, <2>3, <2>4
<1>19. ASSUME NEW c \in Callers, Answer(c) PROVE GraphInv'
  <2> DEFINE x == qcall[c]
             call == [x EXCEPT !.step = "answered", !.snap = pointer]
  <2>1. x.step = "answer" /\ NotBuilding /\ qcall' = [qcall EXCEPT ![c].step = "answered", ![c].snap = pointer]
    BY <1>19 DEF Answer
  <2>2. Asking(c) /\ x \in Queries /\ QueryStands(moments, x)
    BY <1>a, <1>b, <2>1 DEF Builds
  <2>3. call \in Queries /\ call.step = "answered" /\ call.since = x.since /\ call.judged = x.judged
    BY <1>0, <2>2 DEF Queries
  <2>4. qcall' = [qcall EXCEPT ![c] = call]
    BY <1>0, <2>1
  <2>5. PICK y \in Queries : y.step = "answered" /\ y.since = x.since /\ y.judged = x.judged /\ qcall' = [qcall EXCEPT ![c] = y]
    BY <2>3, <2>4
  <2>6. QueryStands(moments, y)
    BY <2>1, <2>2, <2>5 DEF QueryStands
  <2>. QED  BY <1>n, <2>1, <2>2, <2>5, <2>6, GraphCallMoves
<1>20. ASSUME NEW c \in Callers, Answered(c) PROVE GraphInv'
  BY <1>h, <1>n, <1>20 DEF Answered
<1>21. CASE EditCode
  <2> DEFINE n == Len(moments)
  <2>1. PICK x \in Moments : moments' = Append(moments, x)
    <3>1. CASE \E p \in CodePaths, text \in CodeTexts \cup {Gone} : moments' = Append(moments, [Now EXCEPT !.files[p] = text])
      <4>1. PICK p \in CodePaths, text \in CodeTexts \cup {Gone} : moments' = Append(moments, [Now EXCEPT !.files[p] = text])
        BY <3>1
      <4>2. [Now EXCEPT !.files[p] = text] \in Moments
        BY <1>c DEF Moments, CodeFiles
      <4>. QED  BY <4>1, <4>2
    <3>2. CASE \E h \in Heads \ {Now.head} : moments' = Append(moments, [Now EXCEPT !.head = h])
      <4>1. PICK h \in Heads : moments' = Append(moments, [Now EXCEPT !.head = h])
        BY <3>2
      <4>2. [Now EXCEPT !.head = h] \in Moments
        BY <1>c DEF Moments
      <4>. QED  BY <4>1, <4>2
    <3>. QED  BY <1>21, <3>1, <3>2 DEF EditCode
  <2>2. UNCHANGED <<published, pointer, flat, gwal, glease, qcall, swap>>
    BY <1>21 DEF EditCode
  <2>3. moments' \in Seq(Moments) /\ moments' # <<>> /\ Len(moments') = n + 1 /\ Later(moments, moments')
    BY <1>0, <2>1 DEF Later
  <2>4. GraphTypeOK'
    BY <1>0, <2>2, <2>3 DEF GraphTypeOK
  <2>5. \A d \in Callers : (Building(d)' <=> Building(d)) /\ (Asking(d)' <=> Asking(d))
    BY <2>2 DEF Building, Asking
  <2>6. \A d \in Callers : BuildStands(moments, qcall[d], swap.last) => BuildStands(moments', qcall[d], swap.last)
    BY <1>0, <2>3, BuildStandsLater
  <2>7. \A d \in Callers : QueryStands(moments, qcall[d]) => QueryStands(moments', qcall[d])
    BY <1>0, <2>3, QueryStandsLater
  <2>8. pointer' # NoSnapshot => SeenAround(moments', pointer', swap'.before, swap'.last)
    BY <1>0, <2>2, <2>3, AroundLater DEF GraphInv
  <2>9. \A d \in Callers : Building(d)' =>
          /\ qcall'[d].fence <= glease'.fence
          /\ qcall'[d].fence = glease'.fence => BuildStands(moments', qcall'[d], swap'.last)
          /\ \A e \in Callers : Building(e)' /\ qcall'[e].fence = qcall'[d].fence => e = d
    BY <2>2, <2>5, <2>6 DEF GraphInv
  <2>10. \A d \in Callers : Asking(d)' => QueryStands(moments', qcall'[d])
    BY <2>2, <2>5, <2>7 DEF GraphInv
  <2>11. 1 <= swap'.before /\ swap'.before <= swap'.last /\ swap'.last <= Len(moments')
    <3>1. swap'.before = swap.before /\ swap'.last = swap.last /\ Len(moments') = Len(moments) + 1
      BY <2>2, <2>3
    <3>2. 1 <= swap.before /\ swap.before <= swap.last /\ swap.last <= Len(moments) /\ swap.last \in Nat
      BY <1>0 DEF GraphInv
    <3>3. swap.last <= Len(moments) + 1
      BY <1>0, <3>2
    <3>. QED  BY <3>1, <3>2, <3>3
  <2>. QED  BY <2>4, <2>8, <2>9, <2>10, <2>11 DEF GraphInv
<1>22. CASE GraphLeaseExpires
  <2>1. glease' = [glease EXCEPT !.live = FALSE] /\ UNCHANGED <<moments, published, pointer, flat, gwal, qcall, swap>>
    BY <1>22 DEF GraphLeaseExpires
  <2>2. glease'.fence = glease.fence /\ glease' \in [fence : Nat, live : BOOLEAN, guard : Callers \cup {Open}]
    BY <1>0, <2>1
  <2>3. GraphTypeOK'
    BY <1>0, <2>1, <2>2 DEF GraphTypeOK
  <2>4. \A d \in Callers : (Building(d)' <=> Building(d)) /\ (Asking(d)' <=> Asking(d))
    BY <2>1 DEF Building, Asking
  <2>. QED  BY <1>0, <2>1, <2>2, <2>3, <2>4 DEF GraphInv
<1>. QED  BY <1>1, <1>2, <1>3, <1>4, <1>5, <1>6, <1>7, <1>8, <1>9, <1>10, <1>11, <1>12, <1>13, <1>14, <1>15, <1>16,
             <1>17, <1>18, <1>19, <1>20, <1>21, <1>22 DEF GraphNext

\* What CURRENT describes was there, file by file, around a moment of its Git
\* head since CURRENT was last something else, and what a query judged current
\* was there, file by file, since it was asked: whatever people edit or put
\* back, and however late builders are (_build and current_snapshot of
\* codegraph/projection.py).
THEOREM GraphAnswersCurrent == Spec => []AnswersCurrent
<1>1. Init => GraphInv
  BY GraphInvInit DEF Init
<1>2. GraphInv /\ [Next]_vars => GraphInv'
  BY AreaSteps, GraphInvStep
<1>3. GraphInv => AnswersCurrent
  <2> SUFFICES ASSUME GraphInv PROVE AnswersCurrent
    OBVIOUS
  <2>1. ASSUME NEW c \in Callers, qcall[c].step = "answered" PROVE Asking(c)
    <3>1. qcall[c] \in {QIdle} \cup Builds \cup Queries
      BY DEF GraphInv, GraphTypeOK
    <3>. QED  BY <2>1, <3>1 DEF Asking, Builds, Queries, QIdle
  <2>. QED  BY <2>1 DEF AnswersCurrent, GraphInv, QueryStands
<1>. QED  BY <1>1, <1>2, <1>3, PTL DEF Spec

-----------------------------------------------------------------------------
(* Installation                                                            *)

\* The files chosen are in order, each of them one of the files given.
LEMMA ChosenInOrder ==
    ASSUME NEW fs \in SUBSET TemplateFiles
    PROVE  InOrder(fs) \in Seq(fs)
<1>1. \A f \in TemplateFiles : Only(f, fs) \in Seq(fs)
  BY DEF Only
<1>2. \A i \in 1 .. 4 : FileOrder[i] \in TemplateFiles
  BY DEF TemplateFiles, FileOrder
<1>3. \A s, t \in Seq(fs) : s \o t \in Seq(fs)
  OBVIOUS
<1>4. /\ Only(FileOrder[1], fs) \in Seq(fs) /\ Only(FileOrder[2], fs) \in Seq(fs)
      /\ Only(FileOrder[3], fs) \in Seq(fs) /\ Only(FileOrder[4], fs) \in Seq(fs)
  BY <1>1, <1>2
<1>. QED  BY <1>3, <1>4, Zenon DEF InOrder

\* Nothing is installed, and what is there is the user's.
LEMMA InstallInvInit == InstallInit => InstallInv
<1> SUFFICES ASSUME InstallInit PROVE InstallInv
  OBVIOUS
<1> DEFINE t == CHOOSE u \in UserTexts : TRUE
<1>0. t \in UserTexts
  BY InstallAssumption
<1>1. PICK fs \in SUBSET {"agents", "readme"} :
        /\ target = [f \in TemplateFiles |-> IF f \in fs THEN UsersFile(t) ELSE NothingThere]
        /\ theirs = [f \in TemplateFiles |-> IF f \in fs THEN [text |-> t, quiet |-> TRUE] ELSE NotTheirs]
  BY Zenon DEF InstallInit
<1> HIDE DEF t
<1>2. UsersFile(t) \in InstallFiles /\ UsersFile(t).own = t /\ NothingThere \in InstallFiles
  BY <1>0 DEF UsersFile, NothingThere, InstallFiles
<1>3. /\ [text |-> t, quiet |-> TRUE] \in TheirTexts /\ [text |-> t, quiet |-> TRUE].text = t
      /\ NotTheirs \in TheirTexts /\ ~NotTheirs.quiet
  BY <1>0 DEF NotTheirs, TheirTexts
<1>4. target \in [TemplateFiles -> InstallFiles] /\ theirs \in [TemplateFiles -> TheirTexts]
  BY <1>1, <1>2, <1>3
<1>5. /\ ledgerAt \in {"none", "ours", "users"} /\ installed = NotInstalled
      /\ icall = [c \in Callers |-> InIdle]
  BY DEF InstallInit
<1>6. InstallTypeOK
  BY <1>4, <1>5 DEF InstallTypeOK
<1>7. UsersFilesKept
  BY <1>1, <1>2, <1>3 DEF UsersFilesKept
<1>. QED  BY <1>5, <1>6, <1>7 DEF InstallInv, Recorded

\* A step that keeps what the user wrote, leaves it out of the record and goes on
\* to a call that stands.
LEMMA InstallCallMoves ==
    ASSUME InstallInv, NEW c \in Callers, NEW call \in {InIdle} \cup InstallCalls,
           icall' = [icall EXCEPT ![c] = call], UNCHANGED theirs,
           target' \in [TemplateFiles -> InstallFiles],
           \A f \in TemplateFiles : theirs[f].quiet => target'[f].own = theirs[f].text,
           ledgerAt' \in {"none", "ours", "users"}, installed' \in {NotInstalled} \cup Installations,
           \A f \in TemplateFiles : theirs[f].quiet => installed' = NotInstalled \/ f \notin installed'.created,
           call # InIdle => InstallCallStands(call, theirs)
    PROVE  InstallInv'
<1>1. icall \in [Callers -> {InIdle} \cup InstallCalls] /\ theirs \in [TemplateFiles -> TheirTexts]
  BY DEF InstallInv, InstallTypeOK
<1>2. icall' \in [Callers -> {InIdle} \cup InstallCalls] /\ \A d \in Callers : icall'[d] = IF d = c THEN call ELSE icall[d]
  BY <1>1
<1>3. InstallTypeOK'
  BY <1>1, <1>2 DEF InstallTypeOK
<1>4. \A d \in Callers : icall'[d] # InIdle => InstallCallStands(icall'[d], theirs)
  BY <1>2 DEF InstallInv
<1>5. UsersFilesKept' /\ \A f \in TemplateFiles : theirs'[f].quiet => ~Recorded(f)'
  BY DEF UsersFilesKept, Recorded
<1>. QED  BY <1>3, <1>4, <1>5 DEF InstallInv

\* How a call goes on: its step, what it has read and what is left to do.
LEMMA InstallCallGoes ==
    ASSUME NEW x \in InstallCalls, NEW step \in InstallSteps, NEW todo \in Seq(TemplateFiles), NEW got \in InstallFiles
    PROVE  LET y == [x EXCEPT !.step = step, !.todo = todo, !.got = got] IN
           y \in InstallCalls /\ y.step = step /\ y.todo = todo /\ y.got = got /\ y.create = x.create /\ y.merge = x.merge
BY DEF InstallCalls

\* A call begins with the files sorted and none read.
LEMMA InstallCallBegins ==
    ASSUME NEW step \in InstallSteps, NEW create \in SUBSET TemplateFiles, NEW merge \in SUBSET TemplateFiles,
           NEW todo \in Seq(TemplateFiles)
    PROVE  LET y == NewCall(step, create, merge, todo) IN
           y \in InstallCalls /\ y.step = step /\ y.todo = todo /\ y.create = create
<1>1. NothingThere \in InstallFiles
  BY DEF NothingThere, InstallFiles
<1>. QED  BY <1>1 DEF NewCall, InstallCalls

\* Every step of installations, removals and the user keeps the invariant.
LEMMA InstallInvStep == InstallInv /\ [InstallNext]_ivars => InstallInv'
<1> SUFFICES ASSUME InstallInv, [InstallNext]_ivars PROVE InstallInv'
  OBVIOUS
<1>0. /\ target \in [TemplateFiles -> InstallFiles] /\ ledgerAt \in {"none", "ours", "users"}
      /\ installed \in {NotInstalled} \cup Installations
      /\ icall \in [Callers -> {InIdle} \cup InstallCalls] /\ theirs \in [TemplateFiles -> TheirTexts]
      /\ \A f \in TemplateFiles : theirs[f].quiet => /\ target[f].own = theirs[f].text
                                                     /\ installed = NotInstalled \/ f \notin installed.created
  BY DEF InstallInv, InstallTypeOK, UsersFilesKept, Recorded
<1>a. /\ Missing \in SUBSET TemplateFiles /\ Differs \in SUBSET TemplateFiles
      /\ \A f \in Missing : ~theirs[f].quiet
  <2>1. \A f \in TemplateFiles : theirs[f].quiet => theirs[f].text \in UserTexts
    BY <1>0 DEF TheirTexts, NotTheirs
  <2>2. NothingThere.own \notin UserTexts
    BY InstallAssumption DEF NothingThere
  <2>. QED  BY <1>0, <2>1, <2>2 DEF Missing, Differs
<1>b. ASSUME NEW c \in Callers, icall[c].step # "idle"
      PROVE  icall[c] # InIdle /\ icall[c] \in InstallCalls /\ InstallCallStands(icall[c], theirs)
  BY <1>0, <1>b DEF InIdle, InstallInv
<1>c. OurFile \in InstallFiles /\ NothingThere \in InstallFiles /\ InIdle.step = "idle"
  BY DEF OurFile, NothingThere, InstallFiles, InIdle
<1>d. ASSUME NEW x \in InstallCalls
      PROVE  /\ x.create \in SUBSET TemplateFiles /\ x.merge \in SUBSET TemplateFiles
             /\ x.todo \in Seq(TemplateFiles) /\ x.got \in InstallFiles /\ x.step \in InstallSteps
             /\ x.todo # <<>> => Head(x.todo) \in TemplateFiles /\ Tail(x.todo) \in Seq(TemplateFiles)
  BY DEF InstallCalls
\* A call that ends, and one that goes on, with what it may leave behind.
<1>e. ASSUME NEW c \in Callers, InEnd(c), UNCHANGED <<target, theirs>>,
             ledgerAt' \in {"none", "ours", "users"}, installed' \in {NotInstalled} \cup Installations,
             \A f \in TemplateFiles : theirs[f].quiet => installed' = NotInstalled \/ f \notin installed'.created
      PROVE  InstallInv'
  BY <1>0, <1>e, InstallCallMoves DEF InEnd
<1>f. ASSUME NEW c \in Callers, NEW y \in InstallCalls, icall' = [icall EXCEPT ![c] = y],
             InstallCallStands(y, theirs), UNCHANGED <<installed, theirs>>, ledgerAt' \in {"none", "ours", "users"},
             target' \in [TemplateFiles -> InstallFiles],
             \A f \in TemplateFiles : theirs[f].quiet => target'[f].own = theirs[f].text
      PROVE  InstallInv'
  BY <1>0, <1>f, InstallCallMoves DEF InIdle, InstallCalls, InstallSteps
<1>1. CASE UNCHANGED ivars
  BY <1>1 DEF ivars, InstallInv, InstallTypeOK, UsersFilesKept, Recorded
<1>2. ASSUME NEW c \in Callers, NEW confirm, StartInstall(c, confirm) PROVE InstallInv'
  <2> DEFINE call == NewCall("classify", {}, {}, <<>>)
  <2>1. icall' = [icall EXCEPT ![c] = call] /\ UNCHANGED <<target, ledgerAt, installed, theirs>>
    BY <1>2 DEF StartInstall, InstallCall
  <2>2. call \in InstallCalls /\ call.step = "classify" /\ call.create = {}
    <3>1. "classify" \in InstallSteps /\ {} \in SUBSET TemplateFiles /\ <<>> \in Seq(TemplateFiles)
      BY DEF InstallSteps
    <3>. QED  BY <1>c, <3>1 DEF NewCall, InstallCalls
  <2>3. InstallCallStands(call, theirs)
    BY <2>2 DEF InstallCallStands
  <2> HIDE DEF call
  <2>. QED  BY <1>0, <1>f, <2>1, <2>2, <2>3
<1>3. ASSUME NEW c \in Callers, Classify(c) PROVE InstallInv'
  <2> DEFINE merge == Differs \cap MergeIfExists
             todo == InOrder(Missing) \o InOrder(merge)
             call == NewCall("write", Missing, merge, todo)
  <2>1. UNCHANGED <<target, ledgerAt, installed, theirs>> /\ (InEnd(c) \/ icall' = [icall EXCEPT ![c] = call])
    BY <1>3 DEF Classify
  <2>2. merge \in SUBSET TemplateFiles
    BY <1>a
  <2>3. todo \in Seq(TemplateFiles)
    BY <1>a, <2>2, ChosenInOrder
  <2>4. call \in InstallCalls /\ call.create = Missing /\ call.step = "write"
    <3>1. "write" \in InstallSteps /\ Missing \in SUBSET TemplateFiles
      BY <1>a DEF InstallSteps
    <3> HIDE DEF merge
    <3> HIDE DEF merge, todo
    <3>. QED  BY <1>c, <2>2, <2>3, <3>1 DEF NewCall, InstallCalls
  <2>5. InstallCallStands(call, theirs)
    BY <1>a, <2>4 DEF InstallCallStands
  <2>6. CASE InEnd(c)
    BY <1>0, <1>e, <2>1, <2>6
  <2> HIDE DEF call
  <2>7. CASE icall' = [icall EXCEPT ![c] = call]
    BY <1>0, <1>f, <2>1, <2>4, <2>5, <2>7
  <2>. QED  BY <2>1, <2>6, <2>7
\* A file is read, to be written back: the user's text is in what was read.
<1>4. ASSUME NEW c \in Callers, NEW step \in {"merging", "stripping"}, icall[c].step \in {"write", "remove"},
             icall[c].todo # <<>>, icall' = [icall EXCEPT ![c].step = step, ![c].got = target[Head(icall[c].todo)]],
             UNCHANGED <<target, ledgerAt, installed, theirs>>
      PROVE  InstallInv'
  <2> DEFINE f == Head(icall[c].todo)
  <2>1. icall[c] \in InstallCalls /\ InstallCallStands(icall[c], theirs) /\ f \in TemplateFiles /\ target[f] \in InstallFiles
    BY <1>0, <1>4, <1>b, <1>d
  <2>2. PICK y \in InstallCalls : /\ icall' = [icall EXCEPT ![c] = y] /\ y.step = step /\ y.got = target[f]
                                  /\ y.todo = icall[c].todo /\ y.create = icall[c].create
    <3> DEFINE y == [icall[c] EXCEPT !.step = step, !.got = target[f]]
    <3>1. y \in InstallCalls /\ y.step = step /\ y.got = target[f] /\ y.todo = icall[c].todo /\ y.create = icall[c].create
      BY <2>1 DEF InstallCalls, InstallSteps
    <3>2. icall' = [icall EXCEPT ![c] = y]
      BY <1>0, <1>4
    <3>. QED  BY <3>1, <3>2
  <2>3. InstallCallStands(y, theirs)
    BY <1>0, <1>4, <2>1, <2>2 DEF InstallCallStands
  <2>. QED  BY <1>0, <1>4, <1>f, <2>2, <2>3
\* A file of the call's own is written or removed, or what was read is written
\* back; then comes the next file.
<1>5. ASSUME NEW c \in Callers, NEW step \in {"write", "init", "remove"}, NEW f, NEW file \in InstallFiles,
             icall[c].step # "idle", icall[c].todo # <<>>, f = Head(icall[c].todo),
             step = "init" => icall[c].step = "initwrite",
             theirs[f].quiet => file.own = theirs[f].text,
             icall' = [icall EXCEPT ![c].step = step, ![c].todo = Tail(icall[c].todo)],
             target' = [target EXCEPT ![f] = file], UNCHANGED <<ledgerAt, installed, theirs>>
      PROVE  InstallInv'
  <2>1. /\ icall[c] \in InstallCalls /\ InstallCallStands(icall[c], theirs)
        /\ f \in TemplateFiles /\ Tail(icall[c].todo) \in Seq(TemplateFiles)
    BY <1>5, <1>b, <1>d
  <2>2. PICK y \in InstallCalls : /\ icall' = [icall EXCEPT ![c] = y] /\ y.step = step
                                  /\ y.todo = Tail(icall[c].todo) /\ y.create = icall[c].create
    <3> DEFINE y == [icall[c] EXCEPT !.step = step, !.todo = Tail(icall[c].todo)]
    <3>1. y \in InstallCalls /\ y.step = step /\ y.todo = Tail(icall[c].todo) /\ y.create = icall[c].create
      BY <2>1 DEF InstallCalls, InstallSteps
    <3>2. icall' = [icall EXCEPT ![c] = y]
      BY <1>0, <1>5
    <3>. QED  BY <3>1, <3>2
  <2>3. \A S, s : s \in Seq(S) /\ s # <<>> => Tail(s) \in Seq(S)
    OBVIOUS
  <2>4. InstallCallStands(y, theirs)
    <3>1. y.step \notin {"initwrite", "merging", "stripping"}
      BY <2>2
    <3>2. y.step = "init" => y.todo \in Seq(y.create)
      <4> SUFFICES ASSUME y.step = "init" PROVE y.todo \in Seq(y.create)
        OBVIOUS
      <4>1. icall[c].step = "initwrite"
        BY <1>5, <2>2
      <4>2. icall[c].todo \in Seq(icall[c].create) /\ icall[c].todo # <<>>
        BY <2>1, <4>1 DEF InstallCallStands
      <4>. QED  BY <2>2, <2>3, <4>2
    <3>. QED  BY <2>1, <2>2, <3>1, <3>2 DEF InstallCallStands
  <2>5. target' \in [TemplateFiles -> InstallFiles] /\ \A g \in TemplateFiles : theirs[g].quiet => target'[g].own = theirs[g].text
    BY <1>0, <1>5, <2>1
  <2>. QED  BY <1>0, <1>5, <1>f, <2>2, <2>4, <2>5
<1>6. ASSUME NEW c \in Callers, WriteFile(c) PROVE InstallInv'
  <2> DEFINE f == Head(icall[c].todo)
  <2>1. icall[c].step = "write" /\ icall[c].todo # <<>> /\ UNCHANGED <<ledgerAt, installed, theirs>>
    BY <1>6 DEF WriteFile
  <2>2. icall[c] \in InstallCalls /\ InstallCallStands(icall[c], theirs)
    BY <1>b, <2>1
  <2>3. CASE f \in icall[c].create
    <3>1. target' = [target EXCEPT ![f] = OurFile] /\ icall' = [icall EXCEPT ![c].todo = Tail(icall[c].todo)]
      BY <1>0, <1>6, <2>3 DEF WriteFile
    <3>2. icall' = [icall EXCEPT ![c].step = "write", ![c].todo = Tail(icall[c].todo)]
      BY <1>0, <2>1, <2>2, <3>1 DEF InstallCalls
    <3>3. ~theirs[f].quiet
      BY <2>2, <2>3 DEF InstallCallStands
    <3>. QED  BY <1>5, <1>c, <2>1, <3>1, <3>2, <3>3
  <2>4. CASE f \notin icall[c].create
    <3>1. icall' = [icall EXCEPT ![c].step = "merging", ![c].got = target[f]] /\ UNCHANGED target
      BY <1>6, <2>4 DEF WriteFile
    <3>. QED  BY <1>4, <2>1, <3>1
  <2>. QED  BY <2>3, <2>4
<1>7. ASSUME NEW c \in Callers, MergeFile(c) \/ StripFile(c) PROVE InstallInv'
  <2> DEFINE f == Head(icall[c].todo)
             got == icall[c].got
  <2>1. icall[c].step \in {"merging", "stripping"} /\ UNCHANGED <<ledgerAt, installed, theirs>>
    BY <1>7 DEF MergeFile, StripFile
  <2>2. icall[c] \in InstallCalls /\ InstallCallStands(icall[c], theirs) /\ got \in InstallFiles
    BY <1>b, <1>d, <2>1
  <2>3. icall[c].todo # <<>> /\ (theirs[f].quiet => got.own = theirs[f].text)
    BY <2>1, <2>2 DEF InstallCallStands
  <2>4. f \in TemplateFiles
    BY <1>d, <2>2, <2>3
  <2>5. theirs[f].quiet => theirs[f].text \in UserTexts
    BY <1>0, <2>4 DEF TheirTexts, NotTheirs
  <2>6. /\ Merged(got) \in InstallFiles /\ [got EXCEPT !.block = FALSE] \in InstallFiles
        /\ [got EXCEPT !.block = FALSE].own = got.own /\ (got.own # "none" => Merged(got).own = got.own)
    BY <2>2 DEF Merged, InstallFiles
  <2>7. theirs[f].quiet => Merged(got).own = theirs[f].text /\ [got EXCEPT !.block = FALSE].own = theirs[f].text
    BY <2>3, <2>5, <2>6, InstallAssumption
  <2>8. PICK file \in InstallFiles, step \in {"write", "remove"} :
          /\ theirs[f].quiet => file.own = theirs[f].text
          /\ icall' = [icall EXCEPT ![c].step = step, ![c].todo = Tail(icall[c].todo)]
          /\ target' = [target EXCEPT ![f] = file]
    <3>1. CASE MergeFile(c)
      <4>1. icall' = [icall EXCEPT ![c].step = "write", ![c].todo = Tail(icall[c].todo)] /\ target' = [target EXCEPT ![f] = Merged(got)]
        BY <1>0, <3>1 DEF MergeFile
      <4>. QED  BY <2>6, <2>7, <4>1
    <3>2. CASE StripFile(c)
      <4>1. /\ icall' = [icall EXCEPT ![c].step = "remove", ![c].todo = Tail(icall[c].todo)]
            /\ target' = [target EXCEPT ![f] = [got EXCEPT !.block = FALSE]]
        BY <1>0, <3>2 DEF StripFile
      <4>. QED  BY <2>6, <2>7, <4>1
    <3>. QED  BY <1>7, <3>1, <3>2
  <2>. QED  BY <1>5, <2>1, <2>3, <2>8
<1>8. ASSUME NEW c \in Callers, SeedGenesis(c) PROVE InstallInv'
  <2>1. icall[c].step = "write" /\ ledgerAt' = "ours" /\ UNCHANGED <<target, installed, theirs>>
        /\ icall' = [icall EXCEPT ![c].step = "record"]
    BY <1>8 DEF SeedGenesis, InGo
  <2>2. icall[c] \in InstallCalls /\ InstallCallStands(icall[c], theirs)
    BY <1>b, <2>1
  <2>3. PICK y \in InstallCalls : icall' = [icall EXCEPT ![c] = y] /\ y.step = "record" /\ y.create = icall[c].create
    <3>1. /\ [icall[c] EXCEPT !.step = "record"] \in InstallCalls /\ [icall[c] EXCEPT !.step = "record"].step = "record"
          /\ [icall[c] EXCEPT !.step = "record"].create = icall[c].create
      BY <2>2 DEF InstallCalls, InstallSteps
    <3>. QED  BY <1>0, <2>1, <3>1
  <2>4. InstallCallStands(y, theirs)
    BY <2>2, <2>3 DEF InstallCallStands
  <2>. QED  BY <1>0, <1>f, <2>1, <2>3, <2>4
<1>9. ASSUME NEW c \in Callers, WriteInstallation(c) PROVE InstallInv'
  <2>1. icall[c].step = "record" /\ InEnd(c) /\ UNCHANGED <<target, ledgerAt, theirs>>
        /\ installed' = [state |-> "installed", created |-> icall[c].create, merged |-> icall[c].merge]
    BY <1>9 DEF WriteInstallation, Created
  <2>2. icall[c] \in InstallCalls /\ InstallCallStands(icall[c], theirs)
    BY <1>b, <2>1
  <2>3. installed' \in Installations /\ installed'.created = icall[c].create
    BY <1>d, <2>1, <2>2 DEF Installations
  <2>4. \A f \in TemplateFiles : theirs[f].quiet => f \notin installed'.created
    BY <2>2, <2>3 DEF InstallCallStands
  <2>. QED  BY <1>0, <1>e, <2>1, <2>3, <2>4
<1>10. ASSUME NEW c \in Callers, StartInit(c) PROVE InstallInv'
  <2> DEFINE call == NewCall("init", Missing, {}, InOrder(Missing))
  <2>1. icall' = [icall EXCEPT ![c] = call] /\ UNCHANGED <<target, ledgerAt, installed, theirs>>
    BY <1>10 DEF StartInit, InstallCall
  <2>2. InOrder(Missing) \in Seq(Missing) /\ InOrder(Missing) \in Seq(TemplateFiles)
    BY <1>a, ChosenInOrder
  <2>3. call \in InstallCalls /\ call.create = Missing /\ call.todo \in Seq(call.create) /\ call.step = "init"
    BY <1>a, <2>2, InstallCallBegins DEF InstallSteps
  <2>4. InstallCallStands(call, theirs)
    BY <1>a, <2>3 DEF InstallCallStands
  <2> HIDE DEF call
  <2>. QED  BY <1>0, <1>f, <2>1, <2>3, <2>4
<1>11. ASSUME NEW c \in Callers, InitFile(c) PROVE InstallInv'
  <2>1. icall[c].step = "init" /\ UNCHANGED <<target, ledgerAt, installed, theirs>>
        /\ (InEnd(c) \/ (icall[c].todo # <<>> /\ icall' = [icall EXCEPT ![c].step = "initwrite"]))
    BY <1>11 DEF InitFile, InGo
  <2>2. icall[c] \in InstallCalls /\ InstallCallStands(icall[c], theirs)
    BY <1>b, <2>1
  <2>3. CASE InEnd(c)
    BY <1>0, <1>e, <2>1, <2>3
  <2>4. CASE icall[c].todo # <<>> /\ icall' = [icall EXCEPT ![c].step = "initwrite"]
    <3>1. PICK y \in InstallCalls : /\ icall' = [icall EXCEPT ![c] = y] /\ y.step = "initwrite"
                                    /\ y.create = icall[c].create /\ y.todo = icall[c].todo
      <4> DEFINE y == [icall[c] EXCEPT !.step = "initwrite"]
      <4>1. y \in InstallCalls /\ y.step = "initwrite" /\ y.create = icall[c].create /\ y.todo = icall[c].todo
        BY <2>2 DEF InstallCalls, InstallSteps
      <4>. QED  BY <1>0, <2>4, <4>1
    <3>2. InstallCallStands(y, theirs)
      BY <2>1, <2>2, <2>4, <3>1 DEF InstallCallStands
    <3>. QED  BY <1>0, <1>f, <2>1, <3>1, <3>2
  <2>. QED  BY <2>1, <2>3, <2>4
<1>12. ASSUME NEW c \in Callers, InitWrite(c) PROVE InstallInv'
  <2> DEFINE f == Head(icall[c].todo)
  <2>1. /\ icall[c].step = "initwrite" /\ UNCHANGED <<ledgerAt, installed, theirs>> /\ target' = [target EXCEPT ![f] = OurFile]
        /\ icall' = [icall EXCEPT ![c].step = "init", ![c].todo = Tail(icall[c].todo)]
    BY <1>0, <1>12 DEF InitWrite
  <2>2. InstallCallStands(icall[c], theirs)
    BY <1>b, <2>1
  <2>3. icall[c].todo \in Seq(icall[c].create) /\ icall[c].todo # <<>>
    BY <2>1, <2>2 DEF InstallCallStands
  <2>4. \A S, s : s \in Seq(S) /\ s # <<>> => Head(s) \in S
    OBVIOUS
  <2>5. ~theirs[f].quiet
    BY <2>2, <2>3, <2>4 DEF InstallCallStands
  <2>. QED  BY <1>5, <1>c, <2>1, <2>3, <2>5
<1>13. ASSUME NEW c \in Callers, StartUninstall(c) PROVE InstallInv'
  <2> DEFINE todo == InOrder(installed.created) \o InOrder(installed.merged)
             call == NewCall("remove", installed.created, installed.merged, todo)
  <2>1. installed # NotInstalled /\ icall' = [icall EXCEPT ![c] = call] /\ UNCHANGED <<target, ledgerAt, installed, theirs>>
    BY <1>13 DEF StartUninstall, InstallCall
  <2>2. installed.created \in SUBSET TemplateFiles /\ installed.merged \in SUBSET TemplateFiles
    BY <1>0, <2>1 DEF Installations
  <2>3. todo \in Seq(TemplateFiles)
    BY <2>2, ChosenInOrder
  <2> HIDE DEF todo
  <2>4. call \in InstallCalls /\ call.create = installed.created /\ call.step = "remove"
    BY <2>2, <2>3, InstallCallBegins DEF InstallSteps
  <2>5. InstallCallStands(call, theirs)
    BY <1>0, <2>1, <2>2, <2>4 DEF InstallCallStands
  <2> HIDE DEF call
  <2>. QED  BY <1>0, <1>f, <2>1, <2>4, <2>5
<1>14. ASSUME NEW c \in Callers, RemoveFile(c) PROVE InstallInv'
  <2> DEFINE f == Head(icall[c].todo)
  <2>1. icall[c].step = "remove" /\ icall[c].todo # <<>> /\ UNCHANGED <<ledgerAt, installed, theirs>>
    BY <1>14 DEF RemoveFile
  <2>2. icall[c] \in InstallCalls /\ InstallCallStands(icall[c], theirs) /\ f \in TemplateFiles
    BY <1>b, <1>d, <2>1
  <2>3. CASE f \in icall[c].create \/ target[f] = NothingThere
    <3>1. /\ target' = [target EXCEPT ![f] = NothingThere]
          /\ icall' = [icall EXCEPT ![c].step = "remove", ![c].todo = Tail(icall[c].todo)]
      <4>1. icall' = [icall EXCEPT ![c].todo = Tail(icall[c].todo)] /\ target' = [target EXCEPT ![f] = NothingThere]
        BY <1>0, <1>14, <2>2, <2>3 DEF RemoveFile
      <4>. QED  BY <1>0, <2>1, <2>2, <4>1 DEF InstallCalls
    <3>2. theirs[f].quiet => NothingThere.own = theirs[f].text
      BY <1>0, <2>2, <2>3 DEF InstallCallStands
    <3>. QED  BY <1>5, <1>c, <2>1, <3>1, <3>2
  <2>4. CASE ~(f \in icall[c].create \/ target[f] = NothingThere)
    <3>1. icall' = [icall EXCEPT ![c].step = "stripping", ![c].got = target[f]] /\ UNCHANGED target
      BY <1>14, <2>4 DEF RemoveFile
    <3>. QED  BY <1>4, <2>1, <3>1
  <2>. QED  BY <2>3, <2>4
<1>15. ASSUME NEW c \in Callers, Uninstalled(c) \/ InstallDies(c) PROVE InstallInv'
  BY <1>0, <1>15, <1>e DEF Uninstalled, InstallDies
<1>16. ASSUME NEW f \in TemplateFiles, NEW text \in UserTexts \cup {"none"}, UserEdits(f, text) PROVE InstallInv'
  <2>1. /\ target' = [target EXCEPT ![f] = IF text = "none" THEN NothingThere ELSE UsersFile(text)]
        /\ theirs' = [theirs EXCEPT ![f] = IF text = "none" \/ Recorded(f) THEN NotTheirs ELSE [text |-> text, quiet |-> Quiet]]
        /\ UNCHANGED <<ledgerAt, installed, icall>>
    BY <1>16 DEF UserEdits
  <2>2. PICK quiet \in BOOLEAN : quiet = Quiet
    BY DEF Quiet
  <2>3. PICK file \in InstallFiles, new \in TheirTexts :
          /\ target' = [target EXCEPT ![f] = file] /\ theirs' = [theirs EXCEPT ![f] = new]
          /\ new.quiet => file.own = new.text /\ ~Recorded(f) /\ Quiet
    <3>1. CASE text = "none" \/ Recorded(f)
      <4>1. (IF text = "none" THEN NothingThere ELSE UsersFile(text)) \in InstallFiles
        BY <1>c DEF UsersFile, InstallFiles
      <4>2. NotTheirs \in TheirTexts /\ ~NotTheirs.quiet
        BY DEF NotTheirs, TheirTexts
      <4>3. theirs' = [theirs EXCEPT ![f] = NotTheirs]
        BY <2>1, <3>1
      <4>. QED  BY <2>1, <4>1, <4>2, <4>3
    <3>2. CASE ~(text = "none" \/ Recorded(f))
      <4> DEFINE new == [text |-> text, quiet |-> quiet]
      <4>1. UsersFile(text) \in InstallFiles /\ UsersFile(text).own = text
        BY <3>2 DEF UsersFile, InstallFiles
      <4>2. new \in TheirTexts /\ new.text = text /\ new.quiet = quiet
        BY <3>2 DEF TheirTexts
      <4>3. theirs' = [theirs EXCEPT ![f] = new] /\ target' = [target EXCEPT ![f] = UsersFile(text)]
        BY <2>1, <2>2, <3>2
      <4>4. new.quiet => UsersFile(text).own = new.text /\ ~Recorded(f) /\ Quiet
        BY <2>2, <3>2, <4>1, <4>2
      <4> HIDE DEF new
      <4>. QED  BY <4>1, <4>2, <4>3, <4>4
    <3>. QED  BY <3>1, <3>2
  <2>4. InstallTypeOK'
    BY <1>0, <2>1, <2>3 DEF InstallTypeOK
  <2>5. UsersFilesKept' /\ \A g \in TemplateFiles : theirs'[g].quiet => ~Recorded(g)'
    BY <1>0, <2>1, <2>3 DEF UsersFilesKept, Recorded
  <2>6. ASSUME NEW c \in Callers, icall[c] # InIdle PROVE InstallCallStands(icall[c], theirs')
    <3>1. InstallCallStands(icall[c], theirs) /\ icall[c] \in InstallCalls /\ ~Quiet
      BY <1>0, <2>6 DEF InstallInv, Quiet
    <3>2. \A g \in TemplateFiles : theirs'[g].quiet => theirs'[g] = theirs[g]
      BY <1>0, <2>3, <3>1
    <3>3. icall[c].create \subseteq TemplateFiles /\ (icall[c].todo # <<>> => Head(icall[c].todo) \in TemplateFiles)
      BY <1>d, <3>1
    <3>. QED  BY <3>1, <3>2, <3>3 DEF InstallCallStands
  <2>. QED  BY <2>1, <2>4, <2>5, <2>6 DEF InstallInv
<1>. QED  BY <1>1, <1>2, <1>3, <1>6, <1>7, <1>8, <1>9, <1>10, <1>11, <1>12, <1>13, <1>14, <1>15, <1>16 DEF InstallNext

\* No installation, initialization or removal, however they overlap and break
\* off, takes away what the user wrote while none was at work, but for the
\* managed block it adds (apply and uninstall of bootstrap/service.py).
THEOREM UsersFilesStay == Spec => []UsersFilesKept
<1>1. Init => InstallInv
  BY InstallInvInit DEF Init
<1>2. InstallInv /\ [Next]_vars => InstallInv'
  BY AreaSteps, InstallInvStep
<1>3. InstallInv => UsersFilesKept
  BY DEF InstallInv
<1>. QED  BY <1>1, <1>2, <1>3, PTL DEF Spec

-----------------------------------------------------------------------------
(* The evidence of the ledger                                              *)

\* No file is defined and no claim is made before the first ingest.
LEMMA EvidenceInvInit == EvidenceInit => EvidenceInv
<1> SUFFICES ASSUME EvidenceInit PROVE EvidenceInv
  OBVIOUS
<1>1. NoCandidate \in ClaimBundles
  BY DEF NoCandidate, ClaimBundles, Captured, Times
<1>2. EvidenceTypeOK
  <2>1. candidate \in [Ingests -> ClaimBundles] /\ wals \in [Ingests -> ClaimBundles]
    BY <1>1 DEF EvidenceInit
  <2>2. claims \in [gen : Nat, evidence : [Statements -> SUBSET Segments], recorded : [Statements -> Times]]
    BY DEF EvidenceInit, Captured, Times
  <2>3. kbudget \in [calls : Nat, changes : Nat, overtaken : BOOLEAN]
    BY DEF EvidenceInit
  <2>4. ingest \in [Callers -> EvCalls \cup {EvIdle}]
    BY DEF EvidenceInit
  <2>. QED  BY <2>1, <2>2, <2>3, <2>4 DEF EvidenceInit, EvidenceTypeOK
<1>3. captures \in Captures /\ claims.gen > 0 /\ IsFiniteSet(defined) /\ defined = {}
  BY FS_EmptySet DEF EvidenceInit
<1>4. \A o \in Ingests : candidate[o] = NoCandidate /\ promoted[o] = 0 /\ o \notin finished
  BY DEF EvidenceInit
<1>5. ASSUME NEW c \in Callers PROVE ingest[c] = EvIdle
  BY DEF EvidenceInit
<1>. QED  BY <1>2, <1>3, <1>4, <1>5 DEF EvidenceInv

\* What an operation captures and where its segment is.
LEMMA CapturesTyped ==
    ASSUME captures \in Captures, NEW o \in Ingests
    PROVE  /\ captures[o] \in Revisions /\ FileOf[captures[o]] \in Files /\ SegmentOf(o) \in Segments
           /\ captures[o] \notin Files /\ FileOf[captures[o]] \notin Revisions
           /\ StatementOf[captures[o]] \in Statements
<1>1. captures[o] \in Revisions
  BY DEF Revisions
<1>2. FileOf[captures[o]] \in Files
  BY <1>1 DEF Files
<1>3. ToolOf[o] \in {ToolOf[i] : i \in Ingests}
  OBVIOUS
<1>. QED  BY <1>1, <1>2, <1>3, EvidenceAssumption DEF SegmentOf, Segments

\* A definition is the only one when none was found.
LEMMA NoneDefined ==
    ASSUME IsFiniteSet(defined), NEW x
    PROVE  /\ Cardinality(Definitions(x)) = 0 <=> Definitions(x) = {}
           /\ (\A d, e \in defined : d[1] = e[1] => d = e) => Cardinality(Definitions(x)) <= 1
<1>1. Definitions(x) \subseteq defined
  BY DEF Definitions
<1>2. IsFiniteSet(Definitions(x))
  BY <1>1, FS_Subset
<1>3. Cardinality(Definitions(x)) = 0 <=> Definitions(x) = {}
  BY <1>2, FS_EmptySet
<1>4. ASSUME \A d, e \in defined : d[1] = e[1] => d = e PROVE Cardinality(Definitions(x)) <= 1
  <2>1. \A d, e \in Definitions(x) : d = e
    BY <1>4 DEF Definitions
  <2>2. CASE Definitions(x) = {}
    BY <1>3, <2>2
  <2>3. CASE Definitions(x) # {}
    <3>1. PICK d : d \in Definitions(x)
      BY <2>3
    <3>2. Definitions(x) = {d}
      BY <2>1, <3>1
    <3>. QED  BY <3>2, FS_Singleton
  <2>. QED  BY <2>2, <2>3
<1>. QED  BY <1>3, <1>4

\* A step that leaves claims and definitions alone keeps the invariant when
\* the call it leaves stands and it takes no lease of another call.
LEMMA EvidenceCallMoves ==
    ASSUME EvidenceInv, NEW c \in Callers, NEW call \in EvCalls \cup {EvIdle},
           ingest' = [ingest EXCEPT ![c] = call],
           UNCHANGED <<captures, claims, defined, promoted>>, EvidenceTypeOK',
           kbudget'.overtaken = kbudget.overtaken,
           \A f \in Files, d \in Callers : d # c /\ owner[f] = d => owner'[f] = d,
           \A o \in Ingests : candidate'[o] = candidate[o] \/ BundleStands(o, candidate'[o]),
           \A o \in finished' : o \in finished \/ Claimed(o),
           call # EvIdle => EvCallStands(c, call)'
    PROVE  EvidenceInv'
<1>1. /\ ingest \in [Callers -> EvCalls \cup {EvIdle}] /\ captures \in Captures
      /\ finished' \subseteq Ingests
  <2>1. EvidenceTypeOK /\ captures \in Captures
    BY DEF EvidenceInv
  <2>. QED  BY <2>1, Zenon DEF EvidenceTypeOK
<1>2. \A d \in Callers : ingest'[d] = IF d = c THEN call ELSE ingest[d]
  BY <1>1
<1>3. /\ \A o : Claimed(o)' <=> Claimed(o)
      /\ \A o, b : BundleStands(o, b)' <=> BundleStands(o, b)
      /\ \A x : Definitions(x)' = Definitions(x)
  BY DEF Claimed, BundleStands, SegmentOf, Definitions
<1>4. ASSUME NEW d \in Callers, d # c, ingest[d] # EvIdle PROVE EvCallStands(d, ingest[d])'
  <2>1. ingest[d] \in EvCalls /\ EvCallStands(d, ingest[d])
    BY <1>1, <1>4 DEF EvidenceInv
  <2>2. PICK y \in EvCalls : y = ingest[d]
    BY <2>1
  <2>3. y.op \in Ingests
    BY <2>2 DEF EvCalls
  <2>4. FileOf[captures[y.op]] \in Files
    BY <1>1, <2>3, CapturesTyped
  <2>5. EvCallStands(d, y)'
    BY <1>3, <1>4, <2>1, <2>2, <2>4 DEF EvCallStands
  <2>. QED  BY <1>2, <1>4, <2>2, <2>5
<1>5. \A d \in Callers : ingest'[d] # EvIdle => EvCallStands(d, ingest[d])'
  BY <1>2, <1>4
<1>6. \A o \in Ingests : candidate'[o] # NoCandidate => BundleStands(o, candidate[o])'
  BY <1>3 DEF EvidenceInv
<1>7. \A o \in Ingests : promoted'[o] # 0 \/ o \in finished' => Claimed(o)'
  BY <1>1, <1>3 DEF EvidenceInv
<1>8. captures' \in Captures /\ claims'.gen > 0 /\ IsFiniteSet(defined')
  BY DEF EvidenceInv
<1>9. ~kbudget'.overtaken => \A d, e \in defined' : d[1] = e[1] => d = e
  BY DEF EvidenceInv
<1>. QED
  <2>1. (\A o \in Ingests : candidate[o] # NoCandidate => BundleStands(o, candidate[o]))'
    BY <1>6
  <2>2. (\A d \in Callers : ingest[d] # EvIdle => EvCallStands(d, ingest[d]))'
    BY <1>5
  <2>3. (\A o \in Ingests : promoted[o] # 0 \/ o \in finished => Claimed(o))'
    BY <1>7
  <2>4. (~kbudget.overtaken => \A d, e \in defined : d[1] = e[1] => d = e)'
    BY <1>9
  <2>5. (captures \in Captures /\ claims.gen > 0)' /\ IsFiniteSet(defined)'
    BY <1>8
  <2>. QED  BY <2>1, <2>2, <2>3, <2>4, <2>5, Zenon DEF EvidenceInv

\* A step that leaves calls and the ledger alone keeps the invariant when it
\* takes no lease, or has overtaken a worker for ever.
LEMMA EvidenceAroundMoves ==
    ASSUME EvidenceInv, UNCHANGED <<captures, claims, defined, promoted, candidate, finished, ingest>>, EvidenceTypeOK',
           kbudget.overtaken => kbudget'.overtaken,
           \A f \in Files, d \in Callers :
               owner[f] = d => owner'[f] = d \/ kbudget'.overtaken \/ ingest[d].step \notin {"files", "create"}
    PROVE  EvidenceInv'
<1>1. ingest \in [Callers -> EvCalls \cup {EvIdle}] /\ captures \in Captures
  <2>1. EvidenceTypeOK /\ captures \in Captures
    BY DEF EvidenceInv
  <2>. QED  BY <2>1, Zenon DEF EvidenceTypeOK
<1>2. /\ \A o : Claimed(o)' <=> Claimed(o)
      /\ \A o, b : BundleStands(o, b)' <=> BundleStands(o, b)
      /\ \A x : Definitions(x)' = Definitions(x)
  BY DEF Claimed, BundleStands, SegmentOf, Definitions
<1>3. ASSUME NEW d \in Callers, ingest[d] # EvIdle PROVE EvCallStands(d, ingest[d])'
  <2>1. ingest[d] \in EvCalls /\ EvCallStands(d, ingest[d])
    BY <1>1, <1>3 DEF EvidenceInv
  <2>2. PICK y \in EvCalls : y = ingest[d]
    BY <2>1
  <2>3. y.op \in Ingests
    BY <2>2 DEF EvCalls
  <2>4. FileOf[captures[y.op]] \in Files
    BY <1>1, <2>3, CapturesTyped
  <2>5. EvCallStands(d, y)'
    BY <1>2, <2>1, <2>2, <2>4 DEF EvCallStands
  <2>. QED  BY <2>2, <2>5
<1>4. (\A o \in Ingests : candidate[o] # NoCandidate => BundleStands(o, candidate[o]))'
  BY <1>2 DEF EvidenceInv
<1>5. (\A d \in Callers : ingest[d] # EvIdle => EvCallStands(d, ingest[d]))'
  BY <1>3
<1>6. (\A o \in Ingests : promoted[o] # 0 \/ o \in finished => Claimed(o))'
  BY <1>2 DEF EvidenceInv
<1>7. captures' \in Captures /\ claims'.gen > 0 /\ IsFiniteSet(defined')
  BY DEF EvidenceInv
<1>8. ~kbudget'.overtaken => \A d, e \in defined' : d[1] = e[1] => d = e
  BY DEF EvidenceInv
<1>. QED  BY <1>4, <1>5, <1>6, <1>7, <1>8, Zenon DEF EvidenceInv

\* Every step of ingests, promotions and imports, and of all that changes
\* around them, keeps the invariant.
LEMMA EvidenceInvStep == EvidenceInv /\ [EvidenceNext]_kvars => EvidenceInv'
<1> SUFFICES ASSUME EvidenceInv, [EvidenceNext]_kvars PROVE EvidenceInv'
  OBVIOUS
<1>0. /\ EvidenceTypeOK /\ captures \in Captures /\ IsFiniteSet(defined)
      /\ claims \in [gen : Nat, evidence : [Statements -> SUBSET Segments], recorded : [Statements -> Times]] /\ claims.gen \in Nat \ {0}
      /\ candidate \in [Ingests -> ClaimBundles] /\ promoted \in [Ingests -> Nat] /\ finished \subseteq Ingests
      /\ owner \in [Files -> Callers \cup {"none"}] /\ ingest \in [Callers -> EvCalls \cup {EvIdle}]
      /\ kbudget \in [calls : Nat, changes : Nat, overtaken : BOOLEAN]
      /\ isolated \subseteq Revisions /\ wals \in [Ingests -> ClaimBundles]
      /\ opstate \in [Ingests -> {"open", "reconciling", "succeeded"}]
  <2>1. EvidenceTypeOK /\ captures \in Captures /\ IsFiniteSet(defined) /\ claims.gen > 0
    BY DEF EvidenceInv
  <2>2. claims \in [gen : Nat, evidence : [Statements -> SUBSET Segments], recorded : [Statements -> Times]]
    BY <2>1 DEF EvidenceTypeOK
  <2>3. claims.gen \in Nat \ {0}
    BY <2>1, <2>2
  <2>. QED  BY <2>1, <2>2, <2>3, Zenon DEF EvidenceTypeOK
<1>a. \A c \in Callers : ingest[c].step # "idle" => /\ ingest[c] \in EvCalls /\ ingest[c].op \in Ingests
                                                    /\ EvCallStands(c, ingest[c])
  BY <1>0 DEF EvidenceInv, EvIdle, EvCalls
<1>b. EvIdle \notin EvCalls /\ EvIdle.step = "idle"
  BY DEF EvIdle, EvCalls
<1>c. \A c \in Callers, step \in {"files", "create", "normalize", "stage", "gate", "commit", "log", "swap", "committed",
                              "reconcile", "close", "import"} :
        ingest[c].step # "idle" /\ EvGo(c, step) =>
          \E y \in EvCalls : /\ ingest' = [ingest EXCEPT ![c] = y] /\ y.step = step
                             /\ y.op = ingest[c].op /\ y.what = ingest[c].what /\ y.bundle = ingest[c].bundle
  <2> SUFFICES ASSUME NEW c \in Callers,
                      NEW step \in {"files", "create", "normalize", "stage", "gate", "commit", "log", "swap", "committed",
                                    "reconcile", "close", "import"},
                      ingest[c].step # "idle", EvGo(c, step)
               PROVE  \E y \in EvCalls : /\ ingest' = [ingest EXCEPT ![c] = y] /\ y.step = step
                                         /\ y.op = ingest[c].op /\ y.what = ingest[c].what /\ y.bundle = ingest[c].bundle
    OBVIOUS
  <2>1. ingest[c] \in EvCalls
    BY <1>a
  <2>2. /\ [ingest[c] EXCEPT !.step = step] \in EvCalls /\ [ingest[c] EXCEPT !.step = step].step = step
        /\ [ingest[c] EXCEPT !.step = step].op = ingest[c].op /\ [ingest[c] EXCEPT !.step = step].what = ingest[c].what
        /\ [ingest[c] EXCEPT !.step = step].bundle = ingest[c].bundle
    BY <2>1 DEF EvCalls
  <2>3. ingest' = [ingest EXCEPT ![c] = [ingest[c] EXCEPT !.step = step]]
    BY <1>0 DEF EvGo
  <2>. QED  BY <2>2, <2>3
<1>d. ASSUME NEW c \in Callers, EvEnd(c), UNCHANGED <<captures, claims, defined, promoted>>,
             UNCHANGED <<restricted, registered, snapshots, wals, kbudget>>, isolated' \subseteq Revisions,
             opstate' \in [Ingests -> {"open", "reconciling", "succeeded"}],
             candidate' \in [Ingests -> ClaimBundles], finished' \subseteq Ingests,
             \A o \in Ingests : candidate'[o] = candidate[o] \/ BundleStands(o, candidate'[o]),
             \A o \in finished' : o \in finished \/ Claimed(o)
      PROVE  EvidenceInv'
  <2>1. ingest' = [ingest EXCEPT ![c] = EvIdle] /\ owner' = [f \in Files |-> IF owner[f] = c THEN "none" ELSE owner[f]]
    BY <1>d DEF EvEnd
  <2>2. owner' \in [Files -> Callers \cup {"none"}] /\ ingest' \in [Callers -> EvCalls \cup {EvIdle}]
    BY <1>0, <2>1
  <2>3. \A f \in Files, d \in Callers : d # c /\ owner[f] = d => owner'[f] = d
    BY <2>1
  <2>4. EvidenceTypeOK'
    BY <1>0, <1>d, <2>2 DEF EvidenceTypeOK
  <2>. QED  BY <1>d, <2>1, <2>3, <2>4, EvidenceCallMoves
<1>e. ASSUME NEW c \in Callers, NEW call \in EvCalls, ingest' = [ingest EXCEPT ![c] = call],
             UNCHANGED <<captures, around, isolated, defined, claims, candidate, promoted, finished, owner>>,
             wals' \in [Ingests -> ClaimBundles], opstate' \in [Ingests -> {"open", "reconciling", "succeeded"}],
             kbudget' \in [calls : Nat, changes : Nat, overtaken : BOOLEAN],
             kbudget'.overtaken = kbudget.overtaken, EvCallStands(c, call)'
      PROVE  EvidenceInv'
  <2>1. ingest' \in [Callers -> EvCalls \cup {EvIdle}]
    BY <1>0, <1>e
  <2>2. EvidenceTypeOK'
    BY <1>0, <1>e, <2>1 DEF EvidenceTypeOK, around
  <2>. QED  BY <1>e, <2>2, EvidenceCallMoves
<1>f. kbudget' = [kbudget EXCEPT !.calls = @ + 1] \/ kbudget' = [kbudget EXCEPT !.changes = @ + 1]
      \/ kbudget' = kbudget =>
        /\ kbudget' \in [calls : Nat, changes : Nat, overtaken : BOOLEAN]
        /\ kbudget'.overtaken = kbudget.overtaken
  BY <1>0
<1>1. CASE UNCHANGED kvars
  <2>1. UNCHANGED <<captures, tool, restricted, registered, isolated, defined, snapshots, claims, candidate, wals, promoted,
                    opstate, finished, owner, ingest, kbudget>>
    BY <1>1 DEF kvars
  <2>2. EvidenceTypeOK'
    BY <1>0, <2>1 DEF EvidenceTypeOK
  <2>. QED  BY <2>1, <2>2, EvidenceAroundMoves
<1>2. ASSUME UNCHANGED captures,
             Upgrade \/ (\E r \in Revisions : Block(r)) \/ (\E o \in Ingests : Deregister(o)) \/ (\E s \in Segments : Damage(s))
      PROVE  EvidenceInv'
  <2>1. /\ UNCHANGED <<stored, owner, ingest>> /\ kbudget' = [kbudget EXCEPT !.changes = @ + 1]
        /\ restricted' \subseteq Revisions /\ registered' \subseteq Ingests
        /\ snapshots' \in [Segments -> {"none", "whole", "damaged"}]
    <3>1. restricted \subseteq Revisions /\ registered \subseteq Ingests /\ snapshots \in [Segments -> {"none", "whole", "damaged"}]
      BY <1>0, Zenon DEF EvidenceTypeOK
    <3>. QED  BY <1>2, <3>1 DEF Upgrade, Block, Deregister, Damage, Change
  <2>2. EvidenceTypeOK'
    BY <1>0, <1>f, <2>1 DEF EvidenceTypeOK, stored
  <2>. QED  BY <1>2, <1>f, <2>1, <2>2, EvidenceAroundMoves DEF stored
<1>3. ASSUME UNCHANGED captures, NEW f \in Files, LeaseLapses(f) PROVE EvidenceInv'
  <2>1. /\ owner[f] # "none" /\ owner' = [owner EXCEPT ![f] = "none"] /\ UNCHANGED <<around, stored, ingest>>
        /\ kbudget' = IF ingest[owner[f]].step \in {"files", "create", "normalize", "stage", "gate"}
                      THEN [kbudget EXCEPT !.overtaken = TRUE, !.changes = kbudget.changes + 1] ELSE kbudget
    BY <1>0, <1>3 DEF LeaseLapses
  <2>2. PICK b \in BOOLEAN : b = TRUE
    OBVIOUS
  <2>3. /\ kbudget' \in [calls : Nat, changes : Nat, overtaken : BOOLEAN]
        /\ kbudget' = kbudget \/ kbudget'.overtaken
        /\ ingest[owner[f]].step \in {"files", "create"} => kbudget'.overtaken
    <3>1. CASE ingest[owner[f]].step \notin {"files", "create", "normalize", "stage", "gate"}
      BY <1>0, <2>1, <3>1
    <3>2. CASE ingest[owner[f]].step \in {"files", "create", "normalize", "stage", "gate"}
      <4>0. PICK n \in Nat : n = kbudget.changes + 1
        BY <1>0
      <4>1. kbudget' = [kbudget EXCEPT !.overtaken = b, !.changes = n]
        BY <2>1, <2>2, <3>2, <4>0
      <4>2. kbudget' \in [calls : Nat, changes : Nat, overtaken : BOOLEAN] /\ kbudget'.overtaken = b
        <5>1. kbudget \in [calls : Nat, changes : Nat, overtaken : BOOLEAN]
          BY <1>0
        <5>. QED  BY <4>1, <5>1
      <4>. QED  BY <2>2, <4>2, Zenon
    <3>. QED  BY <3>1, <3>2
  <2>4. owner' \in [Files -> Callers \cup {"none"}]
    BY <1>0, <2>1
  <2>5. EvidenceTypeOK'
    BY <1>0, <2>1, <2>3, <2>4 DEF EvidenceTypeOK, stored, around
  <2>6. ASSUME NEW g \in Files, NEW d \in Callers, owner[g] = d
        PROVE  owner'[g] = d \/ kbudget'.overtaken \/ ingest[d].step \notin {"files", "create"}
    BY <1>0, <2>1, <2>3, <2>6
  <2>7. kbudget.overtaken => kbudget'.overtaken
    BY <2>3
  <2>. QED  BY <1>3, <2>1, <2>5, <2>6, <2>7, EvidenceAroundMoves DEF stored
<1>4. ASSUME UNCHANGED captures, NEW c \in Callers, NEW o \in Ingests, CallIngest(c, o) PROVE EvidenceInv'
  <2> DEFINE f == FileOf[captures[o]]
  <2>0. PICK step \in {"files", "gate"} : step = IF candidate[o] = NoCandidate THEN "files" ELSE "gate"
    OBVIOUS
  <2> DEFINE call == [step |-> step, op |-> o, what |-> f, bundle |-> candidate[o]]
  <2>1. /\ owner[f] = "none" /\ owner' = [owner EXCEPT ![f] = c] /\ UNCHANGED <<around, stored>>
        /\ kbudget' = [kbudget EXCEPT !.calls = @ + 1] /\ ingest' = [ingest EXCEPT ![c] = call]
    BY <1>4, <2>0 DEF CallIngest, EvCall
  <2>2. f \in Files
    BY <1>0, CapturesTyped
  <2>3. candidate[o] \in ClaimBundles
    BY <1>0
  <2>4. call \in EvCalls /\ call.step = step /\ call.op = o /\ call.what = f /\ call.bundle = candidate[o]
    BY <2>2, <2>3 DEF EvCalls
  <2>5. owner' \in [Files -> Callers \cup {"none"}] /\ ingest' \in [Callers -> EvCalls \cup {EvIdle}] /\ owner'[f] = c
    BY <1>0, <2>1, <2>2, <2>4
  <2>6. EvidenceTypeOK'
    BY <1>0, <1>f, <2>1, <2>5 DEF EvidenceTypeOK, stored, around
  <2>7. PICK y \in EvCalls : /\ y.step = step /\ y.op = o /\ y.what = f /\ y.bundle = candidate[o]
                             /\ ingest' = [ingest EXCEPT ![c] = y]
    BY <2>1, <2>4
  <2>8. EvCallStands(c, y)'
    <3>1. CASE step = "files"
      BY <1>4, <2>5, <2>7, <3>1 DEF EvCallStands
    <3>2. CASE step = "gate"
      <4>1. BundleStands(o, candidate[o])
        BY <2>0, <3>2 DEF EvidenceInv
      <4>2. BundleStands(y.op, y.bundle)'
        BY <1>4, <2>1, <2>7, <4>1 DEF BundleStands, SegmentOf, stored
      <4>. QED  BY <2>7, <3>2, <4>2 DEF EvCallStands
    <3>. QED  BY <3>1, <3>2
  <2>9. \A g \in Files, d \in Callers : d # c /\ owner[g] = d => owner'[g] = d
    BY <1>0, <2>1, <2>2, EvidenceAssumption
  <2>. QED  BY <1>4, <1>f, <2>1, <2>6, <2>7, <2>8, <2>9, EvidenceCallMoves DEF stored
<1>5. ASSUME UNCHANGED captures, NEW c \in Callers, NEW o \in Ingests, Isolate(c, o) PROVE EvidenceInv'
  <2>1. /\ UNCHANGED <<around, defined, claims, candidate, wals, promoted, opstate, finished, owner, ingest>>
        /\ isolated' = isolated \cup {captures[o]} /\ kbudget' = [kbudget EXCEPT !.calls = @ + 1]
    BY <1>5 DEF Isolate, Quarantined
  <2>2. captures[o] \in Revisions
    BY <1>0, CapturesTyped
  <2>3. EvidenceTypeOK'
    BY <1>0, <1>f, <2>1, <2>2 DEF EvidenceTypeOK, around
  <2>. QED  BY <1>5, <1>f, <2>1, <2>3, EvidenceAroundMoves
<1>6. ASSUME UNCHANGED captures, NEW c \in Callers, NEW o \in Ingests, CallPromote(c, o) PROVE EvidenceInv'
  <2> DEFINE again == [step |-> "committed", op |-> o, what |-> "none", bundle |-> NoCandidate]
             fresh == [step |-> "commit", op |-> o, what |-> "none", bundle |-> candidate[o]]
  <2>1. NoCandidate \in ClaimBundles /\ candidate[o] \in ClaimBundles
    BY <1>0 DEF NoCandidate, ClaimBundles, Captured, Times
  <2>2. /\ again \in EvCalls /\ again.step = "committed" /\ again.op = o
        /\ fresh \in EvCalls /\ fresh.step = "commit" /\ fresh.op = o /\ fresh.bundle = candidate[o]
    BY <2>1 DEF EvCalls
  <2>3. /\ UNCHANGED <<around, stored, owner>> /\ kbudget' = [kbudget EXCEPT !.calls = @ + 1]
        /\ \/ promoted[o] = claims.gen /\ ingest' = [ingest EXCEPT ![c] = again]
           \/ candidate[o] # NoCandidate /\ ingest' = [ingest EXCEPT ![c] = fresh]
    BY <1>6 DEF CallPromote, EvCall
  <2>4. /\ Claimed(o)' <=> Claimed(o)
        /\ BundleStands(o, candidate[o])' <=> BundleStands(o, candidate[o])
    BY <1>6, <2>3 DEF Claimed, BundleStands, SegmentOf, stored
  <2>5. PICK y \in EvCalls : ingest' = [ingest EXCEPT ![c] = y] /\ EvCallStands(c, y)'
    <3>1. CASE promoted[o] = claims.gen /\ ingest' = [ingest EXCEPT ![c] = again]
      <4>1. Claimed(o)'
        BY <1>0, <2>4, <3>1 DEF EvidenceInv
      <4>2. PICK y \in EvCalls : y.step = "committed" /\ y.op = o /\ ingest' = [ingest EXCEPT ![c] = y]
        BY <2>2, <3>1
      <4>. QED  BY <4>1, <4>2 DEF EvCallStands
    <3>2. CASE candidate[o] # NoCandidate /\ ingest' = [ingest EXCEPT ![c] = fresh]
      <4>1. BundleStands(o, candidate[o])'
        BY <2>4, <3>2 DEF EvidenceInv
      <4>2. PICK y \in EvCalls : y.step = "commit" /\ y.op = o /\ y.bundle = candidate[o] /\ ingest' = [ingest EXCEPT ![c] = y]
        BY <2>2, <3>2
      <4>3. BundleStands(y.op, y.bundle)'
        BY <2>3, <4>1, <4>2 DEF stored
      <4>. QED  BY <4>2, <4>3 DEF EvCallStands
    <3>. QED  BY <2>3, <3>1, <3>2
  <2>6. UNCHANGED <<isolated, defined, claims, candidate, wals, promoted, opstate, finished>>
    BY <2>3 DEF stored
  <2>. QED  BY <1>0, <1>6, <1>e, <1>f, <2>3, <2>5, <2>6
<1>7. ASSUME UNCHANGED captures, NEW c \in Callers, NEW o \in Ingests, NEW t \in Statements, CallImport(c, o, t)
      PROVE  EvidenceInv'
  <2> DEFINE call == [step |-> "import", op |-> o, what |-> t, bundle |-> NoCandidate]
  <2>1. /\ UNCHANGED <<around, stored, owner>> /\ kbudget' = [kbudget EXCEPT !.calls = @ + 1]
        /\ ingest' = [ingest EXCEPT ![c] = call]
    BY <1>7 DEF CallImport, EvCall
  <2>2. NoCandidate \in ClaimBundles
    BY DEF NoCandidate, ClaimBundles, Captured, Times
  <2>3. call \in EvCalls /\ call.step = "import" /\ call.what = t
    BY <2>2 DEF EvCalls
  <2>4. PICK y \in EvCalls : y.step = "import" /\ y.what = t /\ ingest' = [ingest EXCEPT ![c] = y]
    BY <2>1, <2>3
  <2>5. EvCallStands(c, y)'
    BY <2>4 DEF EvCallStands
  <2>6. UNCHANGED <<isolated, defined, claims, candidate, wals, promoted, opstate, finished>>
    BY <2>1 DEF stored
  <2>. QED  BY <1>0, <1>7, <1>e, <1>f, <2>1, <2>4, <2>5, <2>6
<1>8. ASSUME UNCHANGED captures, NEW c \in Callers, ingest[c].step \in {"files", "create"}, AfterFile(c),
             UNCHANGED <<around, isolated, claims, candidate, wals, promoted, opstate, finished, owner, kbudget>>
      PROVE  \E y \in EvCalls : ingest' = [ingest EXCEPT ![c] = y] /\ y.step # "create" /\ EvCallStands(c, y)'
  <2> DEFINE x == ingest[c]
  <2>1. /\ x \in EvCalls /\ x.op \in Ingests /\ x.what \in {FileOf[captures[x.op]], captures[x.op]}
        /\ ~kbudget.overtaken => owner[FileOf[captures[x.op]]] = c
    BY <1>8, <1>a DEF EvCallStands
  <2>2. captures[x.op] \in Revisions
    BY <1>0, <2>1, CapturesTyped
  <2>3. CASE x.what \in Files
    <3>1. ingest' = [ingest EXCEPT ![c].step = "files", ![c].what = captures[x.op]]
      BY <1>8, <2>3 DEF AfterFile
    <3>2. /\ [x EXCEPT !.step = "files", !.what = captures[x.op]] \in EvCalls
          /\ [x EXCEPT !.step = "files", !.what = captures[x.op]].step = "files"
          /\ [x EXCEPT !.step = "files", !.what = captures[x.op]].what = captures[x.op]
          /\ [x EXCEPT !.step = "files", !.what = captures[x.op]].op = x.op
      BY <2>1, <2>2 DEF EvCalls
    <3>3. PICK y \in EvCalls : /\ y.step = "files" /\ y.op = x.op /\ y.what = captures[x.op]
                               /\ ingest' = [ingest EXCEPT ![c] = y]
      BY <1>0, <3>1, <3>2
    <3>4. EvCallStands(c, y)'
      BY <1>8, <2>1, <3>3 DEF EvCallStands
    <3>. QED  BY <3>3, <3>4
  <2>4. CASE x.what \notin Files
    <3>1. EvGo(c, "normalize")
      BY <1>8, <2>4 DEF AfterFile
    <3>2. PICK y \in EvCalls : ingest' = [ingest EXCEPT ![c] = y] /\ y.step = "normalize"
      BY <1>8, <1>c, <3>1
    <3>3. EvCallStands(c, y)'
      BY <3>2 DEF EvCallStands
    <3>. QED  BY <3>2, <3>3
  <2>. QED  BY <2>3, <2>4
<1>9. ASSUME UNCHANGED captures, NEW c \in Callers, FindFile(c) PROVE EvidenceInv'
  <2> DEFINE x == ingest[c]
             n == Cardinality(Definitions(x.what))
  <2>1. /\ x.step = "files" /\ UNCHANGED <<around, stored, kbudget>>
        /\ \/ n = 0 /\ EvGo(c, "create") /\ UNCHANGED owner
           \/ AfterFile(c) /\ UNCHANGED owner
           \/ EvEnd(c)
    BY <1>9 DEF FindFile
  <2>2. UNCHANGED <<isolated, defined, claims, candidate, wals, promoted, opstate, finished, tool, restricted,
                    registered, snapshots>>
    BY <2>1 DEF stored, around
  <2>3. CASE n = 0 /\ EvGo(c, "create") /\ UNCHANGED owner
    <3>1. PICK y \in EvCalls : /\ ingest' = [ingest EXCEPT ![c] = y] /\ y.step = "create"
                               /\ y.op = x.op /\ y.what = x.what
      BY <1>c, <2>1, <2>3
    <3>2. Definitions(x.what) = {}
      BY <1>0, <2>3, NoneDefined
    <3>3. Definitions(y.what)' = {}
      BY <2>2, <3>1, <3>2 DEF Definitions
    <3>4. EvCallStands(c, x)
      BY <1>a, <2>1
    <3>5. EvCallStands(c, y)'
      BY <1>9, <2>1, <2>3, <3>1, <3>3, <3>4 DEF EvCallStands
    <3>. QED  BY <1>0, <1>9, <1>e, <1>f, <2>1, <2>2, <2>3, <3>1, <3>5
  <2>4. CASE AfterFile(c) /\ UNCHANGED owner
    <3>1. PICK y \in EvCalls : ingest' = [ingest EXCEPT ![c] = y] /\ EvCallStands(c, y)'
      BY <1>8, <1>9, <2>1, <2>2, <2>4
    <3>. QED  BY <1>0, <1>9, <1>e, <1>f, <2>1, <2>2, <2>4, <3>1
  <2>5. CASE EvEnd(c)
    BY <1>0, <1>9, <1>d, <2>1, <2>2, <2>5
  <2>. QED  BY <2>1, <2>3, <2>4, <2>5
<1>10. ASSUME UNCHANGED captures, NEW c \in Callers, CreateFile(c) PROVE EvidenceInv'
  <2> DEFINE x == ingest[c]
  <2>1. /\ x.step = "create" /\ defined' = defined \cup {<<x.what, x.op>>} /\ AfterFile(c)
        /\ UNCHANGED <<around, isolated, claims, candidate, wals, promoted, opstate, finished, owner, kbudget>>
    BY <1>10 DEF CreateFile
  <2>2. PICK y \in EvCalls : ingest' = [ingest EXCEPT ![c] = y] /\ y.step # "create" /\ EvCallStands(c, y)'
    BY <1>8, <1>10, <2>1
  <2>3. /\ x \in EvCalls /\ x.op \in Ingests /\ x.what \in {FileOf[captures[x.op]], captures[x.op]}
        /\ ~kbudget.overtaken => owner[FileOf[captures[x.op]]] = c /\ Definitions(x.what) = {}
    BY <1>a, <2>1 DEF EvCallStands
  <2>4. captures[x.op] \in Revisions /\ FileOf[captures[x.op]] \in Files
    BY <1>0, <2>3, CapturesTyped
  <2>5. EvidenceTypeOK'
    <3>1. defined' \subseteq ((Revisions \cup Files) \X Ingests)
      <4>1. defined \subseteq ((Revisions \cup Files) \X Ingests)
        BY <1>0, Zenon DEF EvidenceTypeOK
      <4>. QED  BY <2>1, <2>3, <2>4, <4>1
    <3>2. ingest' \in [Callers -> EvCalls \cup {EvIdle}]
      BY <1>0, <2>2
    <3>. QED  BY <1>0, <2>1, <3>1, <3>2 DEF EvidenceTypeOK, around
  <2>6. IsFiniteSet(defined')
    BY <1>0, <2>1, FS_AddElement
  <2>7. ~kbudget'.overtaken => \A d, e \in defined' : d[1] = e[1] => d = e
    BY <2>1, <2>3 DEF EvidenceInv, Definitions
  <2>8. /\ \A o : Claimed(o)' <=> Claimed(o)
        /\ \A o, b : BundleStands(o, b)' <=> BundleStands(o, b)
    BY <1>10, <2>1 DEF Claimed, BundleStands, SegmentOf
  <2>9. ASSUME NEW d \in Callers, d # c, ingest[d] # EvIdle PROVE EvCallStands(d, ingest[d])'
    <3>1. ingest[d] \in EvCalls /\ EvCallStands(d, ingest[d]) /\ ingest'[d] = ingest[d]
      BY <1>0, <2>2, <2>9 DEF EvidenceInv
    <3>2. PICK z \in EvCalls : z = ingest[d]
      BY <3>1
    <3>3. z.op \in Ingests
      BY <3>2 DEF EvCalls
    <3>4. /\ captures[z.op] \in Revisions /\ FileOf[captures[z.op]] \in Files
          /\ captures[z.op] \notin Files /\ captures[x.op] \notin Files
      BY <1>0, <2>3, <3>3, CapturesTyped
    <3>5. ASSUME z.step = "create", ~kbudget.overtaken PROVE Definitions(z.what)' = {}
      <4>1. /\ z.what \in {FileOf[captures[z.op]], captures[z.op]} /\ owner[FileOf[captures[z.op]]] = d
            /\ Definitions(z.what) = {}
        BY <3>1, <3>2, <3>5 DEF EvCallStands
      <4>2. z.what # x.what
        BY <2>3, <2>4, <2>9, <3>4, <3>5, <4>1
      <4>. QED  BY <2>1, <4>1, <4>2 DEF Definitions
    <3>6. EvCallStands(d, z)'
      BY <1>10, <2>1, <2>8, <3>1, <3>2, <3>5 DEF EvCallStands
    <3>. QED  BY <3>1, <3>2, <3>6
  <2>10. (\A d \in Callers : ingest[d] # EvIdle => EvCallStands(d, ingest[d]))'
    BY <1>0, <2>2, <2>9
  <2>11. (\A o \in Ingests : candidate[o] # NoCandidate => BundleStands(o, candidate[o]))'
    BY <2>1, <2>8 DEF EvidenceInv
  <2>12. (\A o \in Ingests : promoted[o] # 0 \/ o \in finished => Claimed(o))'
    BY <2>1, <2>8 DEF EvidenceInv
  <2>13. captures' \in Captures /\ claims'.gen > 0
    BY <1>0, <1>10, <2>1
  <2>. QED  BY <2>5, <2>6, <2>7, <2>10, <2>11, <2>12, <2>13, Zenon DEF EvidenceInv
<1>11. ASSUME UNCHANGED captures, NEW c \in Callers, Normalize(c) PROVE EvidenceInv'
  <2> DEFINE s == SegmentOf(ingest[c].op)
  <2>1. /\ ingest[c].step = "normalize" /\ UNCHANGED <<tool, restricted, registered, stored, kbudget>>
        /\ \/ EvEnd(c) /\ UNCHANGED snapshots
           \/ snapshots' = [snapshots EXCEPT ![s] = "whole"] /\ EvGo(c, "stage") /\ UNCHANGED owner
    BY <1>11 DEF Normalize
  <2>2. CASE EvEnd(c) /\ UNCHANGED snapshots
    BY <1>0, <1>11, <1>d, <2>1, <2>2 DEF stored
  <2>3. CASE snapshots' = [snapshots EXCEPT ![s] = "whole"] /\ EvGo(c, "stage") /\ UNCHANGED owner
    <3>1. PICK y \in EvCalls : ingest' = [ingest EXCEPT ![c] = y] /\ y.step = "stage"
      BY <1>c, <2>1, <2>3
    <3>2. EvCallStands(c, y)'
      BY <3>1 DEF EvCallStands
    <3>3. snapshots' \in [Segments -> {"none", "whole", "damaged"}]
      <4>1. snapshots \in [Segments -> {"none", "whole", "damaged"}]
        BY <1>0, Zenon DEF EvidenceTypeOK
      <4>. QED  BY <2>3, <4>1
    <3>4. ingest' \in [Callers -> EvCalls \cup {EvIdle}]
      BY <1>0, <3>1
    <3>5. EvidenceTypeOK'
      BY <1>0, <2>1, <2>3, <3>3, <3>4 DEF EvidenceTypeOK, stored
    <3>. QED  BY <1>11, <2>1, <2>3, <3>1, <3>2, <3>5, EvidenceCallMoves DEF stored
  <2>. QED  BY <2>1, <2>2, <2>3
<1>g. ASSUME NEW t \in Statements, NEW e \in SUBSET Segments, NEW time \in Times
      PROVE  /\ BundleOn(t, e, time) \in ClaimBundles /\ BundleOn(t, e, time).statement = t
             /\ BundleOn(t, e, time).parent = claims.gen /\ BundleOn(t, e, time).evidence = claims.evidence[t] \cup e
  <2>1. MergedTime(t, time) \in Times
    BY <1>0 DEF MergedTime
  <2>. QED  BY <1>0, <2>1 DEF BundleOn, MergedClaim, ClaimBundles
<1>h. ASSUME NEW o \in Ingests, NEW t \in Statements, NEW e \in SUBSET Segments, NEW time \in Times, SegmentOf(o) \in e
      PROVE  BundleStands(o, BundleOn(t, e, time))
  <2>1. PICK b : b = BundleOn(t, e, time)
    OBVIOUS
  <2>2. b.statement = t /\ b.parent = claims.gen /\ b.evidence = claims.evidence[t] \cup e
    BY <2>1 DEF BundleOn, MergedClaim
  <2>3. BundleStands(o, b)
    BY <1>0, <1>h, <2>2 DEF BundleStands
  <2>. QED  BY <2>1, <2>3
<1>i. ASSUME NEW o \in Ingests, NEW b, Refused(o, b) PROVE isolated' \subseteq Revisions
  <2>1. captures[o] \in Revisions
    BY <1>0, CapturesTyped
  <2>. QED  BY <1>0, <1>i, <2>1 DEF Refused, Quarantined
<1>12. ASSUME UNCHANGED captures, NEW c \in Callers, StageClaim(c) PROVE EvidenceInv'
  <2> DEFINE x == ingest[c]
  <2>1. PICK b : /\ b = BundleOn(StatementOf[captures[x.op]], {SegmentOf(x.op)}, Captured) /\ x.step = "stage"
                 /\ candidate' = [candidate EXCEPT ![x.op] = b]
                 /\ ingest' = [ingest EXCEPT ![c].step = "gate", ![c].bundle = b]
                 /\ UNCHANGED <<around, isolated, defined, claims, wals, promoted, opstate, finished, owner, kbudget>>
    BY <1>12 DEF StageClaim
  <2>2. x \in EvCalls /\ x.op \in Ingests
    BY <1>a, <2>1
  <2>3. b \in ClaimBundles /\ BundleStands(x.op, b)
    <3>1. {SegmentOf(x.op)} \in SUBSET Segments /\ StatementOf[captures[x.op]] \in Statements /\ Captured \in Times
      BY <1>0, <2>2, CapturesTyped DEF Times
    <3>. QED  BY <1>g, <1>h, <2>1, <2>2, <3>1
  <2>4. PICK y \in EvCalls : y.step = "gate" /\ y.op = x.op /\ y.bundle = b /\ ingest' = [ingest EXCEPT ![c] = y]
    <3>1. /\ [x EXCEPT !.step = "gate", !.bundle = b] \in EvCalls /\ [x EXCEPT !.step = "gate", !.bundle = b].step = "gate"
          /\ [x EXCEPT !.step = "gate", !.bundle = b].op = x.op /\ [x EXCEPT !.step = "gate", !.bundle = b].bundle = b
      BY <2>2, <2>3 DEF EvCalls
    <3>. QED  BY <1>0, <2>1, <3>1
  <2>5. /\ candidate' \in [Ingests -> ClaimBundles] /\ ingest' \in [Callers -> EvCalls \cup {EvIdle}]
        /\ \A o \in Ingests : candidate'[o] = candidate[o] \/ BundleStands(o, candidate'[o])
    <3>1. candidate' \in [Ingests -> ClaimBundles] /\ \A o \in Ingests : candidate'[o] = IF o = x.op THEN b ELSE candidate[o]
      BY <1>0, <2>1, <2>2, <2>3
    <3>2. ASSUME NEW o \in Ingests PROVE candidate'[o] = candidate[o] \/ BundleStands(o, candidate'[o])
      <4>1. CASE o = x.op
        BY <2>3, <3>1, <4>1, Zenon
      <4>. QED  BY <3>1, <4>1
    <3>3. ingest' \in [Callers -> EvCalls \cup {EvIdle}]
      BY <1>0, <2>4
    <3>. QED  BY <3>1, <3>2, <3>3
  <2>6. EvidenceTypeOK'
    BY <1>0, <2>1, <2>5 DEF EvidenceTypeOK, around
  <2>7. BundleStands(y.op, y.bundle)'
    <3>1. \A o, z : BundleStands(o, z)' <=> BundleStands(o, z)
      BY <1>12, <2>1 DEF BundleStands, SegmentOf
    <3>. QED  BY <2>3, <2>4, <3>1
  <2>8. EvCallStands(c, y)'
    BY <2>4, <2>7 DEF EvCallStands
  <2>. QED  BY <1>12, <2>1, <2>4, <2>5, <2>6, <2>8, EvidenceCallMoves
<1>13. ASSUME UNCHANGED captures, NEW c \in Callers, FinalGate(c) PROVE EvidenceInv'
  <2>1. /\ ingest[c].step = "gate"
        /\ UNCHANGED <<around, defined, claims, candidate, wals, promoted, opstate, finished, kbudget>>
        /\ \/ EvEnd(c) /\ (UNCHANGED isolated \/ Refused(ingest[c].op, ingest[c].bundle))
           \/ EvGo(c, "commit") /\ UNCHANGED <<isolated, owner>>
    BY <1>13 DEF FinalGate
  <2>2. ingest[c].op \in Ingests
    BY <1>a, <2>1
  <2>3. CASE EvEnd(c) /\ (UNCHANGED isolated \/ Refused(ingest[c].op, ingest[c].bundle))
    <3>1. isolated' \subseteq Revisions
      BY <1>0, <1>i, <2>2, <2>3
    <3>. QED  BY <1>0, <1>13, <1>d, <2>1, <2>3, <3>1 DEF around
  <2>4. CASE EvGo(c, "commit") /\ UNCHANGED <<isolated, owner>>
    <3>1. PICK y \in EvCalls : /\ ingest' = [ingest EXCEPT ![c] = y] /\ y.step = "commit"
                               /\ y.op = ingest[c].op /\ y.bundle = ingest[c].bundle
      BY <1>c, <2>1, <2>4
    <3>2. BundleStands(y.op, y.bundle)
      BY <1>a, <2>1, <3>1 DEF EvCallStands
    <3>3. BundleStands(y.op, y.bundle)'
      BY <1>13, <2>1, <3>2 DEF BundleStands, SegmentOf
    <3>4. EvCallStands(c, y)'
      BY <3>1, <3>3 DEF EvCallStands
    <3>. QED  BY <1>0, <1>13, <1>e, <1>f, <2>1, <2>4, <3>1, <3>4
  <2>. QED  BY <2>1, <2>3, <2>4
<1>14. ASSUME UNCHANGED captures, NEW c \in Callers, PlanCommit(c) PROVE EvidenceInv'
  <2> DEFINE x == ingest[c]
  <2>1. PICK rebased :
          /\ rebased = BundleOn(x.bundle.statement, x.bundle.evidence, x.bundle.recorded) /\ x.step = "commit"
          /\ UNCHANGED <<around, defined, claims, wals, promoted, kbudget>>
          /\ \/ /\ ActiveObject(x.bundle) /\ opstate' = [opstate EXCEPT ![x.op] = "succeeded"] /\ EvGo(c, "close")
                /\ UNCHANGED <<isolated, candidate, finished, owner>>
             \/ EvGo(c, "log") /\ UNCHANGED <<isolated, candidate, opstate, finished, owner>>
             \/ EvEnd(c) /\ UNCHANGED <<isolated, candidate, opstate, finished>>
             \/ /\ candidate' = [candidate EXCEPT ![x.op] = rebased] /\ finished' = finished \ {x.op}
                /\ UNCHANGED opstate
                /\ \/ /\ ingest' = [ingest EXCEPT ![c].bundle = rebased, ![c].step = "log"]
                      /\ UNCHANGED <<isolated, owner>>
                   \/ EvEnd(c) /\ Refused(x.op, rebased)
    BY <1>14 DEF PlanCommit
  <2>2. x \in EvCalls /\ x.op \in Ingests /\ x.bundle \in ClaimBundles /\ BundleStands(x.op, x.bundle)
    BY <1>a, <2>1 DEF EvCallStands, EvCalls
  <2>3. /\ x.bundle.evidence \in SUBSET Segments /\ x.bundle.statement \in Statements /\ x.bundle.recorded \in Times
        /\ SegmentOf(x.op) \in x.bundle.evidence
    BY <2>2 DEF ClaimBundles, BundleStands
  <2>4. CASE /\ ActiveObject(x.bundle) /\ opstate' = [opstate EXCEPT ![x.op] = "succeeded"] /\ EvGo(c, "close")
             /\ UNCHANGED <<isolated, candidate, finished, owner>>
    <3>1. Claimed(x.op)
      BY <2>3, <2>4 DEF Claimed, ActiveObject
    <3>2. PICK y \in EvCalls : ingest' = [ingest EXCEPT ![c] = y] /\ y.step = "close" /\ y.op = x.op
      BY <1>c, <2>1, <2>4
    <3>3. Claimed(y.op)'
      BY <1>14, <2>1, <3>1, <3>2 DEF Claimed, SegmentOf
    <3>4. EvCallStands(c, y)'
      BY <3>2, <3>3 DEF EvCallStands
    <3>5. opstate' \in [Ingests -> {"open", "reconciling", "succeeded"}]
      BY <1>0, <2>2, <2>4
    <3>. QED  BY <1>0, <1>14, <1>e, <1>f, <2>1, <2>4, <3>2, <3>4, <3>5
  <2>5. CASE EvGo(c, "log") /\ UNCHANGED <<isolated, candidate, opstate, finished, owner>>
    <3>1. PICK y \in EvCalls : /\ ingest' = [ingest EXCEPT ![c] = y] /\ y.step = "log"
                               /\ y.op = x.op /\ y.bundle = x.bundle
      BY <1>c, <2>1, <2>5
    <3>2. BundleStands(y.op, y.bundle)'
      BY <1>14, <2>1, <2>2, <3>1 DEF BundleStands, SegmentOf
    <3>3. EvCallStands(c, y)'
      BY <3>1, <3>2 DEF EvCallStands
    <3>. QED  BY <1>0, <1>14, <1>e, <1>f, <2>1, <2>5, <3>1, <3>3
  <2>6. CASE EvEnd(c) /\ UNCHANGED <<isolated, candidate, opstate, finished>>
    BY <1>0, <1>14, <1>d, <2>1, <2>6 DEF around
  <2>7. ASSUME candidate' = [candidate EXCEPT ![x.op] = rebased], finished' = finished \ {x.op}, UNCHANGED opstate
        PROVE  /\ rebased \in ClaimBundles /\ BundleStands(x.op, rebased)
               /\ candidate' \in [Ingests -> ClaimBundles] /\ finished' \subseteq Ingests
               /\ \A o \in Ingests : candidate'[o] = candidate[o] \/ BundleStands(o, candidate'[o])
               /\ \A o \in finished' : o \in finished \/ Claimed(o)
    <3>1. rebased \in ClaimBundles /\ BundleStands(x.op, rebased)
      BY <1>g, <1>h, <2>1, <2>2, <2>3
    <3>2. /\ candidate' \in [Ingests -> ClaimBundles]
          /\ \A o \in Ingests : candidate'[o] = IF o = x.op THEN rebased ELSE candidate[o]
      BY <1>0, <2>2, <2>7, <3>1
    <3>3. ASSUME NEW o \in Ingests PROVE candidate'[o] = candidate[o] \/ BundleStands(o, candidate'[o])
      <4>1. CASE o = x.op
        BY <3>1, <3>2, <4>1, Zenon
      <4>. QED  BY <3>2, <4>1
    <3>4. finished' \subseteq Ingests /\ \A o \in finished' : o \in finished \/ Claimed(o)
      BY <1>0, <2>7
    <3>. QED  BY <3>1, <3>2, <3>3, <3>4
  <2>8. CASE /\ candidate' = [candidate EXCEPT ![x.op] = rebased] /\ finished' = finished \ {x.op}
             /\ UNCHANGED opstate
             /\ ingest' = [ingest EXCEPT ![c].bundle = rebased, ![c].step = "log"] /\ UNCHANGED <<isolated, owner>>
    <3>1. PICK y \in EvCalls : y.step = "log" /\ y.op = x.op /\ y.bundle = rebased /\ ingest' = [ingest EXCEPT ![c] = y]
      <4>1. /\ [x EXCEPT !.bundle = rebased, !.step = "log"] \in EvCalls
            /\ [x EXCEPT !.bundle = rebased, !.step = "log"].step = "log"
            /\ [x EXCEPT !.bundle = rebased, !.step = "log"].op = x.op
            /\ [x EXCEPT !.bundle = rebased, !.step = "log"].bundle = rebased
        BY <2>2, <2>7, <2>8 DEF EvCalls
      <4>. QED  BY <1>0, <2>8, <4>1
    <3>2. ingest' \in [Callers -> EvCalls \cup {EvIdle}]
      BY <1>0, <3>1
    <3>3. EvidenceTypeOK'
      BY <1>0, <2>1, <2>7, <2>8, <3>2 DEF EvidenceTypeOK, around
    <3>4. BundleStands(y.op, y.bundle)'
      <4>1. \A o, z : BundleStands(o, z)' <=> BundleStands(o, z)
        BY <1>14, <2>1 DEF BundleStands, SegmentOf
      <4>. QED  BY <2>7, <2>8, <3>1, <4>1
    <3>5. EvCallStands(c, y)'
      BY <3>1, <3>4 DEF EvCallStands
    <3>. QED  BY <1>14, <2>1, <2>7, <2>8, <3>1, <3>3, <3>5, EvidenceCallMoves
  <2>9. CASE /\ candidate' = [candidate EXCEPT ![x.op] = rebased] /\ finished' = finished \ {x.op}
             /\ UNCHANGED opstate /\ EvEnd(c) /\ Refused(x.op, rebased)
    <3>1. isolated' \subseteq Revisions
      BY <1>i, <2>2, <2>9
    <3>. QED  BY <1>0, <1>14, <1>d, <2>1, <2>7, <2>9, <3>1 DEF around
  <2>. QED  BY <2>1, <2>4, <2>5, <2>6, <2>8, <2>9
<1>19. ASSUME UNCHANGED captures, NEW c \in Callers, LogPromotion(c) PROVE EvidenceInv'
  <2> DEFINE x == ingest[c]
  <2>1. /\ x.step = "log" /\ wals' = [wals EXCEPT ![x.op] = x.bundle] /\ EvGo(c, "swap")
        /\ UNCHANGED <<around, isolated, defined, claims, candidate, promoted, opstate, finished, owner, kbudget>>
    BY <1>19 DEF LogPromotion
  <2>2. x \in EvCalls /\ x.op \in Ingests /\ x.bundle \in ClaimBundles /\ BundleStands(x.op, x.bundle)
    BY <1>a, <2>1 DEF EvCallStands, EvCalls
  <2>3. wals' \in [Ingests -> ClaimBundles]
    BY <1>0, <2>1, <2>2
  <2>4. PICK y \in EvCalls : /\ ingest' = [ingest EXCEPT ![c] = y] /\ y.step = "swap"
                             /\ y.op = x.op /\ y.bundle = x.bundle
    BY <1>c, <2>1
  <2>5. BundleStands(y.op, y.bundle)'
    BY <1>19, <2>1, <2>2, <2>4 DEF BundleStands, SegmentOf
  <2>6. EvCallStands(c, y)'
    BY <2>4, <2>5 DEF EvCallStands
  <2>. QED  BY <1>0, <1>19, <1>e, <1>f, <2>1, <2>3, <2>4, <2>6
<1>15. ASSUME UNCHANGED captures, NEW c \in Callers, Commit(c) PROVE EvidenceInv'
  <2> DEFINE x == ingest[c]
  <2>1. /\ x.step = "swap" /\ UNCHANGED <<around, defined, candidate, wals, opstate, finished, kbudget>>
        /\ \/ /\ x.bundle.parent = claims.gen
              /\ claims' = [gen |-> claims.gen + 1,
                            evidence |-> [claims.evidence EXCEPT ![x.bundle.statement] = x.bundle.evidence],
                            recorded |-> [claims.recorded EXCEPT ![x.bundle.statement] = x.bundle.recorded]]
              /\ promoted' = [promoted EXCEPT ![x.op] = claims.gen + 1]
              /\ EvGo(c, "committed") /\ UNCHANGED <<isolated, owner>>
           \/ EvEnd(c) /\ (UNCHANGED isolated \/ Refused(x.op, x.bundle)) /\ UNCHANGED <<claims, promoted>>
           \/ promoted[x.op] = claims.gen /\ EvGo(c, "committed") /\ UNCHANGED <<isolated, owner, claims, promoted>>
    BY <1>15 DEF Commit
  <2>2. x \in EvCalls /\ x.op \in Ingests /\ x.bundle \in ClaimBundles /\ BundleStands(x.op, x.bundle)
    BY <1>a, <2>1 DEF EvCallStands, EvCalls
  <2>3. CASE EvEnd(c) /\ (UNCHANGED isolated \/ Refused(x.op, x.bundle)) /\ UNCHANGED <<claims, promoted>>
    <3>1. isolated' \subseteq Revisions
      BY <1>0, <1>i, <2>2, <2>3
    <3>. QED  BY <1>0, <1>15, <1>d, <2>1, <2>3, <3>1 DEF around
  <2>5. CASE promoted[x.op] = claims.gen /\ EvGo(c, "committed") /\ UNCHANGED <<isolated, owner, claims, promoted>>
    <3>1. PICK y \in EvCalls : ingest' = [ingest EXCEPT ![c] = y] /\ y.step = "committed" /\ y.op = x.op
      BY <1>c, <2>1, <2>5
    <3>2. Claimed(x.op)
      BY <1>0, <2>2, <2>5 DEF EvidenceInv
    <3>3. Claimed(y.op)'
      BY <1>15, <2>5, <3>1, <3>2 DEF Claimed, SegmentOf
    <3>4. EvCallStands(c, y)'
      BY <3>1, <3>3 DEF EvCallStands
    <3>. QED  BY <1>0, <1>15, <1>e, <1>f, <2>1, <2>5, <3>1, <3>4
  <2>4. CASE /\ x.bundle.parent = claims.gen
             /\ claims' = [gen |-> claims.gen + 1,
                           evidence |-> [claims.evidence EXCEPT ![x.bundle.statement] = x.bundle.evidence],
                           recorded |-> [claims.recorded EXCEPT ![x.bundle.statement] = x.bundle.recorded]]
             /\ promoted' = [promoted EXCEPT ![x.op] = claims.gen + 1]
             /\ EvGo(c, "committed") /\ UNCHANGED <<isolated, owner>>
    <3>1. /\ x.bundle.evidence \in SUBSET Segments /\ x.bundle.statement \in Statements /\ x.bundle.recorded \in Times
          /\ SegmentOf(x.op) \in x.bundle.evidence /\ claims.evidence[x.bundle.statement] \subseteq x.bundle.evidence
      BY <2>2, <2>4 DEF ClaimBundles, BundleStands
    <3>2. PICK y \in EvCalls : ingest' = [ingest EXCEPT ![c] = y] /\ y.step = "committed" /\ y.op = x.op
      BY <1>c, <2>1, <2>4
    <3>3. /\ claims' \in [gen : Nat, evidence : [Statements -> SUBSET Segments], recorded : [Statements -> Times]]
          /\ claims'.gen = claims.gen + 1
          /\ \A t \in Statements : claims'.evidence[t] = IF t = x.bundle.statement THEN x.bundle.evidence ELSE claims.evidence[t]
      BY <1>0, <2>4, <3>1
    <3>4. promoted' \in [Ingests -> Nat] /\ \A o \in Ingests : o # x.op => promoted'[o] = promoted[o]
      BY <1>0, <2>2, <2>4
    <3>5. EvidenceTypeOK'
      <4>1. ingest' \in [Callers -> EvCalls \cup {EvIdle}]
        BY <1>0, <3>2
      <4>. QED  BY <1>0, <2>1, <2>4, <3>3, <3>4, <4>1 DEF EvidenceTypeOK, around
    <3>a. PICK v \in Ingests : v = x.op
      BY <2>2
    <3>6. /\ \A o \in Ingests : Claimed(o) => Claimed(o)'
          /\ Claimed(v)'
      <4>1. \A o : SegmentOf(o)' = SegmentOf(o)
        BY <1>15 DEF SegmentOf
      <4>2. \A t \in Statements : claims.evidence[t] \subseteq claims'.evidence[t]
        BY <3>1, <3>3
      <4>3. SegmentOf(v) \in claims'.evidence[x.bundle.statement]
        BY <3>1, <3>3, <3>a
      <4>4. ASSUME NEW o \in Ingests, Claimed(o) PROVE Claimed(o)'
        BY <4>1, <4>2, <4>4 DEF Claimed
      <4>5. Claimed(v)'
        BY <3>1, <4>1, <4>3 DEF Claimed
      <4>. QED  BY <4>4, <4>5
    <3>7. \A o, b : BundleStands(o, b) => BundleStands(o, b)'
      <4> SUFFICES ASSUME NEW o, NEW b, BundleStands(o, b) PROVE BundleStands(o, b)'
        OBVIOUS
      <4>1. b.parent \in 1 .. claims.gen /\ b.statement \in Statements /\ SegmentOf(o) \in b.evidence
        BY DEF BundleStands
      <4>2. b.parent \in 1 .. claims'.gen /\ b.parent # claims'.gen
        BY <1>0, <3>3, <4>1
      <4>3. SegmentOf(o)' \in b.evidence
        BY <1>15, <4>1 DEF SegmentOf
      <4>. QED  BY <4>1, <4>2, <4>3 DEF BundleStands
    <3>8. ASSUME NEW d \in Callers, d # c, ingest[d] # EvIdle PROVE EvCallStands(d, ingest[d])'
      <4>1. ingest[d] \in EvCalls /\ EvCallStands(d, ingest[d]) /\ ingest'[d] = ingest[d]
        BY <1>0, <3>2, <3>8 DEF EvidenceInv
      <4>2. PICK z \in EvCalls : z = ingest[d]
        BY <4>1
      <4>3. z.op \in Ingests
        BY <4>2 DEF EvCalls
      <4>4. \A w : Definitions(w)' = Definitions(w)
        BY <2>1 DEF Definitions
      <4>5. EvCallStands(d, z)'
        BY <1>15, <2>1, <2>4, <3>6, <3>7, <4>1, <4>2, <4>3, <4>4 DEF EvCallStands
      <4>. QED  BY <4>1, <4>2, <4>5
    <3>9. EvCallStands(c, y)'
      BY <3>2, <3>6, <3>a DEF EvCallStands
    <3>10. (\A d \in Callers : ingest[d] # EvIdle => EvCallStands(d, ingest[d]))'
      BY <1>0, <3>2, <3>8, <3>9
    <3>11. (\A o \in Ingests : candidate[o] # NoCandidate => BundleStands(o, candidate[o]))'
      BY <2>1, <3>7 DEF EvidenceInv
    <3>12. (\A o \in Ingests : promoted[o] # 0 \/ o \in finished => Claimed(o))'
      <4>1. ASSUME NEW o \in Ingests, promoted'[o] # 0 \/ o \in finished' PROVE Claimed(o)'
        <5>1. CASE o = x.op
          BY <3>6, <3>a, <5>1
        <5>2. CASE o # x.op
          <6>1. Claimed(o)
            BY <2>1, <3>4, <4>1, <5>2 DEF EvidenceInv
          <6>. QED  BY <3>6, <6>1
        <5>. QED  BY <5>1, <5>2
      <4>. QED  BY <4>1
    <3>13. captures' \in Captures /\ claims'.gen > 0 /\ IsFiniteSet(defined')
      BY <1>0, <1>15, <2>1, <3>3
    <3>14. ~kbudget'.overtaken => \A d, e \in defined' : d[1] = e[1] => d = e
      BY <2>1 DEF EvidenceInv
    <3>. QED  BY <3>5, <3>10, <3>11, <3>12, <3>13, <3>14, Zenon DEF EvidenceInv
  <2>. QED  BY <2>1, <2>3, <2>4, <2>5
<1>20. ASSUME UNCHANGED captures, NEW c \in Callers, MarkCommitted(c) PROVE EvidenceInv'
  <2>1. /\ ingest[c].step = "committed" /\ opstate' = [opstate EXCEPT ![ingest[c].op] = "reconciling"]
        /\ EvGo(c, "reconcile")
        /\ UNCHANGED <<around, isolated, defined, claims, candidate, wals, promoted, finished, owner, kbudget>>
    BY <1>20 DEF MarkCommitted
  <2>2. ingest[c].op \in Ingests /\ Claimed(ingest[c].op)
    BY <1>a, <2>1 DEF EvCallStands
  <2>3. PICK y \in EvCalls : ingest' = [ingest EXCEPT ![c] = y] /\ y.step = "reconcile" /\ y.op = ingest[c].op
    BY <1>c, <2>1
  <2>4. Claimed(y.op)'
    BY <1>20, <2>1, <2>2, <2>3 DEF Claimed, SegmentOf
  <2>5. EvCallStands(c, y)'
    BY <2>3, <2>4 DEF EvCallStands
  <2>6. opstate' \in [Ingests -> {"open", "reconciling", "succeeded"}]
    BY <1>0, <2>1, <2>2
  <2>. QED  BY <1>0, <1>20, <1>e, <1>f, <2>1, <2>3, <2>5, <2>6
<1>21. ASSUME UNCHANGED captures, NEW c \in Callers, Conclude(c) PROVE EvidenceInv'
  <2>1. /\ ingest[c].step = "reconcile"
        /\ UNCHANGED <<around, isolated, defined, claims, candidate, wals, promoted, finished, kbudget>>
        /\ \/ opstate' = [opstate EXCEPT ![ingest[c].op] = "succeeded"] /\ EvGo(c, "close") /\ UNCHANGED owner
           \/ EvEnd(c) /\ UNCHANGED opstate
    BY <1>21 DEF Conclude
  <2>2. ingest[c].op \in Ingests /\ Claimed(ingest[c].op)
    BY <1>a, <2>1 DEF EvCallStands
  <2>3. CASE EvEnd(c) /\ UNCHANGED opstate
    BY <1>0, <1>21, <1>d, <2>1, <2>3 DEF around
  <2>4. CASE opstate' = [opstate EXCEPT ![ingest[c].op] = "succeeded"] /\ EvGo(c, "close") /\ UNCHANGED owner
    <3>1. PICK y \in EvCalls : ingest' = [ingest EXCEPT ![c] = y] /\ y.step = "close" /\ y.op = ingest[c].op
      BY <1>c, <2>1, <2>4
    <3>2. Claimed(y.op)'
      BY <1>21, <2>1, <2>2, <3>1 DEF Claimed, SegmentOf
    <3>3. EvCallStands(c, y)'
      BY <3>1, <3>2 DEF EvCallStands
    <3>4. opstate' \in [Ingests -> {"open", "reconciling", "succeeded"}]
      BY <1>0, <2>2, <2>4
    <3>. QED  BY <1>0, <1>21, <1>e, <1>f, <2>1, <2>4, <3>1, <3>3, <3>4
  <2>. QED  BY <2>1, <2>3, <2>4
<1>16. ASSUME UNCHANGED captures, NEW c \in Callers, Finish(c) PROVE EvidenceInv'
  <2>1. /\ ingest[c].step = "close" /\ finished' = finished \cup {ingest[c].op} /\ EvEnd(c)
        /\ UNCHANGED <<around, isolated, defined, claims, candidate, wals, promoted, opstate, kbudget>>
    BY <1>16 DEF Finish
  <2>2. ingest[c].op \in Ingests /\ Claimed(ingest[c].op)
    BY <1>a, <2>1 DEF EvCallStands
  <2>3. finished' \subseteq Ingests /\ \A o \in finished' : o \in finished \/ Claimed(o)
    BY <1>0, <2>1, <2>2
  <2>. QED  BY <1>0, <1>16, <1>d, <2>1, <2>3 DEF around
<1>17. ASSUME UNCHANGED captures, NEW c \in Callers, ReplaceProposal(c) PROVE EvidenceInv'
  <2> DEFINE x == ingest[c]
  <2>1. PICK b : /\ b = BundleOn(x.what, {SegmentOf(x.op)}, Afterwards) /\ x.step = "import"
                 /\ candidate' = [candidate EXCEPT ![x.op] = b] /\ finished' = finished \ {x.op} /\ EvEnd(c)
                 /\ UNCHANGED <<around, defined, claims, wals, promoted, opstate, kbudget>>
                 /\ UNCHANGED isolated \/ Refused(x.op, b)
    BY <1>17 DEF ReplaceProposal
  <2>2. x.op \in Ingests /\ x.what \in Statements
    BY <1>a, <2>1 DEF EvCallStands
  <2>3. b \in ClaimBundles /\ BundleStands(x.op, b)
    <3>1. {SegmentOf(x.op)} \in SUBSET Segments /\ Afterwards \in Times
      BY <1>0, <2>2, CapturesTyped DEF Times
    <3>. QED  BY <1>g, <1>h, <2>1, <2>2, <3>1
  <2>4. candidate' \in [Ingests -> ClaimBundles] /\ \A o \in Ingests : candidate'[o] = IF o = x.op THEN b ELSE candidate[o]
    BY <1>0, <2>1, <2>2, <2>3
  <2>5. ASSUME NEW o \in Ingests PROVE candidate'[o] = candidate[o] \/ BundleStands(o, candidate'[o])
    <3>1. CASE o = x.op
      BY <2>3, <2>4, <3>1, Zenon
    <3>. QED  BY <2>4, <3>1
  <2>6. finished' \subseteq Ingests /\ \A o \in finished' : o \in finished \/ Claimed(o)
    BY <1>0, <2>1
  <2>7. isolated' \subseteq Revisions
    BY <1>0, <1>i, <2>1, <2>2
  <2>. QED  BY <1>0, <1>17, <1>d, <2>1, <2>4, <2>5, <2>6, <2>7 DEF around
<1>18. ASSUME UNCHANGED captures, NEW c \in Callers, WorkerDies(c) PROVE EvidenceInv'
  <2>1. /\ ingest' = [ingest EXCEPT ![c] = EvIdle] /\ kbudget' = [kbudget EXCEPT !.changes = @ + 1]
        /\ UNCHANGED <<around, stored, owner>>
    BY <1>18 DEF WorkerDies, Change
  <2>2. ingest' \in [Callers -> EvCalls \cup {EvIdle}]
    BY <1>0, <2>1
  <2>3. EvidenceTypeOK'
    BY <1>0, <1>f, <2>1, <2>2 DEF EvidenceTypeOK, around, stored
  <2>. QED  BY <1>18, <1>b, <1>f, <2>1, <2>3, EvidenceCallMoves DEF stored
<1>. QED  BY <1>1, <1>2, <1>3, <1>4, <1>5, <1>6, <1>7, <1>9, <1>10, <1>11, <1>12, <1>13, <1>14, <1>15, <1>16, <1>17, <1>18,
              <1>19, <1>20, <1>21
          DEF EvidenceNext, EvidenceStep

\* An operation that succeeded has its segment in an active claim whatever is
\* promoted, rebased or imported since, for a bundle holds the evidence of the
\* generation it replaces; and while no live worker loses its preparation lease
\* a source or a revision is defined once (_merge_claim_with_generation and
\* _hold_preparation of ingestion.py).
THEOREM EvidenceAlwaysStands == Spec => []EvidenceStands
<1>1. Init => EvidenceInv
  BY EvidenceInvInit DEF Init
<1>2. EvidenceInv /\ [Next]_vars => EvidenceInv'
  BY AreaSteps, EvidenceInvStep
<1>3. EvidenceInv => EvidenceStands
  <2> SUFFICES ASSUME EvidenceInv PROVE EvidenceStands
    OBVIOUS
  <2>1. finished \subseteq Ingests
    <3>1. EvidenceTypeOK
      BY DEF EvidenceInv
    <3>. QED  BY <3>1, Zenon DEF EvidenceTypeOK
  <2>2. \A o \in finished : Claimed(o)
    BY <2>1 DEF EvidenceInv
  <2>3. ~kbudget.overtaken => \A x \in Files \cup Revisions : Cardinality(Definitions(x)) <= 1
    BY NoneDefined DEF EvidenceInv
  <2>. QED  BY <2>2, <2>3 DEF EvidenceStands, Claimed
<1>. QED  BY <1>1, <1>2, <1>3, PTL DEF Spec

-----------------------------------------------------------------------------
(* Skill authoring                                                          *)

\* Nobody calls, no intent is open, and the history starts with what is there.
LEMMA SkillInvInit == SkillInit => SkillInv
<1> SUFFICES ASSUME SkillInit PROVE SkillInv
  OBVIOUS
<1>1. PICK a : /\ folder = [s \in Skills |-> IF s = a THEN "none" ELSE "bare"]
               /\ live = [s \in Skills |-> IF s = a THEN NoFile ELSE [ino |-> 1, text |-> "first"]]
               /\ last = [s \in Skills |-> live[s].text]
  BY DEF SkillInit
<1>2. /\ wit = NoWitness /\ journal = NoIntent /\ saved = {} /\ slock = Unlocked
      /\ scall = [c \in Callers |-> SkillIdle] /\ pins = {} /\ stuck = FALSE
      /\ sbudget = [calls |-> 0, edits |-> 0, deaths |-> 0, ino |-> 1]
  BY DEF SkillInit
<1>3. NoFile \in SkillFiles /\ [ino |-> 1, text |-> "first"] \in SkillFiles
  BY DEF NoFile, SkillFiles, SkillTexts, NoText
<1>4. \A s \in Skills : live[s] \in SkillFiles /\ live[s].text \in SkillTexts
  BY <1>1, <1>3 DEF SkillFiles
<1>5. SkillTypeOK
  BY <1>1, <1>2, <1>3, <1>4 DEF SkillTypeOK, NoWitness, Unlocked
<1>6. LocksHeld
  BY <1>2 DEF LocksHeld, Unlocked, SkillIdle, Sharing, Alone, SkillSteps
<1>7. FilesStand(live, wit, folder, journal, saved, last, sbudget.ino)
  <2>1. \A s \in Skills : /\ folder[s] = "none" => live[s] = NoFile
                          /\ live[s].ino <= sbudget.ino /\ (live[s].ino = 0 => live[s] = NoFile)
    BY <1>1, <1>2 DEF NoFile
  <2>2. journal \notin SkillIntents
    BY <1>2 DEF NoIntent, SkillIntents
  <2>. QED  BY <1>1, <1>2, <2>1, <2>2 DEF FilesStand
<1>8. \A c \in Callers : SkillCallStands(scall[c], live, wit, folder, journal, saved, last, sbudget.ino)
  BY <1>2 DEF SkillCallStands, SkillIdle, Alone, SkillSteps
<1>. QED  BY <1>5, <1>6, <1>7, <1>8 DEF SkillInv

\* A call that is not idle has a request and the identity of a file.
LEMMA SkillCallShapes ==
    ASSUME SkillTypeOK, NEW c \in Callers
    PROVE  /\ scall[c] \in SkillCalls \cup {SkillIdle} /\ SkillIdle.step = "idle" /\ SkillIdle \notin SkillCalls
           /\ scall[c].step # "idle" => /\ scall[c] \in SkillCalls /\ scall[c].file \in SkillFiles
                                        /\ scall[c].step \in SkillSteps
BY DEF SkillTypeOK, SkillIdle, SkillCalls, SkillSteps

\* The call that goes on is the same but for its step.
LEMMA SkillCallGoes ==
    ASSUME SkillTypeOK, NEW c \in Callers, scall[c].step # "idle", NEW step \in SkillSteps, Step(c, step)
    PROVE  \E k \in SkillCalls : /\ scall' = [scall EXCEPT ![c] = k]
                                 /\ k.step = step /\ k.req = scall[c].req /\ k.file = scall[c].file
<1>1. scall[c] \in SkillCalls
  BY SkillCallShapes
<1>2. [scall[c] EXCEPT !.step = step] \in SkillCalls
  BY <1>1 DEF SkillCalls
<1>3. /\ [scall[c] EXCEPT !.step = step].step = step /\ [scall[c] EXCEPT !.step = step].req = scall[c].req
      /\ [scall[c] EXCEPT !.step = step].file = scall[c].file
  BY <1>1 DEF SkillCalls
<1>4. scall' = [scall EXCEPT ![c] = [scall[c] EXCEPT !.step = step]]
  BY DEF Step
<1>. QED  BY <1>2, <1>3, <1>4

\* ... and with a file it read or made, its file.
LEMMA SkillCallHolds ==
    ASSUME SkillTypeOK, NEW c \in Callers, scall[c].step # "idle", NEW step \in SkillSteps,
           NEW f \in SkillFiles, Holding(c, step, f)
    PROVE  \E k \in SkillCalls : /\ scall' = [scall EXCEPT ![c] = k]
                                 /\ k.step = step /\ k.req = scall[c].req /\ k.file = f
<1>1. scall[c] \in SkillCalls
  BY SkillCallShapes
<1> DEFINE k == [step |-> step, req |-> scall[c].req, file |-> f]
<1>2. k \in SkillCalls /\ k.step = step /\ k.req = scall[c].req /\ k.file = f
  BY <1>1 DEF SkillCalls
<1>. QED  BY <1>2 DEF Holding

\* A call keeps the lock it has while it goes on, and gives it back when it
\* ends or queues again.
LEMMA SkillLocks ==
    ASSUME SkillTypeOK, LocksHeld, NEW c \in Callers, NEW k \in SkillCalls \cup {SkillIdle},
           scall' = [scall EXCEPT ![c] = k],
           \/ slock' = slock /\ scall[c].step \in Alone /\ k.step \in Alone
           \/ slock' = slock /\ scall[c].step \in Sharing /\ k.step \in Sharing
           \/ slock' = slock /\ k.step \notin Alone \cup Sharing
           \/ Unlocking(c) /\ k.step \notin Alone \cup Sharing
    PROVE  LocksHeld' /\ slock' \in [exclusive : SUBSET Callers, shared : SUBSET Callers]
<1>1. \A d \in Callers : scall'[d] = IF d = c THEN k ELSE scall[d]
  BY DEF SkillTypeOK
<1>2. slock' \in [exclusive : SUBSET Callers, shared : SUBSET Callers]
  BY DEF SkillTypeOK, Unlocking
<1>3. CASE slock' = slock
  <2>1. Alone \cap Sharing = {}
    BY DEF Alone, Sharing
  <2>2. ASSUME NEW d \in Callers
        PROVE  /\ scall'[d].step \in Sharing => d \in slock'.shared
               /\ scall'[d].step \in Alone => slock'.exclusive = {d}
    BY <1>1, <1>3, <2>1 DEF LocksHeld, Unlocking
  <2>. QED  BY <1>2, <1>3, <2>2 DEF LocksHeld
<1>4. CASE Unlocking(c) /\ k.step \notin Alone \cup Sharing
  <2>1. slock'.exclusive = slock.exclusive \ {c} /\ slock'.shared = slock.shared \ {c}
    BY <1>4 DEF Unlocking
  <2>2. ASSUME NEW d \in Callers
        PROVE  /\ scall'[d].step \in Sharing => d \in slock'.shared
               /\ scall'[d].step \in Alone => slock'.exclusive = {d}
    BY <1>1, <1>4, <2>1 DEF LocksHeld
  <2>. QED  BY <1>2, <2>1, <2>2 DEF LocksHeld
<1>. QED  BY <1>3, <1>4

\* A step that moves only a call and its lock keeps the invariant when the
\* call it leaves stands.
LEMMA SkillCallMoves ==
    ASSUME SkillInv, NEW c \in Callers, NEW k \in SkillCalls \cup {SkillIdle},
           scall' = [scall EXCEPT ![c] = k],
           LocksHeld', slock' \in [exclusive : SUBSET Callers, shared : SUBSET Callers],
           sbudget' \in [calls : Nat, edits : Nat, deaths : Nat, ino : Nat], sbudget'.ino = sbudget.ino,
           stuck' \in BOOLEAN,
           UNCHANGED <<live, wit, folder, journal, saved, pins, last>>,
           SkillCallStands(k, live, wit, folder, journal, saved, last, sbudget.ino)
    PROVE  SkillInv'
<1>1. SkillTypeOK'
  BY DEF SkillInv, SkillTypeOK
<1>2. FilesStand(live, wit, folder, journal, saved, last, sbudget.ino)'
  BY DEF SkillInv
<1>3. \A d \in Callers : SkillCallStands(scall[d], live, wit, folder, journal, saved, last, sbudget.ino)'
  BY DEF SkillInv, SkillTypeOK
<1>. QED  BY <1>1, <1>2, <1>3 DEF SkillInv

\* Under the exclusive lock nobody else is past the locks.
LEMMA SkillAloneMoves ==
    ASSUME SkillInv, NEW c \in Callers, scall[c].step \in Alone, NEW k \in SkillCalls \cup {SkillIdle},
           scall' = [scall EXCEPT ![c] = k],
           \/ slock' = slock /\ k.step \in Alone
           \/ Unlocking(c) /\ k.step \notin Alone \cup Sharing,
           SkillTypeOK',
           FilesStand(live, wit, folder, journal, saved, last, sbudget.ino)',
           SkillCallStands(k, live, wit, folder, journal, saved, last, sbudget.ino)'
    PROVE  SkillInv'
<1>1. LocksHeld'
  BY SkillLocks DEF SkillInv
<1>2. ASSUME NEW d \in Callers, d # c PROVE scall'[d] = scall[d] /\ scall[d].step \in {"idle", "lock", "share"}
  <2>1. scall[d].step \notin Alone /\ scall[d].step \notin Sharing
    BY <1>2 DEF SkillInv, LocksHeld
  <2>2. scall[d].step \in SkillSteps \cup {"idle"}
    BY SkillCallShapes DEF SkillInv
  <2>. QED  BY <1>2, <2>1, <2>2 DEF SkillInv, SkillTypeOK, Alone, Sharing
<1>3. ASSUME NEW d \in Callers PROVE SkillCallStands(scall[d], live, wit, folder, journal, saved, last, sbudget.ino)'
  <2>1. CASE d = c
    BY <2>1 DEF SkillInv, SkillTypeOK
  <2>2. CASE d # c
    <3>1. scall'[d].step \in {"idle", "lock", "share"}
      BY <1>2, <2>2
    <3>. QED  BY <3>1 DEF SkillCallStands, Alone, SkillSteps
  <2>. QED  BY <2>1, <2>2
<1>. QED  BY <1>1, <1>3 DEF SkillInv
\* A request is what a client saw of the catalog, or one that was made before.
LEMMA SkillAsks ==
    ASSUME SkillInv, NEW c \in Callers, Author(c) \/ RecoverPending(c) \/ ReadCatalog(c)
    PROVE  SkillInv'
<1>1. \A s \in Skills, t \in SaveTexts : SaveRequest(s, t) \in SkillRequests
  BY DEF SkillInv, SkillTypeOK, SaveRequest, SkillRequests, Catalog, SkillTexts, SkillFiles
<1>2. \A s \in Skills, t \in Local : ForkRequest(s, t) \in SkillRequests
  BY SkillAssumption DEF SkillInv, SkillTypeOK, ForkRequest, SkillRequests, Catalog, SkillFiles
<1>3. \E k \in SkillCalls : AskSkill(c, k) /\ k.step \in {"lock", "share"}
  <2>0. NoFile \in SkillFiles
    BY DEF NoFile, SkillFiles, SkillTexts, NoText
  <2>1. CASE Author(c)
    <3>1. PICK req \in SkillRequests : AskSkill(c, [step |-> "lock", req |-> req, file |-> NoFile])
      BY <1>1, <1>2, <2>1 DEF Author, SkillInv, SkillTypeOK
    <3>2. [step |-> "lock", req |-> req, file |-> NoFile] \in SkillCalls
      BY <2>0 DEF SkillCalls, SkillSteps
    <3>. QED  BY <3>1, <3>2
  <2>2. CASE RecoverPending(c)
    <3>2. [step |-> "lock", req |-> [op |-> "recover"], file |-> NoFile] \in SkillCalls
      BY <2>0 DEF SkillCalls, SkillSteps
    <3>. QED  BY <2>2, <3>2 DEF RecoverPending
  <2>3. CASE ReadCatalog(c)
    <3>2. [step |-> "share", req |-> [op |-> "read"], file |-> NoFile] \in SkillCalls
      BY <2>0 DEF SkillCalls, SkillSteps
    <3>. QED  BY <2>3, <3>2 DEF ReadCatalog
  <2>. QED  BY <2>1, <2>2, <2>3
<1>4. PICK k \in SkillCalls : AskSkill(c, k) /\ k.step \in {"lock", "share"}
  BY <1>3
<1>5. /\ scall' = [scall EXCEPT ![c] = k] /\ slock' = slock /\ sbudget' = [sbudget EXCEPT !.calls = @ + 1]
      /\ UNCHANGED <<live, wit, folder, journal, saved, pins, last, stuck>>
  BY <1>4 DEF AskSkill
<1>6. LocksHeld' /\ slock' \in [exclusive : SUBSET Callers, shared : SUBSET Callers]
  BY <1>4, <1>5, SkillLocks DEF SkillInv, Alone, Sharing
<1>7. sbudget' \in [calls : Nat, edits : Nat, deaths : Nat, ino : Nat] /\ sbudget'.ino = sbudget.ino
  BY <1>5 DEF SkillInv, SkillTypeOK
<1>8. SkillCallStands(k, live, wit, folder, journal, saved, last, sbudget.ino)
  BY <1>4 DEF SkillCallStands, Alone, SkillSteps
<1>9. stuck' \in BOOLEAN
  BY <1>5 DEF SkillInv, SkillTypeOK
<1>. QED  BY <1>5, <1>6, <1>7, <1>8, <1>9, SkillCallMoves

\* Taking the locks, and reading under the shared one.
LEMMA SkillQueues ==
    ASSUME SkillInv, NEW c \in Callers,
           LockExclusive(c) \/ LockShared(c) \/ LookPending(c) \/ LeaveReading(c)
    PROVE  SkillInv'
<1>0. /\ SkillTypeOK /\ LocksHeld /\ stuck \in BOOLEAN
      /\ sbudget \in [calls : Nat, edits : Nat, deaths : Nat, ino : Nat]
      /\ slock \in [exclusive : SUBSET Callers, shared : SUBSET Callers]
  BY DEF SkillInv, SkillTypeOK
<1>1. UNCHANGED <<live, wit, folder, journal, saved, pins, sbudget, last, stuck>>
  BY DEF LockExclusive, LockShared, LookPending, LeaveReading
<1>2. \A k : k.step \in {"idle", "lock", "share", "pending", "recover"} =>
               SkillCallStands(k, live, wit, folder, journal, saved, last, sbudget.ino)
  BY DEF SkillCallStands, Alone, SkillSteps
<1>3. CASE LockExclusive(c)
  <2>1. scall[c].step = "lock" /\ slock = Unlocked /\ slock' = [slock EXCEPT !.exclusive = {c}] /\ Step(c, "recover")
    BY <1>3 DEF LockExclusive
  <2>2. PICK k \in SkillCalls : scall' = [scall EXCEPT ![c] = k] /\ k.step = "recover"
    BY <1>0, <2>1, SkillCallGoes DEF SkillSteps
  <2>3. slock' = [exclusive |-> {c}, shared |-> {}]
    BY <1>0, <2>1 DEF Unlocked
  <2>4. \A d \in Callers : scall[d].step \notin Alone \cup Sharing
    BY <1>0, <2>1 DEF LocksHeld, Unlocked
  <2>5. LocksHeld'
    BY <1>0, <2>2, <2>3, <2>4 DEF LocksHeld, Sharing, SkillTypeOK
  <2>6. SkillCallStands(k, live, wit, folder, journal, saved, last, sbudget.ino)
    BY <1>2, <2>2
  <2>7. slock' \in [exclusive : SUBSET Callers, shared : SUBSET Callers]
    BY <1>0, <2>3
  <2>. QED  BY <1>0, <1>1, <2>2, <2>5, <2>6, <2>7, SkillCallMoves
<1>4. CASE LockShared(c)
  <2>1. /\ scall[c].step = "share" /\ slock.exclusive = {} /\ slock' = [slock EXCEPT !.shared = @ \cup {c}]
        /\ Step(c, "pending")
    BY <1>4 DEF LockShared
  <2>2. PICK k \in SkillCalls : scall' = [scall EXCEPT ![c] = k] /\ k.step = "pending"
    BY <1>0, <2>1, SkillCallGoes DEF SkillSteps
  <2>3. slock' = [exclusive |-> {}, shared |-> slock.shared \cup {c}]
    BY <1>0, <2>1
  <2>4. \A d \in Callers : scall[d].step \notin Alone
    BY <1>0, <2>1 DEF LocksHeld
  <2>5. LocksHeld'
    BY <1>0, <2>2, <2>3, <2>4 DEF LocksHeld, Alone, SkillTypeOK
  <2>6. SkillCallStands(k, live, wit, folder, journal, saved, last, sbudget.ino)
    BY <1>2, <2>2
  <2>7. slock' \in [exclusive : SUBSET Callers, shared : SUBSET Callers]
    BY <1>0, <2>3
  <2>. QED  BY <1>0, <1>1, <2>2, <2>5, <2>6, <2>7, SkillCallMoves
<1>5. CASE LookPending(c) /\ NothingPending
  <2>1. scall[c].step = "pending" /\ Step(c, "reading") /\ slock' = slock /\ journal = NoIntent
    BY <1>5 DEF LookPending, NothingPending
  <2>2. PICK k \in SkillCalls : scall' = [scall EXCEPT ![c] = k] /\ k.step = "reading"
    BY <1>0, <2>1, SkillCallGoes DEF SkillSteps
  <2>3. SkillCallStands(k, live, wit, folder, journal, saved, last, sbudget.ino)
    BY <2>1, <2>2 DEF SkillCallStands, Alone, SkillSteps
  <2>4. LocksHeld'
    BY <1>0, <2>1, <2>2, SkillLocks DEF Sharing
  <2>. QED  BY <1>0, <1>1, <2>1, <2>2, <2>3, <2>4, SkillCallMoves
<1>6. CASE LookPending(c) /\ ~NothingPending
  <2>1. scall[c].step = "pending" /\ Step(c, "lock") /\ Unlocking(c)
    BY <1>6 DEF LookPending
  <2>2. PICK k \in SkillCalls : scall' = [scall EXCEPT ![c] = k] /\ k.step = "lock"
    BY <1>0, <2>1, SkillCallGoes DEF SkillSteps
  <2>4. LocksHeld' /\ slock' \in [exclusive : SUBSET Callers, shared : SUBSET Callers]
    BY <1>0, <2>1, <2>2, SkillLocks DEF Sharing, Alone
  <2>6. SkillCallStands(k, live, wit, folder, journal, saved, last, sbudget.ino)
    BY <1>2, <2>2
  <2>. QED  BY <1>0, <1>1, <2>2, <2>4, <2>6, SkillCallMoves
<1>7. CASE LeaveReading(c)
  <2>1. Unlocking(c) /\ scall' = [scall EXCEPT ![c] = SkillIdle] /\ SkillIdle.step = "idle"
    BY <1>7 DEF LeaveReading, End, SkillIdle
  <2>4. LocksHeld' /\ slock' \in [exclusive : SUBSET Callers, shared : SUBSET Callers]
    BY <1>0, <2>1, SkillLocks DEF Sharing, Alone, SkillSteps
  <2>6. SkillCallStands(SkillIdle, live, wit, folder, journal, saved, last, sbudget.ino)
    BY <1>2, <2>1
  <2>. QED  BY <1>0, <1>1, <2>1, <2>4, <2>6, SkillCallMoves
<1>. QED  BY <1>3, <1>4, <1>5, <1>6, <1>7

\* A call that ends under the exclusive lock, or queues again, keeps the
\* invariant when the files stand.
LEMMA SkillEnds ==
    ASSUME SkillInv, NEW c \in Callers, scall[c].step \in Alone, Unlocking(c),
           scall' = [scall EXCEPT ![c] = SkillIdle] \/ Step(c, "share") ,
           live' \in [Skills -> SkillFiles],
           wit' \in [temp : SkillFiles, guard : SkillFiles, displaced : SkillFiles],
           folder' \in [Skills -> {"none", "bare", "marked"}],
           journal' \in {NoIntent, Torn} \cup SkillIntents, saved' \subseteq SkillRequests, pins' = pins,
           sbudget' \in [calls : Nat, edits : Nat, deaths : Nat, ino : Nat],
           last' \in [Skills -> SkillTexts], stuck' \in BOOLEAN,
           FilesStand(live, wit, folder, journal, saved, last, sbudget.ino)'
    PROVE  SkillInv'
<1>0. SkillTypeOK /\ LocksHeld /\ scall[c].step # "idle" /\ SkillIdle.step = "idle"
  BY DEF SkillInv, Alone, SkillSteps, SkillIdle
<1>1. PICK k \in SkillCalls \cup {SkillIdle} : scall' = [scall EXCEPT ![c] = k] /\ k.step \in {"idle", "share"}
  <2>1. CASE Step(c, "share")
    BY <1>0, <2>1, SkillCallGoes DEF SkillSteps
  <2>. QED  BY <1>0, <2>1
<1>2. k.step \notin Alone \cup Sharing
  BY <1>1 DEF Alone, Sharing, SkillSteps
<1>3. LocksHeld' /\ slock' \in [exclusive : SUBSET Callers, shared : SUBSET Callers]
  BY <1>0, <1>1, <1>2, SkillLocks
<1>4. SkillTypeOK'
  BY <1>0, <1>1, <1>3 DEF SkillTypeOK
<1>5. SkillCallStands(k, live, wit, folder, journal, saved, last, sbudget.ino)'
  BY <1>1 DEF SkillCallStands, Alone, SkillSteps
<1>. QED  BY <1>1, <1>2, <1>4, <1>5, SkillAloneMoves

\* A recovery that needs a person leaves everything as it is.
LEMMA SkillStops ==
    ASSUME SkillInv, NEW c \in Callers, scall[c].step \in Alone, Manual(c) \/ (End(c) /\ UNCHANGED stuck),
           UNCHANGED <<live, wit, folder, journal, saved, pins, sbudget, last>>
    PROVE  SkillInv'
<1>1. Unlocking(c) /\ scall' = [scall EXCEPT ![c] = SkillIdle]
  BY DEF Manual, End
<1>2. stuck' \in BOOLEAN
  BY DEF Manual, SkillInv, SkillTypeOK
<1>3. FilesStand(live, wit, folder, journal, saved, last, sbudget.ino)'
  BY DEF SkillInv
<1>. QED  BY <1>1, <1>2, <1>3, SkillEnds DEF SkillInv, SkillTypeOK
\* A call that goes on with the files as they are.
LEMMA SkillGoesOn ==
    ASSUME SkillInv, NEW c \in Callers, scall[c].step \in Alone, NEW step \in Alone, Step(c, step),
           UNCHANGED <<live, wit, folder, journal, saved, slock, pins, sbudget, last, stuck>>,
           \A k \in SkillCalls : k.step = step /\ k.req = scall[c].req /\ k.file = scall[c].file
                                   => SkillCallStands(k, live, wit, folder, journal, saved, last, sbudget.ino)
    PROVE  SkillInv'
<1>0. SkillTypeOK /\ LocksHeld /\ scall[c].step # "idle" /\ step \in SkillSteps
  BY DEF SkillInv, Alone, SkillSteps
<1>1. PICK k \in SkillCalls : /\ scall' = [scall EXCEPT ![c] = k]
                              /\ k.step = step /\ k.req = scall[c].req /\ k.file = scall[c].file
  BY <1>0, SkillCallGoes
<1>2. LocksHeld' /\ slock' \in [exclusive : SUBSET Callers, shared : SUBSET Callers]
  BY <1>0, <1>1, SkillLocks
<1>. QED  BY <1>0, <1>1, <1>2, SkillCallMoves DEF SkillTypeOK

\* After a recovery there is no intent, and a writer goes on to decide.
LEMMA SkillRecovered ==
    ASSUME SkillInv, NEW c \in Callers, scall[c].step \in Alone, Recovered(c) \/ End(c), journal' = NoIntent,
           UNCHANGED <<live, wit, folder, saved, pins, sbudget, last, stuck>>,
           FilesStand(live, wit, folder, journal, saved, last, sbudget.ino)'
    PROVE  SkillInv'
<1>0. SkillTypeOK /\ LocksHeld /\ scall[c].step # "idle"
  BY DEF SkillInv, Alone, SkillSteps
<1>1. CASE Unlocking(c) /\ (Step(c, "share") \/ scall' = [scall EXCEPT ![c] = SkillIdle])
  <2>1. /\ live' \in [Skills -> SkillFiles]
        /\ wit' \in [temp : SkillFiles, guard : SkillFiles, displaced : SkillFiles]
        /\ folder' \in [Skills -> {"none", "bare", "marked"}]
        /\ journal' \in {NoIntent, Torn} \cup SkillIntents /\ saved' \subseteq SkillRequests /\ pins' = pins
        /\ sbudget' \in [calls : Nat, edits : Nat, deaths : Nat, ino : Nat]
        /\ last' \in [Skills -> SkillTexts] /\ stuck' \in BOOLEAN
    BY <1>0 DEF SkillTypeOK
  <2>. QED  BY <1>1, <2>1, SkillEnds
<1>2. CASE scall[c].req.op \notin {"read", "recover"} /\ Step(c, "decide") /\ UNCHANGED slock
  <2>1. PICK k \in SkillCalls : scall' = [scall EXCEPT ![c] = k] /\ k.step = "decide" /\ k.req = scall[c].req
    BY <1>0, <1>2, SkillCallGoes DEF SkillSteps
  <2>2. k.req \in SkillRequests
    BY <1>2, <2>1 DEF SkillCalls
  <2>3. SkillCallStands(k, live, wit, folder, journal, saved, last, sbudget.ino)'
    BY <2>1, <2>2 DEF SkillCallStands
  <2>4. SkillTypeOK'
    BY <1>0, <1>2, <2>1 DEF SkillTypeOK
  <2>5. k.step \in Alone
    BY <2>1 DEF Alone, SkillSteps
  <2>. QED  BY <1>2, <2>1, <2>3, <2>4, <2>5, SkillAloneMoves
<1>. QED  BY <1>1, <1>2 DEF Recovered, End

\* Recovery goes the way the receipt says.
LEMMA SkillRecovers == ASSUME SkillInv, NEW c \in Callers, Recover(c) PROVE SkillInv'
<1>0. SkillTypeOK /\ scall[c].step = "recover" /\ scall[c].step \in Alone
  BY DEF SkillInv, Recover, Alone, SkillSteps
<1>1. UNCHANGED <<live, wit, folder, journal, saved, pins, sbudget, last>>
  BY DEF Recover
<1>2. CASE journal = NoIntent
  <2>1. Recovered(c) /\ UNCHANGED stuck
    BY <1>2 DEF Recover, NoIntent, Torn
  <2>2. FilesStand(live, wit, folder, journal, saved, last, sbudget.ino)'
    BY <1>1 DEF SkillInv
  <2>. QED  BY <1>0, <1>1, <1>2, <2>1, <2>2, SkillRecovered
<1>3. CASE journal = Torn
  <2>1. Manual(c)
    BY <1>3 DEF Recover, NoIntent, Torn
  <2>. QED  BY <1>0, <1>1, <2>1, SkillStops
<1>4. CASE journal \notin {NoIntent, Torn}
  <2>1. journal \in SkillIntents
    BY <1>0, <1>4 DEF SkillTypeOK
  <2>2. PICK step \in {"finish", "restore"} : /\ Step(c, step) /\ UNCHANGED <<slock, stuck>>
                                             /\ (step = "finish" <=> journal.req \in saved)
    BY <1>4 DEF Recover, ReceiptCommitted
  <2>3. step \in Alone
    BY DEF Alone, SkillSteps
  <2>4. ASSUME NEW k \in SkillCalls, k.step = step
        PROVE  SkillCallStands(k, live, wit, folder, journal, saved, last, sbudget.ino)
    <3>1. StepStands(k, live[journal.req.target], wit, journal.ino, journal.req, last[journal.req.target], sbudget.ino)
      BY <2>4 DEF StepStands, SavingSteps, ForkingSteps
    <3>2. /\ k.step \notin {"reading", "decide", "intent", "forget", "unfork", "rmdir", "load", "commit"}
          /\ k.step \notin SavingSteps \cup ForkingSteps \cup UnsavingSteps
      BY <2>4 DEF SavingSteps, ForkingSteps, UnsavingSteps
    <3>3. k.step = "finish" <=> journal.req \in saved
      BY <2>2, <2>4
    <3>4. k.step \in {"finish", "restore"}
      BY <2>4
    <3>. QED  BY <2>1, <3>1, <3>2, <3>3, <3>4 DEF SkillCallStands
  <2>5. UNCHANGED <<live, wit, folder, journal, saved, slock, pins, sbudget, last, stuck>>
    BY <1>1, <2>2
  <2>. QED  BY <1>0, <2>2, <2>3, <2>4, <2>5, SkillGoesOn
<1>. QED  BY <1>2, <1>3, <1>4

\* A transaction opens on the catalog its client saw; the place of a fork is free.
LEMMA SkillDecides == ASSUME SkillInv, NEW c \in Callers, Decide(c) PROVE SkillInv'
<1> DEFINE req == scall[c].req
<1>0. /\ SkillTypeOK /\ scall[c].step = "decide" /\ scall[c].step \in Alone
      /\ FilesStand(live, wit, folder, journal, saved, last, sbudget.ino)
      /\ SkillCallStands(scall[c], live, wit, folder, journal, saved, last, sbudget.ino)
  BY DEF SkillInv, Decide, Alone, SkillSteps
<1>1. UNCHANGED <<live, wit, folder, journal, saved, pins, sbudget, last, stuck>>
  BY DEF Decide
<1>2. journal = NoIntent /\ req \in SkillRequests
  BY <1>0 DEF SkillCallStands
<1>3. CASE End(c)
  BY <1>0, <1>1, <1>3, SkillStops
<1>4. CASE Step(c, "intent") /\ UNCHANGED slock /\ req \notin saved /\ live[req.skill] # NoFile /\ AsOpened(req)
           /\ (req.op = "fork" => folder[req.target] = "none")
  <2>1. req.target \in Skills /\ (req.op = "save" => req.skill = req.target)
    BY <1>2 DEF SkillRequests
  <2>2. req.op = "fork" => req.cat[req.target] = NoText
    BY <1>0, <1>4, <2>1 DEF FilesStand, AsOpened, Catalog, NoFile
  <2>3. ASSUME NEW k \in SkillCalls, k.step = "intent", k.req = req
        PROVE  SkillCallStands(k, live, wit, folder, journal, saved, last, sbudget.ino)
    BY <1>2, <1>4, <2>1, <2>2, <2>3 DEF SkillCallStands
  <2>. QED  BY <1>0, <1>1, <1>4, <2>3, SkillGoesOn DEF Alone, SkillSteps
<1>. QED  BY <1>2, <1>3, <1>4 DEF Decide, SkillRequests

\* What a transaction under way knows, in one place.
LEMMA SkillAtWork ==
    ASSUME SkillInv, NEW c \in Callers, scall[c].step \in Alone \ {"recover", "decide", "intent"}
    PROVE  /\ SkillTypeOK /\ scall[c] \in SkillCalls /\ scall[c].file \in SkillFiles
           /\ journal \in SkillIntents /\ journal.ino \in Nat /\ journal.req \in SkillRequests
           /\ journal.req.target \in Skills /\ live[journal.req.target] \in SkillFiles
           /\ wit.temp \in SkillFiles /\ wit.guard \in SkillFiles /\ wit.displaced \in SkillFiles
           /\ sbudget.ino \in Nat /\ last[journal.req.target] \in SkillTexts
           /\ FilesStand(live, wit, folder, journal, saved, last, sbudget.ino)
           /\ InodesName(live[journal.req.target], wit, sbudget.ino)
           /\ StepStands(scall[c], live[journal.req.target], wit, journal.ino, journal.req,
                         last[journal.req.target], sbudget.ino)
           /\ SkillCallStands(scall[c], live, wit, folder, journal, saved, last, sbudget.ino)
           /\ journal.req \notin saved /\ journal.req.op = "save" =>
                SaveStands(live[journal.req.target], wit, journal.req, journal.ino, last[journal.req.target])
           /\ journal.req \notin saved /\ journal.req.op = "fork" =>
                ForkStands(live[journal.req.target], wit, journal.req, journal.ino, last[journal.req.target])
<1>1. /\ SkillTypeOK /\ FilesStand(live, wit, folder, journal, saved, last, sbudget.ino)
      /\ SkillCallStands(scall[c], live, wit, folder, journal, saved, last, sbudget.ino)
  BY DEF SkillInv
<1>2. scall[c] \in SkillCalls /\ scall[c].file \in SkillFiles
  BY <1>1, SkillCallShapes DEF Alone, SkillSteps
<1>3. /\ journal \in SkillIntents
      /\ StepStands(scall[c], live[journal.req.target], wit, journal.ino, journal.req,
                    last[journal.req.target], sbudget.ino)
  BY <1>1 DEF SkillCallStands
<1>4. journal.ino \in Nat /\ journal.req \in SkillRequests /\ journal.req.target \in Skills
  BY <1>3 DEF SkillIntents, SkillRequests
<1>5. /\ live[journal.req.target] \in SkillFiles /\ sbudget.ino \in Nat /\ last[journal.req.target] \in SkillTexts
      /\ wit.temp \in SkillFiles /\ wit.guard \in SkillFiles /\ wit.displaced \in SkillFiles
  BY <1>1, <1>4 DEF SkillTypeOK
<1>6. /\ InodesName(live[journal.req.target], wit, sbudget.ino)
      /\ journal.req \notin saved /\ journal.req.op = "save" =>
           SaveStands(live[journal.req.target], wit, journal.req, journal.ino, last[journal.req.target])
      /\ journal.req \notin saved /\ journal.req.op = "fork" =>
           ForkStands(live[journal.req.target], wit, journal.req, journal.ino, last[journal.req.target])
  BY <1>1, <1>3, <1>4 DEF FilesStand
<1>. QED  BY <1>1, <1>2, <1>3, <1>4, <1>5, <1>6

\* The intent is written before anything on the disk is touched.
LEMMA SkillIntends == ASSUME SkillInv, NEW c \in Callers, WriteIntent(c) PROVE SkillInv'
<1> DEFINE req == scall[c].req  t == req.target
<1>0. /\ SkillTypeOK /\ scall[c].step = "intent" /\ scall[c].step \in Alone /\ scall[c].step # "idle"
      /\ FilesStand(live, wit, folder, journal, saved, last, sbudget.ino)
      /\ SkillCallStands(scall[c], live, wit, folder, journal, saved, last, sbudget.ino)
  BY DEF SkillInv, WriteIntent, Alone, SkillSteps
<1>1. /\ UNCHANGED <<live, wit, folder, saved, slock, pins, sbudget, last, stuck>>
      /\ journal' = [state |-> "open", req |-> req, ino |-> 0]
  BY DEF WriteIntent
<1>2. /\ journal = NoIntent /\ req \in SkillRequests /\ req \notin saved
      /\ req.op = "save" => live[t] # NoFile
      /\ req.op = "fork" => req.cat[t] = NoText
  BY <1>0 DEF SkillCallStands
<1>3. t \in Skills /\ req.op \in {"save", "fork"} /\ sbudget.ino \in Nat /\ live[t] \in SkillFiles
  BY <1>0, <1>2 DEF SkillRequests, SkillTypeOK
<1>4. journal' \in SkillIntents /\ journal'.req = req /\ journal'.ino = 0
  BY <1>1, <1>2 DEF SkillIntents
<1>5. /\ wit = NoWitness /\ \A s \in Skills : live[s].text = last[s]
      /\ live[t].ino <= sbudget.ino /\ (live[t].ino = 0 => live[t] = NoFile)
  BY <1>0, <1>2, <1>3 DEF FilesStand
<1>6. PICK k \in SkillCalls : /\ scall' = [scall EXCEPT ![c] = k] /\ k.req = req
                              /\ k.step = IF req.op = "save" THEN "temp" ELSE "mkdir"
  BY <1>0, SkillCallGoes DEF WriteIntent, SkillSteps
<1>7. SkillTypeOK'
  BY <1>0, <1>1, <1>4, <1>6 DEF SkillTypeOK
<1>8. InodesName(live[t], wit, sbudget.ino) /\ ~Ours(live[t], wit, 0)
  BY <1>3, <1>5 DEF InodesName, NoWitness, NoFile, Ours
<1>9. /\ req.op = "save" => SaveStands(live[t], wit, req, 0, last[t])
      /\ req.op = "fork" => ForkStands(live[t], wit, req, 0, last[t])
  BY <1>2, <1>3, <1>5, <1>8 DEF SaveStands, ForkStands, NoWitness, NoFile, Ours
<1>10. FilesStand(live, wit, folder, journal, saved, last, sbudget.ino)'
  <2>1. journal' # NoIntent
    BY <1>1 DEF NoIntent
  <2>2. \A s \in Skills : /\ folder[s] = "none" => live[s] = NoFile
                          /\ live[s].ino <= sbudget.ino /\ (live[s].ino = 0 => live[s] = NoFile)
    BY <1>0 DEF FilesStand
  <2>3. req.op = "save" => folder[t] # "none"
    BY <1>2, <1>3, <2>2
  <2>. QED  BY <1>1, <1>2, <1>3, <1>4, <1>5, <1>8, <1>9, <2>1, <2>2, <2>3 DEF FilesStand
<1>11. SkillCallStands(k, live, wit, folder, journal, saved, last, sbudget.ino)'
  <2>1. StepStands(k, live[t], wit, 0, req, last[t], sbudget.ino)
    BY <1>2, <1>3, <1>5, <1>6 DEF StepStands, SavingSteps, ForkingSteps
  <2>2. StepStands(k, live[journal.req.target], wit, journal.ino, journal.req, last[journal.req.target], sbudget.ino)'
    BY <1>1, <1>4, <2>1
  <2>. QED  BY <1>1, <1>2, <1>3, <1>4, <1>6, <2>2
            DEF SkillCallStands, Alone, SkillSteps, SavingSteps, ForkingSteps, UnsavingSteps
<1>12. k.step \in Alone
  BY <1>6 DEF Alone, SkillSteps
<1>. QED  BY <1>0, <1>1, <1>6, <1>7, <1>10, <1>11, <1>12, SkillAloneMoves
\* A step of an uncommitted transaction touches the target and the witnesses
\* alone: the files stand when those two do.
LEMMA SkillTargetStands ==
    ASSUME SkillTypeOK, FilesStand(live, wit, folder, journal, saved, last, sbudget.ino),
           journal \in SkillIntents, journal.req \notin saved,
           NEW n \in Nat, NEW g \in SkillFiles, NEW w \in [temp : SkillFiles, guard : SkillFiles, displaced : SkillFiles],
           live' = [live EXCEPT ![journal.req.target] = g], wit' = w, journal' = [journal EXCEPT !.ino = n],
           UNCHANGED <<saved, last>>, folder' \in [Skills -> {"none", "bare", "marked"}],
           \A s \in Skills : s = journal.req.target \/ folder'[s] = folder[s],
           folder'[journal.req.target] = "none" => g = NoFile /\ journal.req.op # "save",
           NEW m \in Nat, sbudget'.ino = m, sbudget.ino <= m, n <= m, InodesName(g, w, m),
           journal.req.op = "save" => SaveStands(g, w, journal.req, n, last[journal.req.target]),
           journal.req.op = "fork" => ForkStands(g, w, journal.req, n, last[journal.req.target])
    PROVE  /\ FilesStand(live, wit, folder, journal, saved, last, sbudget.ino)'
           /\ journal' \in SkillIntents /\ journal'.req = journal.req /\ journal'.ino = n
           /\ live'[journal.req.target] = g
<1> DEFINE t == journal.req.target
<1>1. t \in Skills /\ sbudget.ino \in Nat
  BY DEF SkillIntents, SkillRequests, SkillTypeOK
<1>2. journal' \in SkillIntents /\ journal'.req = journal.req /\ journal'.ino = n /\ journal' # NoIntent
  BY DEF SkillIntents, NoIntent
<1>3. \A s \in Skills : live'[s] = IF s = t THEN g ELSE live[s]
  BY <1>1 DEF SkillTypeOK
<1>4. g.ino <= m /\ (g.ino = 0 => g = NoFile)
  BY DEF InodesName, NoFile
<1>5. ASSUME NEW s \in Skills
      PROVE  /\ folder'[s] = "none" => live'[s] = NoFile
             /\ live'[s].ino <= m /\ (live'[s].ino = 0 => live'[s] = NoFile)
             /\ s # t => live'[s].text = last[s]
  <2>1. /\ folder[s] = "none" => live[s] = NoFile
        /\ live[s].ino <= sbudget.ino /\ (live[s].ino = 0 => live[s] = NoFile)
        /\ s # t => live[s].text = last[s]
    BY DEF FilesStand
  <2>2. live[s].ino \in Nat
    BY DEF SkillTypeOK, SkillFiles
  <2>. QED  BY <1>1, <1>3, <1>4, <2>1, <2>2
<1>6. live'[t] = g
  BY <1>1, <1>3
<1>. QED  BY <1>2, <1>5, <1>6 DEF FilesStand

\* Such a step keeps the invariant when the call that goes on stands.
LEMMA SkillTargetMoves ==
    ASSUME SkillInv, NEW c \in Callers, scall[c].step \in Alone \ {"recover", "decide", "intent"},
           journal.req \notin saved,
           NEW k \in SkillCalls, scall' = [scall EXCEPT ![c] = k], slock' = slock,
           k.step \in Alone \ {"recover", "decide", "intent", "finish"},
           NEW n \in Nat, NEW g \in SkillFiles, NEW w \in [temp : SkillFiles, guard : SkillFiles, displaced : SkillFiles],
           live' = [live EXCEPT ![journal.req.target] = g], wit' = w, journal' = [journal EXCEPT !.ino = n],
           UNCHANGED <<saved, last, pins, stuck>>, folder' \in [Skills -> {"none", "bare", "marked"}],
           \A s \in Skills : s = journal.req.target \/ folder'[s] = folder[s],
           folder'[journal.req.target] = "none" => g = NoFile /\ journal.req.op # "save",
           sbudget' \in [calls : Nat, edits : Nat, deaths : Nat, ino : Nat],
           NEW m \in Nat, sbudget'.ino = m, sbudget.ino <= m, n <= m, InodesName(g, w, m),
           journal.req.op = "save" => SaveStands(g, w, journal.req, n, last[journal.req.target]),
           journal.req.op = "fork" => ForkStands(g, w, journal.req, n, last[journal.req.target]),
           StepStands(k, g, w, n, journal.req, last[journal.req.target], m),
           k.step \in SavingSteps \cup ForkingSteps \cup {"load", "commit"} => k.req = journal.req,
           k.step \in SavingSteps \cup UnsavingSteps => journal.req.op = "save",
           k.step \in ForkingSteps \cup {"unfork", "rmdir"} => journal.req.op = "fork",
           k.step = "create" => folder'[journal.req.target] # "none"
    PROVE  SkillInv'
<1>0. SkillTypeOK /\ FilesStand(live, wit, folder, journal, saved, last, sbudget.ino) /\ journal \in SkillIntents
  BY SkillAtWork
<1>1. /\ FilesStand(live, wit, folder, journal, saved, last, sbudget.ino)'
      /\ journal' \in SkillIntents /\ journal'.req = journal.req /\ journal'.ino = n
      /\ live'[journal.req.target] = g
  BY <1>0, SkillTargetStands
<1>2. SkillTypeOK'
  BY <1>0, <1>1 DEF SkillTypeOK
<1>3. StepStands(k, live[journal.req.target], wit, journal.ino, journal.req, last[journal.req.target], sbudget.ino)'
  BY <1>1
<1>4. k.step \notin {"reading", "decide", "intent", "finish"}
  BY DEF Alone
<1>5. SkillCallStands(k, live, wit, folder, journal, saved, last, sbudget.ino)'
  BY <1>1, <1>3, <1>4 DEF SkillCallStands
<1>. QED  BY <1>1, <1>2, <1>5, SkillAloneMoves

\* A file put into an empty or another place has a fresh inode.
LEMMA FreshInode ==
    ASSUME NEW t \in SkillTexts, sbudget \in [calls : Nat, edits : Nat, deaths : Nat, ino : Nat]
    PROVE  /\ NextFile(t) \in SkillFiles /\ NextFile(t).ino = sbudget.ino + 1 /\ NextFile(t).text = t
           /\ NewIno => /\ sbudget' \in [calls : Nat, edits : Nat, deaths : Nat, ino : Nat]
                        /\ sbudget'.ino = sbudget.ino + 1
BY DEF NextFile, NewIno, SkillFiles
\* A transaction that cannot go on turns to its rollback.
LEMMA SkillTurnsBack ==
    ASSUME SkillInv, NEW c \in Callers, scall[c].step \in Alone \ {"recover", "decide", "intent"},
           journal.req \notin saved,
           Step(c, "restore") \/ (Step(c, "unfork") /\ journal.req.op = "fork"),
           UNCHANGED <<live, wit, folder, journal, saved, slock, pins, sbudget, last, stuck>>
    PROVE  SkillInv'
<1>1. PICK step \in {"restore", "unfork"} : Step(c, step) /\ (step = "unfork" => journal.req.op = "fork")
  OBVIOUS
<1>2. journal \in SkillIntents
  BY SkillAtWork
<1>3. ASSUME NEW k \in SkillCalls, k.step = step
      PROVE  SkillCallStands(k, live, wit, folder, journal, saved, last, sbudget.ino)
  <2>1. StepStands(k, live[journal.req.target], wit, journal.ino, journal.req, last[journal.req.target], sbudget.ino)
    BY <1>3 DEF StepStands, SavingSteps, ForkingSteps
  <2>2. /\ k.step \notin {"reading", "decide", "intent", "forget", "finish", "rmdir", "load", "commit", "create"}
        /\ k.step \notin SavingSteps \cup ForkingSteps \cup UnsavingSteps
    BY <1>3 DEF SavingSteps, ForkingSteps, UnsavingSteps
  <2>3. k.step = "unfork" => journal.req.op = "fork"
    BY <1>1, <1>3
  <2>. QED  BY <1>2, <2>1, <2>2, <2>3 DEF SkillCallStands
<1>4. step \in Alone
  BY DEF Alone, SkillSteps
<1>. QED  BY <1>1, <1>3, <1>4, SkillGoesOn

\* A step of a save that keeps its lock keeps the invariant when target,
\* witnesses and the call that goes on stand.
LEMMA SkillSaveMoves ==
    ASSUME SkillInv, NEW c \in Callers, scall[c].step \in Alone \ {"recover", "decide", "intent"},
           NEW req, req = journal.req, req \notin saved, req.op = "save", NEW t, t = last[req.target],
           NEW k \in SkillCalls, scall' = [scall EXCEPT ![c] = k],
           k.step \in SavingSteps \cup UnsavingSteps \cup {"restore", "load", "forget"},
           k.req = req \/ k.step \in UnsavingSteps \cup {"restore", "forget"},
           NEW n \in Nat, NEW g \in SkillFiles, NEW w \in [temp : SkillFiles, guard : SkillFiles, displaced : SkillFiles],
           live' = [live EXCEPT ![req.target] = g], wit' = w, journal' = [journal EXCEPT !.ino = n],
           UNCHANGED <<folder, saved, slock, last, pins, stuck>>,
           sbudget' \in [calls : Nat, edits : Nat, deaths : Nat, ino : Nat],
           NEW m \in Nat, sbudget'.ino = m, sbudget.ino <= m, n <= m, InodesName(g, w, m),
           SaveStands(g, w, req, n, t), StepStands(k, g, w, n, req, t, m)
    PROVE  SkillInv'
<1>0. SkillTypeOK /\ folder[req.target] # "none"
  BY SkillAtWork DEF FilesStand
<1>1. /\ k.step \in Alone \ {"recover", "decide", "intent", "finish"}
      /\ k.step \notin ForkingSteps \cup {"unfork", "rmdir", "commit"} /\ k.step # "create"
      /\ k.step \in SavingSteps \cup {"load"} => k.step \notin UnsavingSteps \cup {"restore", "forget"}
  BY DEF Alone, SkillSteps, SavingSteps, ForkingSteps, UnsavingSteps
<1>2. k.step \in SavingSteps \cup ForkingSteps \cup {"load", "commit"} => k.req = journal.req
  BY <1>1
<1>3. folder' \in [Skills -> {"none", "bare", "marked"}] /\ folder' = folder
  BY <1>0 DEF SkillTypeOK
<1>4. journal.req.op = "save" /\ journal.req.op # "fork"
  OBVIOUS
<1>5. /\ SaveStands(g, w, journal.req, n, last[journal.req.target])
      /\ StepStands(k, g, w, n, journal.req, last[journal.req.target], m)
      /\ live' = [live EXCEPT ![journal.req.target] = g] /\ journal.req \notin saved
      /\ folder'[journal.req.target] # "none"
  BY <1>0, <1>3
<1>. QED  BY <1>1, <1>2, <1>3, <1>4, <1>5, SkillTargetMoves

\* Most steps of a save leave intent and inode numbers alone.
LEMMA SkillSaveKeeps ==
    ASSUME SkillInv, NEW c \in Callers, scall[c].step \in Alone \ {"recover", "decide", "intent"},
           NEW req, req = journal.req, req \notin saved, req.op = "save", NEW t, t = last[req.target],
           NEW k \in SkillCalls, scall' = [scall EXCEPT ![c] = k],
           k.step \in SavingSteps \cup UnsavingSteps \cup {"restore", "load", "forget"},
           k.req = req \/ k.step \in UnsavingSteps \cup {"restore", "forget"},
           NEW g \in SkillFiles, NEW w \in [temp : SkillFiles, guard : SkillFiles, displaced : SkillFiles],
           live' = [live EXCEPT ![req.target] = g], wit' = w,
           UNCHANGED <<folder, journal, saved, slock, sbudget, last, pins, stuck>>,
           NEW n \in Nat, n = journal.ino, NEW m \in Nat, m = sbudget.ino,
           InodesName(g, w, m), SaveStands(g, w, req, n, t), StepStands(k, g, w, n, req, t, m)
    PROVE  SkillInv'
<1>1. /\ SkillTypeOK /\ journal \in SkillIntents /\ n \in Nat /\ m \in Nat /\ n <= m
  BY SkillAtWork DEF FilesStand
<1>2. journal' = [journal EXCEPT !.ino = n] /\ sbudget' \in [calls : Nat, edits : Nat, deaths : Nat, ino : Nat]
  BY <1>1 DEF SkillIntents, SkillTypeOK
<1>3. sbudget'.ino = m /\ sbudget.ino <= m /\ UNCHANGED <<folder, saved, slock, last, pins, stuck>>
  BY <1>1
<1>4. CASE UNCHANGED <<folder, saved, slock, last, pins, stuck>>
  BY ONLY SkillInv, c \in Callers, scall[c].step \in Alone \ {"recover", "decide", "intent"},
          req = journal.req, req \notin saved, req.op = "save", t = last[req.target],
          k \in SkillCalls, scall' = [scall EXCEPT ![c] = k],
          k.step \in SavingSteps \cup UnsavingSteps \cup {"restore", "load", "forget"},
          k.req = req \/ k.step \in UnsavingSteps \cup {"restore", "forget"},
          n \in Nat, g \in SkillFiles, w \in [temp : SkillFiles, guard : SkillFiles, displaced : SkillFiles],
          live' = [live EXCEPT ![req.target] = g], wit' = w, m \in Nat,
          InodesName(g, w, m), SaveStands(g, w, req, n, t), StepStands(k, g, w, n, req, t, m),
          <1>1, <1>2, <1>3, <1>4, SkillSaveMoves
<1>. QED  BY <1>3, <1>4

\* What a save under way knows of its own request.
LEMMA SkillSaving ==
    ASSUME SkillInv, NEW c \in Callers, scall[c].step \in SavingSteps
    PROVE  /\ scall[c].step \in Alone \ {"recover", "decide", "intent"} /\ scall[c].step # "idle"
           /\ journal.req \notin saved /\ journal.req.op = "save"
           /\ scall[c].req = journal.req /\ scall[c].req.skill = journal.req.target
           /\ journal.req.text \in SkillTexts
<1>1. scall[c].step \in Alone \ {"recover", "decide", "intent", "finish", "forget"} /\ scall[c].step # "idle"
  BY DEF SavingSteps, Alone, SkillSteps
<1>2. journal.req \notin saved /\ journal.req.op = "save" /\ scall[c].req = journal.req /\ journal.req \in SkillRequests
  BY <1>1, SkillAtWork DEF SkillCallStands
<1>. QED  BY <1>1, <1>2 DEF SkillRequests

\* The proposed file gets a name of its own.
LEMMA SkillOpensTemp == ASSUME SkillInv, NEW c \in Callers, OpenTemp(c) PROVE SkillInv'
<1>0. scall[c].step = "temp" /\ scall[c].step \in SavingSteps
  BY DEF OpenTemp, SavingSteps
<1>1. /\ scall[c].step \in Alone \ {"recover", "decide", "intent"} /\ scall[c].step # "idle"
      /\ journal.req \notin saved /\ journal.req.op = "save"
      /\ scall[c].req = journal.req /\ scall[c].req.skill = journal.req.target
  BY <1>0, SkillSaving
<1>2. PICK f, req, t, n, m, u : /\ u = m + 1 /\ f = live[req.target] /\ req = journal.req /\ t = last[req.target]
                             /\ n = journal.ino /\ m = sbudget.ino
  OBVIOUS
<1>3. /\ SkillTypeOK /\ f \in SkillFiles /\ m \in Nat /\ u \in Nat /\ u = m + 1 /\ n = 0 /\ wit = NoWitness /\ f # NoFile
      /\ InodesName(f, wit, m) /\ SaveStands(f, wit, req, n, t) /\ journal \in SkillIntents /\ req.target \in Skills
      /\ FilesStand(live, wit, folder, journal, saved, last, sbudget.ino)
  BY <1>0, <1>1, <1>2, SkillAtWork DEF StepStands, SavingSteps
<1>4. CASE f.text = req.cat[req.target]
  <2>1. PICK p : p = NextFile("partial")
    OBVIOUS
  <2>2. PICK w : w = [temp |-> p, guard |-> NoFile, displaced |-> NoFile]
    OBVIOUS
  <2>3. /\ p \in SkillFiles /\ p.ino = u /\ p.text = "partial"
        /\ NewIno => /\ sbudget' \in [calls : Nat, edits : Nat, deaths : Nat, ino : Nat]
                     /\ sbudget'.ino = u
    BY <1>2, <1>3, <2>1, FreshInode DEF SkillTypeOK, SkillTexts
  <2>4. wit' = w /\ NewIno /\ Holding(c, "fill", f) /\ UNCHANGED <<live, folder, journal, saved, slock, pins, last, stuck>>
    BY <1>1, <1>2, <1>3, <1>4, <2>1, <2>2 DEF OpenTemp, NoWitness
  <2>5. PICK k \in SkillCalls : scall' = [scall EXCEPT ![c] = k] /\ k.step = "fill" /\ k.req = req /\ k.file = f
    BY <1>1, <1>2, <1>3, <2>4, SkillCallHolds DEF SkillSteps
  <2>6. NoFile \in SkillFiles /\ w \in [temp : SkillFiles, guard : SkillFiles, displaced : SkillFiles]
    BY <2>2, <2>3 DEF NoFile, SkillFiles, SkillTexts, NoText
  <2>7. f.ino \in Nat /\ f.ino <= m /\ f.ino # 0
    BY <1>3 DEF InodesName, SkillFiles, NoFile
  <2>8. InodesName(f, w, u)
    BY <1>3, <2>2, <2>3, <2>7 DEF InodesName, NoFile
  <2>9. ~Ours(f, w, 0) /\ ~Ours(f, wit, 0) /\ ~Ours(NoFile, w, 0)
    BY <1>3, <2>2, <2>3, <2>7 DEF Ours, NoWitness, NoFile
  <2>10. SaveStands(f, w, req, n, t)
    BY <1>3, <2>2, <2>9 DEF SaveStands, NoWitness
  <2>11. StepStands(k, f, w, n, req, t, u)
    <3>1. w.temp # NoFile
      BY <1>3, <2>2, <2>3 DEF NoFile
    <3>. QED  BY <1>3, <1>4, <2>2, <2>5, <2>7, <2>9, <3>1 DEF StepStands, SavingSteps, ForkingSteps
  <2>12. live' = [live EXCEPT ![req.target] = f] /\ journal' = [journal EXCEPT !.ino = n]
    BY <1>2, <1>3, <2>4 DEF SkillTypeOK, SkillIntents
  <2>13. n \in Nat /\ n <= u /\ sbudget.ino <= u /\ u \in Nat
    BY <1>2, <1>3
  <2>14. k.step \in SavingSteps
    BY <2>5 DEF SavingSteps
  <2>15. /\ req = journal.req /\ req \notin saved /\ req.op = "save" /\ t = last[req.target]
         /\ k.step \in SavingSteps \cup UnsavingSteps \cup {"restore", "load", "forget"}
         /\ UNCHANGED <<folder, saved, slock, last, pins, stuck>>
         /\ sbudget' \in [calls : Nat, edits : Nat, deaths : Nat, ino : Nat] /\ sbudget'.ino = u
    BY <1>1, <1>2, <2>3, <2>4, <2>14
  <2>. QED  BY <1>1, <1>3, <2>4, <2>5, <2>6, <2>8, <2>10, <2>11, <2>12, <2>13, <2>15, SkillSaveMoves
<1>5. CASE f.text # req.cat[req.target]
  BY <1>0, <1>1, <1>2, <1>5, SkillTurnsBack DEF OpenTemp
<1>. QED  BY <1>4, <1>5
\* What a save under way knows of target, witnesses and intent.
LEMMA SkillSaveView ==
    ASSUME SkillInv, NEW c \in Callers,
           scall[c].step \in SavingSteps \cup UnsavingSteps \/ (scall[c].step = "restore" /\ journal.req.op = "save"),
           NEW req, req = journal.req, NEW f, f = live[req.target], NEW t, t = last[req.target],
           NEW n, n = journal.ino, NEW m, m = sbudget.ino, NEW w, w = wit
    PROVE  /\ scall[c].step \in Alone \ {"recover", "decide", "intent"} /\ scall[c].step # "idle"
           /\ req \notin saved /\ req.op = "save" /\ req.target \in Skills
           /\ scall[c].step \in SavingSteps => scall[c].req = req /\ scall[c].req.skill = req.target /\ req.text \in SkillTexts
           /\ SkillTypeOK /\ scall[c].file \in SkillFiles /\ journal \in SkillIntents /\ n \in Nat /\ m \in Nat /\ n <= m
           /\ f \in SkillFiles /\ w \in [temp : SkillFiles, guard : SkillFiles, displaced : SkillFiles]
           /\ NoFile \in SkillFiles /\ NoFile.ino = 0
           /\ InodesName(f, w, m) /\ SaveStands(f, w, req, n, t) /\ StepStands(scall[c], f, w, n, req, t, m)
           /\ live = [live EXCEPT ![req.target] = f] /\ journal = [journal EXCEPT !.ino = n]
<1>1. scall[c].step \in Alone \ {"recover", "decide", "intent", "finish", "forget"} /\ scall[c].step # "idle"
  BY DEF SavingSteps, UnsavingSteps, Alone, SkillSteps
<1>2. /\ SkillTypeOK /\ scall[c].file \in SkillFiles /\ journal \in SkillIntents /\ n \in Nat /\ m \in Nat
      /\ f \in SkillFiles /\ req.target \in Skills /\ journal.req \in SkillRequests
      /\ InodesName(f, w, m) /\ StepStands(scall[c], f, w, n, req, t, m)
  BY <1>1, SkillAtWork
<1>3. /\ req \notin saved /\ req.op = "save" /\ (scall[c].step \in SavingSteps => scall[c].req = req)
      /\ n <= m
  BY <1>1, SkillAtWork DEF SkillCallStands, FilesStand
<1>4. SaveStands(f, w, req, n, t)
  BY <1>1, <1>3, SkillAtWork
<1>5. w \in [temp : SkillFiles, guard : SkillFiles, displaced : SkillFiles]
  BY <1>2 DEF SkillTypeOK
<1>6. NoFile \in SkillFiles /\ NoFile.ino = 0
  BY DEF NoFile, SkillFiles, SkillTexts, NoText
<1>7. live = [live EXCEPT ![req.target] = f] /\ journal = [journal EXCEPT !.ino = n]
  BY <1>2 DEF SkillTypeOK, SkillIntents
<1>8. scall[c].step \in SavingSteps => scall[c].req = req /\ scall[c].req.skill = req.target /\ req.text \in SkillTexts
  BY <1>2, <1>3 DEF SkillRequests
<1>. QED  BY <1>1, <1>2, <1>3, <1>4, <1>5, <1>6, <1>7, <1>8

\* The proposed file is written; nobody else has it.
LEMMA SkillFillsTemp == ASSUME SkillInv, NEW c \in Callers, FillTemp(c) PROVE SkillInv'
<1>0. scall[c].step = "fill" /\ scall[c].step \in SavingSteps
  BY DEF FillTemp, SavingSteps
<1>1. PICK req, f, t, n, m, w : /\ req = journal.req /\ f = live[req.target] /\ t = last[req.target]
                                /\ n = journal.ino /\ m = sbudget.ino /\ w = wit
  OBVIOUS
<1>2. /\ scall[c].step \in Alone \ {"recover", "decide", "intent"} /\ scall[c].step # "idle"
      /\ req \notin saved /\ req.op = "save" /\ scall[c].req = req /\ req.text \in SkillTexts
      /\ SkillTypeOK /\ n \in Nat /\ m \in Nat /\ f \in SkillFiles
      /\ w \in [temp : SkillFiles, guard : SkillFiles, displaced : SkillFiles]
      /\ live = [live EXCEPT ![req.target] = f]
  BY <1>0, <1>1, SkillSaveView
<1>3. InodesName(f, w, m) /\ SaveStands(f, w, req, n, t) /\ StepStands(scall[c], f, w, n, req, t, m)
  BY <1>0, <1>1, SkillSaveView
<1>4. /\ w.guard = NoFile /\ w.displaced = NoFile /\ f # NoFile /\ scall[c].file.text = req.cat[req.target]
      /\ scall[c].file.ino <= m /\ (f.ino = scall[c].file.ino => f = scall[c].file)
      /\ w.temp # NoFile /\ ~Ours(f, w, n) /\ n = 0
  BY <1>0, <1>3 DEF StepStands, SavingSteps
<1>5. PICK p : p = [w.temp EXCEPT !.text = req.text]
  OBVIOUS
<1>6. p \in SkillFiles /\ p.ino = w.temp.ino /\ p.text = req.text
  BY <1>2, <1>5 DEF SkillFiles
<1>7. PICK v : v = [temp |-> p, guard |-> NoFile, displaced |-> NoFile]
  OBVIOUS
<1>8. wit' = v /\ v \in [temp : SkillFiles, guard : SkillFiles, displaced : SkillFiles]
  BY <1>1, <1>2, <1>4, <1>5, <1>6, <1>7 DEF FillTemp
<1>9. PICK k \in SkillCalls : /\ scall' = [scall EXCEPT ![c] = k] /\ k.step = "guard" /\ k.req = req /\ k.file = scall[c].file
  BY <1>2, SkillCallGoes DEF FillTemp, SkillSteps
<1>10. w.temp.ino # 0 /\ f.ino # 0 /\ f.ino # w.temp.ino /\ f.ino <= m /\ w.temp.ino <= m
  BY <1>2, <1>3, <1>4 DEF InodesName, Ours, NoFile, SkillFiles
<1>11. InodesName(f, v, m)
  BY <1>2, <1>6, <1>7, <1>10 DEF InodesName, NoFile
<1>12. ~Ours(f, v, n) /\ ~Ours(NoFile, v, n)
  BY <1>4, <1>6, <1>7, <1>10 DEF Ours, NoFile
<1>13. SaveStands(f, v, req, n, t)
  BY <1>3, <1>4, <1>7, <1>12 DEF SaveStands
<1>14. StepStands(k, f, v, n, req, t, m)
  <2>1. v.temp # NoFile
    BY <1>6, <1>7, <1>10 DEF NoFile
  <2>. QED  BY <1>4, <1>6, <1>7, <1>9, <1>12, <2>1 DEF StepStands, SavingSteps, ForkingSteps
<1>15. k.step \in SavingSteps
  BY <1>9 DEF SavingSteps
<1>16. live' = [live EXCEPT ![req.target] = f] /\ UNCHANGED <<folder, journal, saved, slock, sbudget, last, pins, stuck>>
  BY <1>2 DEF FillTemp
<1>. QED  BY <1>1, <1>2, <1>8, <1>9, <1>11, <1>13, <1>14, <1>15, <1>16, SkillSaveKeeps
\* The guard is the original: the file that was read is still in place.
LEMMA SkillLinksGuard == ASSUME SkillInv, NEW c \in Callers, LinkGuard(c) PROVE SkillInv'
<1>0. scall[c].step = "guard" /\ scall[c].step \in SavingSteps
  BY DEF LinkGuard, SavingSteps
<1>1. PICK req, f, t, n, m, w : /\ req = journal.req /\ f = live[req.target] /\ t = last[req.target]
                                /\ n = journal.ino /\ m = sbudget.ino /\ w = wit
  OBVIOUS
<1>2. /\ scall[c].step \in Alone \ {"recover", "decide", "intent"} /\ scall[c].step # "idle"
      /\ req \notin saved /\ req.op = "save" /\ scall[c].req = req /\ scall[c].req.skill = req.target
      /\ SkillTypeOK /\ n \in Nat /\ m \in Nat /\ f \in SkillFiles /\ NoFile \in SkillFiles /\ NoFile.ino = 0
      /\ w \in [temp : SkillFiles, guard : SkillFiles, displaced : SkillFiles]
      /\ live = [live EXCEPT ![req.target] = f]
  BY <1>0, <1>1, SkillSaveView
<1>3. InodesName(f, w, m) /\ SaveStands(f, w, req, n, t) /\ StepStands(scall[c], f, w, n, req, t, m)
  BY <1>0, <1>1, SkillSaveView
<1>4. /\ w.guard = NoFile /\ w.displaced = NoFile /\ f # NoFile /\ scall[c].file.text = req.cat[req.target]
      /\ (f.ino = scall[c].file.ino => f = scall[c].file)
      /\ w.temp # NoFile /\ ~Ours(f, w, n) /\ n = 0 /\ w.temp.text = req.text
  BY <1>0, <1>3 DEF StepStands, SavingSteps
<1>5. CASE Same(f, scall[c].file)
  <2>1. f.text = req.cat[req.target]
    BY <1>4, <1>5 DEF Same
  <2>2. PICK v : v = [temp |-> w.temp, guard |-> f, displaced |-> NoFile]
    OBVIOUS
  <2>3. wit' = v /\ v \in [temp : SkillFiles, guard : SkillFiles, displaced : SkillFiles]
    BY <1>1, <1>2, <1>4, <1>5, <2>2 DEF LinkGuard
  <2>4. PICK k \in SkillCalls : /\ scall' = [scall EXCEPT ![c] = k] /\ k.step = "displace" /\ k.req = req
    BY <1>1, <1>2, <1>4, <1>5, SkillCallGoes DEF LinkGuard, SkillSteps
  <2>5. InodesName(f, v, m)
    BY <1>3, <1>4, <2>2 DEF InodesName
  <2>6. ~Ours(f, v, n) /\ ~Ours(NoFile, v, n)
    BY <1>2, <1>4, <2>2 DEF Ours
  <2>7. SaveStands(f, v, req, n, t)
    BY <1>3, <1>4, <2>1, <2>2, <2>6 DEF SaveStands
  <2>8. StepStands(k, f, v, n, req, t, m)
    BY <1>4, <2>2, <2>4, <2>6 DEF StepStands, SavingSteps, ForkingSteps
  <2>9. k.step \in SavingSteps
    BY <2>4 DEF SavingSteps
  <2>10. live' = [live EXCEPT ![req.target] = f] /\ UNCHANGED <<folder, journal, saved, slock, sbudget, last, pins, stuck>>
    BY <1>2 DEF LinkGuard
  <2>. QED  BY <1>1, <1>2, <2>3, <2>4, <2>5, <2>7, <2>8, <2>9, <2>10, SkillSaveKeeps
<1>6. CASE ~Same(f, scall[c].file)
  BY <1>1, <1>2, <1>6, SkillTurnsBack DEF LinkGuard
<1>. QED  BY <1>5, <1>6

\* Whatever is in place is moved aside, and what is moved aside is the last text.
LEMMA SkillDisplaces == ASSUME SkillInv, NEW c \in Callers, Displace(c) PROVE SkillInv'
<1>0. scall[c].step = "displace" /\ scall[c].step \in SavingSteps
  BY DEF Displace, SavingSteps
<1>1. PICK req, f, t, n, m, w : /\ req = journal.req /\ f = live[req.target] /\ t = last[req.target]
                                /\ n = journal.ino /\ m = sbudget.ino /\ w = wit
  OBVIOUS
<1>2. /\ scall[c].step \in Alone \ {"recover", "decide", "intent"} /\ scall[c].step # "idle"
      /\ req \notin saved /\ req.op = "save" /\ scall[c].req = req /\ scall[c].req.skill = req.target
      /\ SkillTypeOK /\ n \in Nat /\ m \in Nat /\ f \in SkillFiles /\ NoFile \in SkillFiles /\ NoFile.ino = 0
      /\ w \in [temp : SkillFiles, guard : SkillFiles, displaced : SkillFiles]
      /\ live = [live EXCEPT ![req.target] = f]
  BY <1>0, <1>1, SkillSaveView
<1>3. InodesName(f, w, m) /\ SaveStands(f, w, req, n, t) /\ StepStands(scall[c], f, w, n, req, t, m)
  BY <1>0, <1>1, SkillSaveView
<1>4. w.temp # NoFile /\ ~Ours(f, w, n) /\ n = 0 /\ w.temp.text = req.text
  BY <1>0, <1>3 DEF StepStands, SavingSteps
<1>5. CASE f # NoFile
  <2>2. PICK v : v = [temp |-> w.temp, guard |-> w.guard, displaced |-> f]
    OBVIOUS
  <2>3. wit' = v /\ v \in [temp : SkillFiles, guard : SkillFiles, displaced : SkillFiles]
    BY <1>1, <1>2, <1>5, <2>2 DEF Displace
  <2>4. PICK k \in SkillCalls : /\ scall' = [scall EXCEPT ![c] = k] /\ k.step = "compare" /\ k.req = req
    BY <1>1, <1>2, <1>5, SkillCallGoes DEF Displace, SkillSteps
  <2>5. InodesName(NoFile, v, m)
    BY <1>3, <2>2 DEF InodesName
  <2>6. ~Ours(f, v, n) /\ ~Ours(NoFile, v, n) /\ (Ours(w.guard, v, n) <=> Ours(w.guard, w, n))
    BY <1>2, <1>4, <2>2 DEF Ours
  <2>7. SaveStands(NoFile, v, req, n, t)
    BY <1>3, <1>4, <1>5, <2>2, <2>6 DEF SaveStands
  <2>8. StepStands(k, NoFile, v, n, req, t, m)
    BY <1>4, <2>2, <2>4, <2>6 DEF StepStands, SavingSteps, ForkingSteps
  <2>9. k.step \in SavingSteps
    BY <2>4 DEF SavingSteps
  <2>10. live' = [live EXCEPT ![req.target] = NoFile] /\ UNCHANGED <<folder, journal, saved, slock, sbudget, last, pins, stuck>>
    BY <1>1, <1>2, <1>5 DEF Displace
  <2>. QED  BY <1>1, <1>2, <2>3, <2>4, <2>5, <2>7, <2>8, <2>9, <2>10, SkillSaveKeeps
<1>6. CASE f = NoFile
  BY <1>1, <1>2, <1>6, SkillTurnsBack DEF Displace
<1>. QED  BY <1>5, <1>6

\* A displaced original leaves the place free; another file goes back.
LEMMA SkillCompares == ASSUME SkillInv, NEW c \in Callers, CompareDisplaced(c) PROVE SkillInv'
<1>0. scall[c].step = "compare" /\ scall[c].step \in SavingSteps
  BY DEF CompareDisplaced, SavingSteps
<1>1. PICK req, f, t, n, m, w : /\ req = journal.req /\ f = live[req.target] /\ t = last[req.target]
                                /\ n = journal.ino /\ m = sbudget.ino /\ w = wit
  OBVIOUS
<1>2. /\ scall[c].step \in Alone \ {"recover", "decide", "intent"} /\ scall[c].step # "idle"
      /\ req \notin saved /\ req.op = "save" /\ scall[c].req = req /\ scall[c].req.skill = req.target
      /\ SkillTypeOK /\ n \in Nat /\ m \in Nat /\ f \in SkillFiles /\ NoFile \in SkillFiles /\ NoFile.ino = 0
      /\ w \in [temp : SkillFiles, guard : SkillFiles, displaced : SkillFiles]
      /\ live = [live EXCEPT ![req.target] = f]
  BY <1>0, <1>1, SkillSaveView
<1>3. InodesName(f, w, m) /\ SaveStands(f, w, req, n, t) /\ StepStands(scall[c], f, w, n, req, t, m)
  BY <1>0, <1>1, SkillSaveView
<1>4. w.temp # NoFile /\ ~Ours(f, w, n) /\ n = 0 /\ w.temp.text = req.text
  BY <1>0, <1>3 DEF StepStands, SavingSteps
<1>a. PICK v : v = [temp |-> w.temp, guard |-> w.guard, displaced |-> NoFile]
  OBVIOUS
<1>b. v \in [temp : SkillFiles, guard : SkillFiles, displaced : SkillFiles]
  BY <1>2, <1>a
<1>c. \A h : Ours(h, v, n) <=> Ours(h, w, n)
  BY <1>a DEF Ours
<1>d. ~Ours(NoFile, v, n)
  BY <1>2 DEF Ours
<1>5. CASE DisplacedIsOriginal
  <2>1. w.displaced = w.guard
    BY <1>1, <1>3, <1>5 DEF DisplacedIsOriginal, Same, InodesName
  <2>3. wit' = v
    BY <1>1, <1>2, <1>5, <1>a DEF CompareDisplaced
  <2>4. PICK k \in SkillCalls : /\ scall' = [scall EXCEPT ![c] = k] /\ k.step = "install" /\ k.req = req
    BY <1>1, <1>2, <1>5, SkillCallGoes DEF CompareDisplaced, SkillSteps
  <2>5. InodesName(f, v, m)
    BY <1>3, <1>a DEF InodesName
  <2>7. SaveStands(f, v, req, n, t)
    BY <1>3, <1>4, <1>a, <1>c, <1>d, <2>1 DEF SaveStands
  <2>8. StepStands(k, f, v, n, req, t, m)
    BY <1>4, <1>a, <1>c, <2>4 DEF StepStands, SavingSteps, ForkingSteps
  <2>9. k.step \in SavingSteps
    BY <2>4 DEF SavingSteps
  <2>10. live' = [live EXCEPT ![req.target] = f] /\ UNCHANGED <<folder, journal, saved, slock, sbudget, last, pins, stuck>>
    BY <1>1, <1>2, <1>5 DEF CompareDisplaced
  <2>. QED  BY <1>1, <1>2, <1>b, <2>3, <2>4, <2>5, <2>7, <2>8, <2>9, <2>10, SkillSaveKeeps
<1>6. CASE ~DisplacedIsOriginal /\ f = NoFile
  <2>3. wit' = v
    BY <1>1, <1>2, <1>6, <1>a DEF CompareDisplaced
  <2>4. PICK k \in SkillCalls : /\ scall' = [scall EXCEPT ![c] = k] /\ k.step = "restore" /\ k.req = req
    BY <1>1, <1>2, <1>6, SkillCallGoes DEF CompareDisplaced, SkillSteps
  <2>5. InodesName(w.displaced, v, m) /\ w.displaced \in SkillFiles
    BY <1>2, <1>3, <1>a DEF InodesName
  <2>7. SaveStands(w.displaced, v, req, n, t)
    BY <1>3, <1>4, <1>6, <1>a, <1>c, <1>d DEF SaveStands
  <2>8. StepStands(k, w.displaced, v, n, req, t, m)
    BY <2>4 DEF StepStands, SavingSteps, ForkingSteps
  <2>10. live' = [live EXCEPT ![req.target] = w.displaced] /\ UNCHANGED <<folder, journal, saved, slock, sbudget, last, pins, stuck>>
    BY <1>1, <1>2, <1>6 DEF CompareDisplaced
  <2>. QED  BY <1>1, <1>2, <1>b, <2>3, <2>4, <2>5, <2>7, <2>8, <2>10, SkillSaveKeeps
<1>7. CASE ~DisplacedIsOriginal /\ f # NoFile
  BY <1>1, <1>2, <1>7, SkillTurnsBack DEF CompareDisplaced
<1>. QED  BY <1>5, <1>6, <1>7

\* The proposed file goes where nothing is: the text before was the original.
LEMMA SkillInstalls == ASSUME SkillInv, NEW c \in Callers, Install(c) PROVE SkillInv'
<1>0. scall[c].step = "install" /\ scall[c].step \in SavingSteps
  BY DEF Install, SavingSteps
<1>1. PICK req, f, t, n, m, w : /\ req = journal.req /\ f = live[req.target] /\ t = last[req.target]
                                /\ n = journal.ino /\ m = sbudget.ino /\ w = wit
  OBVIOUS
<1>2. /\ scall[c].step \in Alone \ {"recover", "decide", "intent"} /\ scall[c].step # "idle"
      /\ req \notin saved /\ req.op = "save" /\ scall[c].req = req /\ scall[c].req.skill = req.target
      /\ SkillTypeOK /\ n \in Nat /\ m \in Nat /\ f \in SkillFiles /\ NoFile \in SkillFiles /\ NoFile.ino = 0
      /\ w \in [temp : SkillFiles, guard : SkillFiles, displaced : SkillFiles]
      /\ live = [live EXCEPT ![req.target] = f]
  BY <1>0, <1>1, SkillSaveView
<1>3. InodesName(f, w, m) /\ SaveStands(f, w, req, n, t) /\ StepStands(scall[c], f, w, n, req, t, m)
  BY <1>0, <1>1, SkillSaveView
<1>4. w.temp # NoFile /\ ~Ours(f, w, n) /\ n = 0 /\ w.temp.text = req.text /\ w.displaced = NoFile
  BY <1>0, <1>3 DEF StepStands, SavingSteps
<1>5. CASE f = NoFile
  <2>4. PICK k \in SkillCalls : /\ scall' = [scall EXCEPT ![c] = k] /\ k.step = "witness" /\ k.req = req
    BY <1>1, <1>2, <1>5, SkillCallGoes DEF Install, SkillSteps
  <2>5. InodesName(w.temp, w, m) /\ w.temp \in SkillFiles
    BY <1>2, <1>3 DEF InodesName
  <2>6. ~Ours(NoFile, w, n)
    BY <1>2 DEF Ours
  <2>7. SaveStands(w.temp, w, req, n, t)
    <3>1. Ours(w.temp, w, n)
      BY <1>2, <1>3, <1>4 DEF Ours, InodesName
    <3>. QED  BY <1>3, <1>4, <1>5, <2>6, <3>1 DEF SaveStands
  <2>8. StepStands(k, w.temp, w, n, req, t, m)
    BY <1>4, <2>4 DEF StepStands, SavingSteps, ForkingSteps
  <2>9. k.step \in SavingSteps
    BY <2>4 DEF SavingSteps
  <2>10. /\ live' = [live EXCEPT ![req.target] = w.temp] /\ wit' = w
         /\ UNCHANGED <<folder, journal, saved, slock, sbudget, last, pins, stuck>>
    BY <1>1, <1>2, <1>5 DEF Install
  <2>. QED  BY <1>1, <1>2, <2>4, <2>5, <2>7, <2>8, <2>9, <2>10, SkillSaveKeeps
<1>6. CASE f # NoFile
  BY <1>1, <1>2, <1>6, SkillTurnsBack DEF Install
<1>. QED  BY <1>5, <1>6
\* The inode of the installed file, once it is in the intent, tells it as well
\* as the open witness does.
LEMMA SkillWitnesses == ASSUME SkillInv, NEW c \in Callers, WitnessInstalled(c) PROVE SkillInv'
<1>0. scall[c].step = "witness" /\ scall[c].step \in SavingSteps
  BY DEF WitnessInstalled, SavingSteps
<1>1. PICK req, f, t, n, m, w : /\ req = journal.req /\ f = live[req.target] /\ t = last[req.target]
                                /\ n = journal.ino /\ m = sbudget.ino /\ w = wit
  OBVIOUS
<1>2. /\ scall[c].step \in Alone \ {"recover", "decide", "intent"} /\ scall[c].step # "idle"
      /\ req \notin saved /\ req.op = "save" /\ scall[c].req = req /\ scall[c].req.skill = req.target
      /\ SkillTypeOK /\ n \in Nat /\ m \in Nat /\ f \in SkillFiles /\ NoFile \in SkillFiles /\ NoFile.ino = 0
      /\ w \in [temp : SkillFiles, guard : SkillFiles, displaced : SkillFiles]
      /\ live = [live EXCEPT ![req.target] = f]
  BY <1>0, <1>1, SkillSaveView
<1>3. InodesName(f, w, m) /\ SaveStands(f, w, req, n, t) /\ StepStands(scall[c], f, w, n, req, t, m)
  BY <1>0, <1>1, SkillSaveView
<1>4. w.temp # NoFile /\ n = 0 /\ w.temp.text = req.text /\ f # NoFile
  BY <1>0, <1>3 DEF StepStands, SavingSteps
<1>5. CASE Same(f, w.temp)
  <2>1. PICK i : i = f.ino
    OBVIOUS
  <2>2. i \in Nat /\ i <= m /\ i = w.temp.ino /\ i # 0
    BY <1>2, <1>3, <1>4, <1>5, <2>1 DEF Same, InodesName, SkillFiles
  <2>3. /\ journal' = [journal EXCEPT !.ino = i] /\ wit' = w
        /\ live' = [live EXCEPT ![req.target] = f] /\ UNCHANGED <<folder, saved, slock, sbudget, last, pins, stuck>>
    BY <1>1, <1>2, <1>5, <2>1 DEF WitnessInstalled
  <2>4. PICK k \in SkillCalls : /\ scall' = [scall EXCEPT ![c] = k] /\ k.step = "untemp" /\ k.req = req
    BY <1>1, <1>2, <1>5, SkillCallGoes DEF WitnessInstalled, SkillSteps
  <2>5. \A h : Ours(h, w, i) <=> Ours(h, w, n)
    BY <1>4, <2>2 DEF Ours
  <2>6. SaveStands(f, w, req, i, t)
    BY <1>3, <2>5 DEF SaveStands
  <2>7. StepStands(k, f, w, i, req, t, m)
    BY <1>4, <2>2, <2>4 DEF StepStands, SavingSteps, ForkingSteps
  <2>8. k.step \in SavingSteps
    BY <2>4 DEF SavingSteps
  <2>9. /\ sbudget' \in [calls : Nat, edits : Nat, deaths : Nat, ino : Nat] /\ sbudget'.ino = m /\ sbudget.ino <= m
        /\ UNCHANGED <<folder, saved, slock, last, pins, stuck>>
    BY <1>1, <1>2, <2>3 DEF SkillTypeOK
  <2>10. journal' = [journal EXCEPT !.ino = i] /\ wit' = w /\ live' = [live EXCEPT ![req.target] = f]
    BY <2>3
  <2>. QED  BY <1>1, <1>2, <1>3, <2>2, <2>4, <2>6, <2>7, <2>8, <2>9, <2>10, SkillSaveMoves
<1>6. CASE ~Same(f, w.temp)
  BY <1>1, <1>2, <1>6, SkillTurnsBack DEF WitnessInstalled
<1>. QED  BY <1>5, <1>6

\* The name of the proposed file goes; the intent still knows its inode.
LEMMA SkillUnlinks == ASSUME SkillInv, NEW c \in Callers, UnlinkTemp(c) PROVE SkillInv'
<1>0. scall[c].step = "untemp" /\ scall[c].step \in SavingSteps
  BY DEF UnlinkTemp, SavingSteps
<1>1. PICK req, f, t, n, m, w : /\ req = journal.req /\ f = live[req.target] /\ t = last[req.target]
                                /\ n = journal.ino /\ m = sbudget.ino /\ w = wit
  OBVIOUS
<1>2. /\ scall[c].step \in Alone \ {"recover", "decide", "intent"} /\ scall[c].step # "idle"
      /\ req \notin saved /\ req.op = "save" /\ scall[c].req = req /\ scall[c].req.skill = req.target
      /\ SkillTypeOK /\ n \in Nat /\ m \in Nat /\ f \in SkillFiles /\ NoFile \in SkillFiles /\ NoFile.ino = 0
      /\ w \in [temp : SkillFiles, guard : SkillFiles, displaced : SkillFiles]
      /\ live = [live EXCEPT ![req.target] = f]
  BY <1>0, <1>1, SkillSaveView
<1>3. InodesName(f, w, m) /\ SaveStands(f, w, req, n, t) /\ StepStands(scall[c], f, w, n, req, t, m)
  BY <1>0, <1>1, SkillSaveView
<1>4. n = w.temp.ino /\ f # NoFile
  BY <1>0, <1>3 DEF StepStands, SavingSteps
<1>5. PICK v : v = [temp |-> NoFile, guard |-> w.guard, displaced |-> w.displaced]
  OBVIOUS
<1>6. wit' = v /\ v \in [temp : SkillFiles, guard : SkillFiles, displaced : SkillFiles]
  BY <1>1, <1>2, <1>5 DEF UnlinkTemp
<1>7. PICK k \in SkillCalls : /\ scall' = [scall EXCEPT ![c] = k] /\ k.step = "load" /\ k.req = req
  BY <1>1, <1>2, SkillCallGoes DEF UnlinkTemp, SkillSteps
<1>8. InodesName(f, v, m)
  BY <1>3, <1>5 DEF InodesName
<1>9. \A h : Ours(h, v, n) <=> Ours(h, w, n)
  BY <1>2, <1>4, <1>5 DEF Ours
<1>10. SaveStands(f, v, req, n, t)
  BY <1>3, <1>5, <1>9 DEF SaveStands
<1>11. StepStands(k, f, v, n, req, t, m)
  BY <1>3, <1>4, <1>7, <1>9 DEF StepStands, SaveStands, SavingSteps, ForkingSteps
<1>12. live' = [live EXCEPT ![req.target] = f] /\ UNCHANGED <<folder, journal, saved, slock, sbudget, last, pins, stuck>>
  BY <1>2 DEF UnlinkTemp
<1>. QED  BY <1>1, <1>2, <1>6, <1>7, <1>8, <1>10, <1>11, <1>12, SkillSaveKeeps

\* A displaced file goes back where nothing is.
LEMMA SkillRestores == ASSUME SkillInv, NEW c \in Callers, RestoreDisplaced(c) PROVE SkillInv'
<1>0. scall[c].step = "restore" /\ journal.req.op = "save"
  BY DEF RestoreDisplaced
<1>1. PICK req, f, t, n, m, w : /\ req = journal.req /\ f = live[req.target] /\ t = last[req.target]
                                /\ n = journal.ino /\ m = sbudget.ino /\ w = wit
  OBVIOUS
<1>2. /\ scall[c].step \in Alone \ {"recover", "decide", "intent"} /\ scall[c].step # "idle"
      /\ req \notin saved /\ req.op = "save" /\ journal.req.target = req.target
      /\ SkillTypeOK /\ n \in Nat /\ m \in Nat /\ f \in SkillFiles /\ NoFile \in SkillFiles /\ NoFile.ino = 0
      /\ w \in [temp : SkillFiles, guard : SkillFiles, displaced : SkillFiles]
      /\ live = [live EXCEPT ![req.target] = f]
  BY <1>0, <1>1, SkillSaveView
<1>3. InodesName(f, w, m) /\ SaveStands(f, w, req, n, t) /\ StepStands(scall[c], f, w, n, req, t, m)
  BY <1>0, <1>1, SkillSaveView
<1>a. UNCHANGED <<folder, journal, saved, sbudget, last, pins>>
  BY DEF RestoreDisplaced
<1>4. Same(w.displaced, f) /\ f = NoFile => w.displaced = NoFile
  BY <1>3 DEF Same, InodesName
<1>5. CASE w.displaced = NoFile \/ Same(w.displaced, f)
  <2>2. PICK v : v = [temp |-> w.temp, guard |-> w.guard, displaced |-> NoFile]
    OBVIOUS
  <2>3. /\ wit' = v /\ v \in [temp : SkillFiles, guard : SkillFiles, displaced : SkillFiles]
        /\ Step(c, "judge") /\ UNCHANGED <<live, slock, stuck>>
    BY <1>1, <1>2, <1>4, <1>5, <2>2 DEF RestoreDisplaced
  <2>4. PICK k \in SkillCalls : /\ scall' = [scall EXCEPT ![c] = k] /\ k.step = "judge"
    BY <1>2, <2>3, SkillCallGoes DEF SkillSteps
  <2>5. InodesName(f, v, m)
    BY <1>3, <2>2 DEF InodesName
  <2>6. \A h : Ours(h, v, n) <=> Ours(h, w, n)
    BY <2>2 DEF Ours
  <2>7. SaveStands(f, v, req, n, t)
    <3>1. ~Ours(NoFile, v, n)
      BY <1>2 DEF Ours
    <3>. QED  BY <1>3, <1>4, <1>5, <2>2, <2>6, <3>1 DEF SaveStands
  <2>8. StepStands(k, f, v, n, req, t, m)
    BY <2>2, <2>4 DEF StepStands, SavingSteps, ForkingSteps
  <2>9. k.step \in UnsavingSteps
    BY <2>4 DEF UnsavingSteps
  <2>10. live' = [live EXCEPT ![req.target] = f] /\ UNCHANGED <<folder, journal, saved, slock, sbudget, last, pins, stuck>>
    BY <1>2, <1>a, <2>3
  <2>. QED  BY <1>1, <1>2, <2>3, <2>4, <2>5, <2>7, <2>8, <2>9, <2>10, SkillSaveKeeps
<1>6. CASE w.displaced # NoFile /\ ~Same(w.displaced, f) /\ f = NoFile
  <2>1. live' = [live EXCEPT ![req.target] = w.displaced] /\ UNCHANGED <<wit, scall, slock, stuck>>
    BY <1>1, <1>6 DEF RestoreDisplaced
  <2>2. PICK k : k = scall[c]
    OBVIOUS
  <2>3. k \in SkillCalls /\ scall' = [scall EXCEPT ![c] = k] /\ k.step = "restore"
    BY <1>0, <1>2, <2>1, <2>2, SkillCallShapes DEF SkillTypeOK
  <2>4. w.displaced \in SkillFiles /\ InodesName(w.displaced, w, m)
    BY <1>2, <1>3 DEF InodesName
  <2>5. SaveStands(w.displaced, w, req, n, t)
    BY <1>3, <1>6 DEF SaveStands
  <2>6. StepStands(k, w.displaced, w, n, req, t, m)
    BY <2>3 DEF StepStands, SavingSteps, ForkingSteps
  <2>7. /\ live' = [live EXCEPT ![req.target] = w.displaced] /\ wit' = w
        /\ UNCHANGED <<folder, journal, saved, slock, sbudget, last, pins, stuck>>
    BY <1>1, <1>a, <2>1
  <2>. QED  BY <1>1, <1>2, <2>3, <2>4, <2>5, <2>6, <2>7, SkillSaveKeeps
<1>7. CASE w.displaced # NoFile /\ ~Same(w.displaced, f) /\ f # NoFile
  BY <1>1, <1>2, <1>7, <1>a, SkillStops DEF RestoreDisplaced
<1>. QED  BY <1>5, <1>6, <1>7

\* Target, original and proposed file are looked at together: what is ours is
\* told by its inode, whatever text a person wrote.
LEMMA SkillJudges == ASSUME SkillInv, NEW c \in Callers, Judge(c) PROVE SkillInv'
<1>0. scall[c].step = "judge" /\ scall[c].step \in UnsavingSteps
  BY DEF Judge, UnsavingSteps
<1>1. PICK req, f, t, n, m, w : /\ req = journal.req /\ f = live[req.target] /\ t = last[req.target]
                                /\ n = journal.ino /\ m = sbudget.ino /\ w = wit
  OBVIOUS
<1>2. /\ scall[c].step \in Alone \ {"recover", "decide", "intent"} /\ scall[c].step # "idle"
      /\ req \notin saved /\ req.op = "save" /\ journal.req.target = req.target
      /\ SkillTypeOK /\ n \in Nat /\ m \in Nat /\ f \in SkillFiles /\ NoFile \in SkillFiles /\ NoFile.ino = 0
      /\ w \in [temp : SkillFiles, guard : SkillFiles, displaced : SkillFiles]
      /\ live = [live EXCEPT ![req.target] = f]
  BY <1>0, <1>1, SkillSaveView
<1>3. InodesName(f, w, m) /\ SaveStands(f, w, req, n, t) /\ StepStands(scall[c], f, w, n, req, t, m)
  BY <1>0, <1>1, SkillSaveView
<1>a. UNCHANGED <<live, wit, folder, journal, saved, sbudget, last, pins>>
  BY DEF Judge
<1>4. w.displaced = NoFile
  BY <1>0, <1>3 DEF StepStands
<1>5. f # NoFile => f.ino # 0 /\ (TargetIsProposed(req.target) <=> Ours(f, w, n))
  <2>1. f # NoFile => f.ino # 0
    BY <1>2, <1>3 DEF InodesName
  <2>2. Ours(f, w, n) => f.text = req.text
    BY <1>3 DEF SaveStands
  <2>. QED  BY <1>1, <1>2, <2>1, <2>2 DEF TargetIsProposed, Ours, Same
<1>6. live' = [live EXCEPT ![req.target] = f] /\ wit' = w
  BY <1>1, <1>2, <1>a
<1>7. CASE (TargetIsProposed(req.target) \/ f = NoFile) /\ GuardIsOriginal(req.target)
  <2>1. /\ Holding(c, IF f = NoFile THEN "relink" ELSE "remove", f) /\ UNCHANGED <<slock, stuck>> /\ w.guard # NoFile
    BY <1>1, <1>7 DEF Judge, GuardIsOriginal
  <2>2. PICK k \in SkillCalls : /\ scall' = [scall EXCEPT ![c] = k] /\ k.file = f
                                /\ k.step = IF f = NoFile THEN "relink" ELSE "remove"
    BY <1>2, <2>1, SkillCallHolds DEF SkillSteps
  <2>3. k.step = "remove" => Ours(k.file, w, n)
    BY <1>5, <1>7, <2>2
  <2>4. StepStands(k, f, w, n, req, t, m)
    BY <1>4, <2>1, <2>2, <2>3 DEF StepStands, SavingSteps, ForkingSteps
  <2>5. k.step \in UnsavingSteps
    BY <2>2 DEF UnsavingSteps
  <2>6. UNCHANGED <<folder, journal, saved, slock, sbudget, last, pins, stuck>>
    BY <1>a, <2>1
  <2>. QED  BY <1>1, <1>2, <1>3, <1>6, <2>2, <2>4, <2>5, <2>6, SkillSaveKeeps
<1>8. CASE ~TargetIsProposed(req.target) /\ f # NoFile /\ Step(c, "clean") /\ UNCHANGED <<slock, stuck>>
  <2>2. PICK k \in SkillCalls : /\ scall' = [scall EXCEPT ![c] = k] /\ k.step = "clean"
    BY <1>2, <1>8, SkillCallGoes DEF SkillSteps
  <2>4. StepStands(k, f, w, n, req, t, m)
    BY <1>4, <1>5, <1>8, <2>2 DEF StepStands, SavingSteps, ForkingSteps
  <2>5. k.step \in UnsavingSteps
    BY <2>2 DEF UnsavingSteps
  <2>6. UNCHANGED <<folder, journal, saved, slock, sbudget, last, pins, stuck>>
    BY <1>a, <1>8
  <2>. QED  BY <1>1, <1>2, <1>3, <1>6, <2>2, <2>4, <2>5, <2>6, SkillSaveKeeps
<1>9. CASE Manual(c)
  BY <1>2, <1>9, <1>a, SkillStops
<1>. QED  BY <1>1, <1>7, <1>8, <1>9 DEF Judge
\* A file is moved aside to be removed; if it was not ours it is the last text.
LEMMA SkillRemoves == ASSUME SkillInv, NEW c \in Callers, RemoveProposed(c) PROVE SkillInv'
<1>0. scall[c].step = "remove" /\ scall[c].step \in UnsavingSteps
  BY DEF RemoveProposed, UnsavingSteps
<1>1. PICK req, f, t, n, m, w : /\ req = journal.req /\ f = live[req.target] /\ t = last[req.target]
                                /\ n = journal.ino /\ m = sbudget.ino /\ w = wit
  OBVIOUS
<1>2. /\ scall[c].step \in Alone \ {"recover", "decide", "intent"} /\ scall[c].step # "idle"
      /\ req \notin saved /\ req.op = "save" /\ journal.req.target = req.target
      /\ SkillTypeOK /\ n \in Nat /\ m \in Nat /\ f \in SkillFiles /\ NoFile \in SkillFiles /\ NoFile.ino = 0
      /\ w \in [temp : SkillFiles, guard : SkillFiles, displaced : SkillFiles]
      /\ live = [live EXCEPT ![req.target] = f]
  BY <1>0, <1>1, SkillSaveView
<1>3. InodesName(f, w, m) /\ SaveStands(f, w, req, n, t) /\ StepStands(scall[c], f, w, n, req, t, m)
  BY <1>0, <1>1, SkillSaveView
<1>4. w.guard # NoFile /\ Ours(scall[c].file, w, n)
  BY <1>0, <1>3 DEF StepStands
<1>5. CASE f # NoFile
  <2>2. PICK v : v = [temp |-> w.temp, guard |-> w.guard, displaced |-> f]
    OBVIOUS
  <2>3. /\ wit' = v /\ v \in [temp : SkillFiles, guard : SkillFiles, displaced : SkillFiles]
        /\ Step(c, "moved") /\ live' = [live EXCEPT ![req.target] = NoFile]
        /\ UNCHANGED <<folder, journal, saved, slock, sbudget, last, pins, stuck>>
    BY <1>1, <1>2, <1>5, <2>2 DEF RemoveProposed
  <2>4. PICK k \in SkillCalls : /\ scall' = [scall EXCEPT ![c] = k] /\ k.step = "moved" /\ k.file = scall[c].file
    BY <1>2, <2>3, SkillCallGoes DEF SkillSteps
  <2>5. InodesName(NoFile, v, m)
    BY <1>3, <2>2 DEF InodesName
  <2>6. (\A h : Ours(h, v, n) <=> Ours(h, w, n)) /\ ~Ours(NoFile, v, n)
    BY <1>2, <2>2 DEF Ours
  <2>7. SaveStands(NoFile, v, req, n, t)
    BY <1>3, <1>5, <2>2, <2>6 DEF SaveStands
  <2>8. StepStands(k, NoFile, v, n, req, t, m)
    BY <1>4, <2>2, <2>4, <2>6 DEF StepStands, SavingSteps, ForkingSteps
  <2>9. k.step \in UnsavingSteps
    BY <2>4 DEF UnsavingSteps
  <2>. QED  BY <1>1, <1>2, <2>3, <2>4, <2>5, <2>7, <2>8, <2>9, SkillSaveKeeps
<1>6. CASE f = NoFile
  BY <1>1, <1>2, <1>6, SkillStops DEF RemoveProposed
<1>. QED  BY <1>5, <1>6

\* A file that came in between goes back before the call gives up.
LEMMA SkillChecksMoved == ASSUME SkillInv, NEW c \in Callers, CheckMoved(c) PROVE SkillInv'
<1>0. scall[c].step = "moved" /\ scall[c].step \in UnsavingSteps
  BY DEF CheckMoved, UnsavingSteps
<1>1. PICK req, f, t, n, m, w : /\ req = journal.req /\ f = live[req.target] /\ t = last[req.target]
                                /\ n = journal.ino /\ m = sbudget.ino /\ w = wit
  OBVIOUS
<1>2. /\ scall[c].step \in Alone \ {"recover", "decide", "intent"} /\ scall[c].step # "idle"
      /\ req \notin saved /\ req.op = "save" /\ journal.req.target = req.target
      /\ SkillTypeOK /\ n \in Nat /\ m \in Nat /\ f \in SkillFiles /\ NoFile \in SkillFiles /\ NoFile.ino = 0
      /\ w \in [temp : SkillFiles, guard : SkillFiles, displaced : SkillFiles]
      /\ live = [live EXCEPT ![req.target] = f]
  BY <1>0, <1>1, SkillSaveView
<1>3. InodesName(f, w, m) /\ SaveStands(f, w, req, n, t) /\ StepStands(scall[c], f, w, n, req, t, m)
  BY <1>0, <1>1, SkillSaveView
<1>4. w.guard # NoFile /\ Ours(scall[c].file, w, n)
  BY <1>0, <1>3 DEF StepStands
<1>a. UNCHANGED <<folder, journal, saved, sbudget, last, pins>>
  BY DEF CheckMoved
<1>5. CASE Same(w.displaced, scall[c].file)
  <2>1. Step(c, "relink") /\ UNCHANGED <<live, wit, slock, stuck>>
    BY <1>1, <1>5 DEF CheckMoved
  <2>2. PICK k \in SkillCalls : scall' = [scall EXCEPT ![c] = k] /\ k.step = "relink"
    BY <1>2, <2>1, SkillCallGoes DEF SkillSteps
  <2>3. Ours(w.displaced, w, n)
    BY <1>4, <1>5 DEF Ours, Same
  <2>4. StepStands(k, f, w, n, req, t, m)
    BY <1>4, <2>2, <2>3 DEF StepStands, SavingSteps, ForkingSteps
  <2>5. k.step \in UnsavingSteps
    BY <2>2 DEF UnsavingSteps
  <2>6. /\ live' = [live EXCEPT ![req.target] = f] /\ wit' = w
        /\ UNCHANGED <<folder, journal, saved, slock, sbudget, last, pins, stuck>>
    BY <1>1, <1>2, <1>a, <2>1
  <2>. QED  BY <1>1, <1>2, <1>3, <2>2, <2>4, <2>5, <2>6, SkillSaveKeeps
<1>6. CASE ~Same(w.displaced, scall[c].file) /\ f = NoFile
  <2>2. PICK v : v = [temp |-> w.temp, guard |-> w.guard, displaced |-> NoFile]
    OBVIOUS
  <2>3. /\ wit' = v /\ v \in [temp : SkillFiles, guard : SkillFiles, displaced : SkillFiles]
        /\ Manual(c) /\ live' = [live EXCEPT ![req.target] = w.displaced]
    BY <1>1, <1>2, <1>6, <2>2 DEF CheckMoved
  <2>5. InodesName(w.displaced, v, m) /\ w.displaced \in SkillFiles
    BY <1>2, <1>3, <2>2 DEF InodesName
  <2>6. (\A h : Ours(h, v, n) <=> Ours(h, w, n)) /\ ~Ours(NoFile, v, n)
    BY <1>2, <2>2 DEF Ours
  <2>7. SaveStands(w.displaced, v, req, n, t)
    BY <1>3, <1>6, <2>2, <2>6 DEF SaveStands
  <2>8. /\ FilesStand(live, wit, folder, journal, saved, last, sbudget.ino) /\ journal \in SkillIntents /\ n <= m
        /\ journal = [journal EXCEPT !.ino = n]
    BY <1>0, <1>1, SkillSaveView DEF SkillInv
  <2>9. /\ journal' = [journal EXCEPT !.ino = n] /\ UNCHANGED <<saved, last>> /\ sbudget'.ino = m /\ sbudget.ino <= m
        /\ folder' \in [Skills -> {"none", "bare", "marked"}] /\ folder' = folder /\ folder[req.target] # "none"
    BY <1>1, <1>2, <1>a, <2>8 DEF SkillTypeOK, FilesStand
  <2>10. FilesStand(live, wit, folder, journal, saved, last, sbudget.ino)'
    BY <1>1, <1>2, <2>3, <2>5, <2>7, <2>8, <2>9, SkillTargetStands
  <2>11. /\ Unlocking(c) /\ scall' = [scall EXCEPT ![c] = SkillIdle] /\ stuck' \in BOOLEAN
         /\ live' \in [Skills -> SkillFiles]
    BY <1>2, <2>3, <2>5 DEF Manual, End, SkillTypeOK
  <2>12. /\ journal' \in {NoIntent, Torn} \cup SkillIntents /\ saved' \subseteq SkillRequests /\ pins' = pins
         /\ sbudget' \in [calls : Nat, edits : Nat, deaths : Nat, ino : Nat] /\ last' \in [Skills -> SkillTexts]
    BY <1>2, <1>a DEF SkillTypeOK
  <2>. QED  BY <1>2, <2>3, <2>9, <2>10, <2>11, <2>12, SkillEnds
<1>7. CASE ~Same(w.displaced, scall[c].file) /\ f # NoFile
  BY <1>1, <1>2, <1>7, <1>a, SkillStops DEF CheckMoved
<1>. QED  BY <1>5, <1>6, <1>7

\* The original goes back where nothing is.
LEMMA SkillRelinks == ASSUME SkillInv, NEW c \in Callers, RelinkOriginal(c) PROVE SkillInv'
<1>0. scall[c].step = "relink" /\ scall[c].step \in UnsavingSteps
  BY DEF RelinkOriginal, UnsavingSteps
<1>1. PICK req, f, t, n, m, w : /\ req = journal.req /\ f = live[req.target] /\ t = last[req.target]
                                /\ n = journal.ino /\ m = sbudget.ino /\ w = wit
  OBVIOUS
<1>2. /\ scall[c].step \in Alone \ {"recover", "decide", "intent"} /\ scall[c].step # "idle"
      /\ req \notin saved /\ req.op = "save" /\ journal.req.target = req.target
      /\ SkillTypeOK /\ n \in Nat /\ m \in Nat /\ f \in SkillFiles /\ NoFile \in SkillFiles /\ NoFile.ino = 0
      /\ w \in [temp : SkillFiles, guard : SkillFiles, displaced : SkillFiles]
      /\ live = [live EXCEPT ![req.target] = f]
  BY <1>0, <1>1, SkillSaveView
<1>3. InodesName(f, w, m) /\ SaveStands(f, w, req, n, t) /\ StepStands(scall[c], f, w, n, req, t, m)
  BY <1>0, <1>1, SkillSaveView
<1>4. w.guard # NoFile /\ (w.displaced = NoFile \/ Ours(w.displaced, w, n))
  BY <1>0, <1>3 DEF StepStands
<1>5. CASE f = NoFile
  <2>3. /\ Step(c, "drop") /\ live' = [live EXCEPT ![req.target] = w.guard] /\ wit' = w
        /\ UNCHANGED <<folder, journal, saved, slock, sbudget, last, pins, stuck>>
    BY <1>1, <1>2, <1>5 DEF RelinkOriginal
  <2>4. PICK k \in SkillCalls : scall' = [scall EXCEPT ![c] = k] /\ k.step = "drop"
    BY <1>2, <2>3, SkillCallGoes DEF SkillSteps
  <2>5. InodesName(w.guard, w, m) /\ w.guard \in SkillFiles
    BY <1>2, <1>3 DEF InodesName
  <2>7. SaveStands(w.guard, w, req, n, t)
    BY <1>3, <1>4, <1>5 DEF SaveStands
  <2>8. StepStands(k, w.guard, w, n, req, t, m)
    BY <1>3, <1>4, <2>4 DEF StepStands, SaveStands, SavingSteps, ForkingSteps
  <2>9. k.step \in UnsavingSteps
    BY <2>4 DEF UnsavingSteps
  <2>. QED  BY <1>1, <1>2, <2>3, <2>4, <2>5, <2>7, <2>8, <2>9, SkillSaveKeeps
<1>6. CASE f # NoFile
  BY <1>1, <1>2, <1>6, SkillStops DEF RelinkOriginal
<1>. QED  BY <1>5, <1>6

\* The file taken back is dropped.
LEMMA SkillDrops == ASSUME SkillInv, NEW c \in Callers, DropDisplaced(c) PROVE SkillInv'
<1>0. scall[c].step = "drop" /\ scall[c].step \in UnsavingSteps
  BY DEF DropDisplaced, UnsavingSteps
<1>1. PICK req, f, t, n, m, w : /\ req = journal.req /\ f = live[req.target] /\ t = last[req.target]
                                /\ n = journal.ino /\ m = sbudget.ino /\ w = wit
  OBVIOUS
<1>2. /\ scall[c].step \in Alone \ {"recover", "decide", "intent"} /\ scall[c].step # "idle"
      /\ req \notin saved /\ req.op = "save" /\ journal.req.target = req.target
      /\ SkillTypeOK /\ n \in Nat /\ m \in Nat /\ f \in SkillFiles /\ NoFile \in SkillFiles /\ NoFile.ino = 0
      /\ w \in [temp : SkillFiles, guard : SkillFiles, displaced : SkillFiles]
      /\ live = [live EXCEPT ![req.target] = f]
  BY <1>0, <1>1, SkillSaveView
<1>3. InodesName(f, w, m) /\ SaveStands(f, w, req, n, t) /\ StepStands(scall[c], f, w, n, req, t, m)
  BY <1>0, <1>1, SkillSaveView
<1>4. f # NoFile /\ ~Ours(f, w, n)
  BY <1>0, <1>3 DEF StepStands
<1>5. PICK v : v = [temp |-> w.temp, guard |-> w.guard, displaced |-> NoFile]
  OBVIOUS
<1>6. /\ wit' = v /\ v \in [temp : SkillFiles, guard : SkillFiles, displaced : SkillFiles]
      /\ live' = [live EXCEPT ![req.target] = f] /\ UNCHANGED <<folder, journal, saved, slock, sbudget, last, pins, stuck>>
  BY <1>1, <1>2, <1>5 DEF DropDisplaced
<1>7. PICK k \in SkillCalls : scall' = [scall EXCEPT ![c] = k] /\ k.step = "clean"
  BY <1>2, SkillCallGoes DEF DropDisplaced, SkillSteps
<1>8. InodesName(f, v, m)
  BY <1>3, <1>5 DEF InodesName
<1>9. (\A h : Ours(h, v, n) <=> Ours(h, w, n)) /\ ~Ours(NoFile, v, n)
  BY <1>2, <1>5 DEF Ours
<1>10. SaveStands(f, v, req, n, t)
  BY <1>3, <1>4, <1>5, <1>9 DEF SaveStands
<1>11. StepStands(k, f, v, n, req, t, m)
  BY <1>4, <1>7, <1>9 DEF StepStands, SavingSteps, ForkingSteps
<1>12. k.step \in UnsavingSteps
  BY <1>7 DEF UnsavingSteps
<1>. QED  BY <1>1, <1>2, <1>6, <1>7, <1>8, <1>10, <1>11, <1>12, SkillSaveKeeps

\* The witnesses go once the target is the last text again.
LEMMA SkillCleans == ASSUME SkillInv, NEW c \in Callers, CleanWitnesses(c) PROVE SkillInv'
<1>0. scall[c].step = "clean" /\ scall[c].step \in UnsavingSteps
  BY DEF CleanWitnesses, UnsavingSteps
<1>1. PICK req, f, t, n, m, w : /\ req = journal.req /\ f = live[req.target] /\ t = last[req.target]
                                /\ n = journal.ino /\ m = sbudget.ino /\ w = wit
  OBVIOUS
<1>2. /\ scall[c].step \in Alone \ {"recover", "decide", "intent"} /\ scall[c].step # "idle"
      /\ req \notin saved /\ req.op = "save" /\ journal.req.target = req.target
      /\ SkillTypeOK /\ n \in Nat /\ m \in Nat /\ f \in SkillFiles /\ NoFile \in SkillFiles /\ NoFile.ino = 0
      /\ w \in [temp : SkillFiles, guard : SkillFiles, displaced : SkillFiles]
      /\ live = [live EXCEPT ![req.target] = f]
  BY <1>0, <1>1, SkillSaveView
<1>3. InodesName(f, w, m) /\ SaveStands(f, w, req, n, t) /\ StepStands(scall[c], f, w, n, req, t, m)
  BY <1>0, <1>1, SkillSaveView
<1>4. f # NoFile /\ ~Ours(f, w, n)
  BY <1>0, <1>3 DEF StepStands
<1>5. CASE Manual(c) /\ UNCHANGED wit
  BY <1>2, <1>5, SkillStops DEF CleanWitnesses
<1>6. CASE wit' = NoWitness /\ Step(c, "forget") /\ UNCHANGED <<slock, stuck>>
  <2>1. PICK v : v = NoWitness
    OBVIOUS
  <2>2. v \in [temp : SkillFiles, guard : SkillFiles, displaced : SkillFiles]
    BY <1>2, <2>1 DEF NoWitness
  <2>3. /\ wit' = v /\ live' = [live EXCEPT ![req.target] = f]
        /\ UNCHANGED <<folder, journal, saved, slock, sbudget, last, pins, stuck>>
    BY <1>1, <1>2, <1>6, <2>1 DEF CleanWitnesses
  <2>4. PICK k \in SkillCalls : scall' = [scall EXCEPT ![c] = k] /\ k.step = "forget"
    BY <1>2, <1>6, SkillCallGoes DEF SkillSteps
  <2>5. InodesName(f, v, m)
    BY <1>3, <2>1 DEF InodesName, NoWitness
  <2>6. ~Ours(f, v, n) /\ ~Ours(NoFile, v, n)
    BY <1>2, <1>4, <2>1 DEF Ours, NoWitness
  <2>7. SaveStands(f, v, req, n, t) /\ f.text = t
    BY <1>3, <1>4, <2>1, <2>6 DEF SaveStands, NoWitness
  <2>8. StepStands(k, f, v, n, req, t, m)
    BY <2>1, <2>4, <2>7 DEF StepStands, SavingSteps, ForkingSteps
  <2>. QED  BY <1>1, <1>2, <2>2, <2>3, <2>4, <2>5, <2>7, <2>8, SkillSaveKeeps
<1>. QED  BY <1>5, <1>6 DEF CleanWitnesses
\* What a fork under way knows: it has no witnesses, and what is not its own
\* in its place was put there by hand.
LEMMA SkillForkView ==
    ASSUME SkillInv, NEW c \in Callers,
           \/ scall[c].step \in ForkingSteps \cup {"unfork", "rmdir"}
           \/ scall[c].step = "restore" /\ journal.req.op = "fork",
           NEW req, req = journal.req, NEW f, f = live[req.target], NEW t, t = last[req.target],
           NEW n, n = journal.ino, NEW m, m = sbudget.ino
    PROVE  /\ scall[c].step \in Alone \ {"recover", "decide", "intent"} /\ scall[c].step # "idle"
           /\ req \notin saved /\ req.op = "fork" /\ req.target \in Skills
           /\ scall[c].step \in ForkingSteps => scall[c].req = req /\ req.text \in SkillTexts
           /\ SkillTypeOK /\ n \in Nat /\ m \in Nat /\ n <= m /\ f \in SkillFiles
           /\ NoFile \in SkillFiles /\ NoFile.ino = 0 /\ NoFile.text = NoText
           /\ live = [live EXCEPT ![req.target] = f] /\ journal = [journal EXCEPT !.ino = n]
           /\ FilesStand(live, wit, folder, journal, saved, last, sbudget.ino)
           /\ wit = NoWitness /\ InodesName(f, NoWitness, m) /\ ForkStands(f, NoWitness, req, n, t)
           /\ StepStands(scall[c], f, NoWitness, n, req, t, m)
<1>1. scall[c].step \in Alone \ {"recover", "decide", "intent", "finish", "forget"} /\ scall[c].step # "idle"
  BY DEF ForkingSteps, Alone, SkillSteps
<1>2. /\ SkillTypeOK /\ journal \in SkillIntents /\ n \in Nat /\ m \in Nat /\ f \in SkillFiles
      /\ req.target \in Skills /\ req \in SkillRequests /\ InodesName(f, wit, m)
      /\ StepStands(scall[c], f, wit, n, req, t, m)
      /\ FilesStand(live, wit, folder, journal, saved, last, sbudget.ino)
  BY <1>1, SkillAtWork
<1>3. req \notin saved /\ req.op = "fork" /\ n <= m /\ (scall[c].step \in ForkingSteps => scall[c].req = req)
  BY <1>1, SkillAtWork DEF SkillCallStands, FilesStand
<1>4. ForkStands(f, wit, req, n, t) /\ wit = NoWitness
  BY <1>1, <1>3, SkillAtWork DEF ForkStands
<1>5. NoFile \in SkillFiles /\ NoFile.ino = 0 /\ NoFile.text = NoText
  BY DEF NoFile, SkillFiles, SkillTexts, NoText
<1>6. live = [live EXCEPT ![req.target] = f] /\ journal = [journal EXCEPT !.ino = n] /\ req.text \in SkillTexts
  BY <1>2 DEF SkillTypeOK, SkillIntents, SkillRequests
<1>. QED  BY <1>1, <1>2, <1>3, <1>4, <1>5, <1>6

\* A step of a fork keeps the invariant when the target, its directory and
\* the call that goes on stand.
LEMMA SkillForkMoves ==
    ASSUME SkillInv, NEW c \in Callers, scall[c].step \in Alone \ {"recover", "decide", "intent"},
           NEW req, req = journal.req, req \notin saved, req.op = "fork", NEW t, t = last[req.target],
           NEW k \in SkillCalls, scall' = [scall EXCEPT ![c] = k],
           k.step \in ForkingSteps \cup {"unfork", "rmdir", "load", "forget"},
           k.req = req \/ k.step \in {"unfork", "rmdir", "forget"},
           NEW n \in Nat, NEW g \in SkillFiles, live' = [live EXCEPT ![req.target] = g],
           journal' = [journal EXCEPT !.ino = n], wit = NoWitness, wit' = NoWitness,
           UNCHANGED <<saved, slock, last, pins, stuck>>,
           NEW d \in {"none", "bare", "marked"}, folder' = [folder EXCEPT ![req.target] = d], d = "none" => g = NoFile,
           k.step = "create" => d # "none",
           sbudget' \in [calls : Nat, edits : Nat, deaths : Nat, ino : Nat],
           NEW m \in Nat, sbudget'.ino = m, sbudget.ino <= m, n <= m, InodesName(g, NoWitness, m),
           ForkStands(g, NoWitness, req, n, t), StepStands(k, g, NoWitness, n, req, t, m)
    PROVE  SkillInv'
<1>0. SkillTypeOK /\ req.target \in Skills
  BY SkillAtWork
<1>1. /\ k.step \in Alone \ {"recover", "decide", "intent", "finish"}
      /\ k.step \notin SavingSteps \cup UnsavingSteps \cup {"commit"}
      /\ k.step \in ForkingSteps \cup {"load"} => k.step \notin {"unfork", "rmdir", "forget"}
  BY DEF Alone, SkillSteps, SavingSteps, ForkingSteps, UnsavingSteps
<1>2. k.step \in SavingSteps \cup ForkingSteps \cup {"load", "commit"} => k.req = journal.req
  BY <1>1
<1>3. /\ folder' \in [Skills -> {"none", "bare", "marked"}]
      /\ \A s \in Skills : s = journal.req.target \/ folder'[s] = folder[s]
      /\ folder'[journal.req.target] = "none" => g = NoFile /\ journal.req.op # "save"
      /\ k.step = "create" => folder'[journal.req.target] # "none"
  BY <1>0 DEF SkillTypeOK
<1>4. journal.req.op = "fork" /\ journal.req.op # "save"
  OBVIOUS
<1>5. PICK w : w = NoWitness
  OBVIOUS
<1>6. w \in [temp : SkillFiles, guard : SkillFiles, displaced : SkillFiles] /\ wit' = w
  BY <1>0, <1>5 DEF SkillTypeOK
<1>7. /\ ForkStands(g, w, journal.req, n, last[journal.req.target]) /\ InodesName(g, w, m)
      /\ StepStands(k, g, w, n, journal.req, last[journal.req.target], m)
      /\ live' = [live EXCEPT ![journal.req.target] = g] /\ journal.req \notin saved
  BY <1>5
<1>. QED  BY <1>1, <1>2, <1>3, <1>4, <1>6, <1>7, SkillTargetMoves

\* The directory is made where none is.
LEMMA SkillMakesFolder == ASSUME SkillInv, NEW c \in Callers, MakeFolder(c) PROVE SkillInv'
<1>0. scall[c].step = "mkdir" /\ scall[c].step \in ForkingSteps \cup {"unfork", "rmdir"}
  BY DEF MakeFolder, ForkingSteps
<1>1. PICK req, f, t, n, m : /\ req = journal.req /\ f = live[req.target] /\ t = last[req.target]
                             /\ n = journal.ino /\ m = sbudget.ino
  OBVIOUS
<1>2. /\ scall[c].step \in Alone \ {"recover", "decide", "intent"} /\ scall[c].step # "idle"
      /\ req \notin saved /\ req.op = "fork" /\ req.target \in Skills /\ scall[c].req = req /\ req.text \in SkillTexts
      /\ SkillTypeOK /\ n \in Nat /\ m \in Nat /\ n <= m /\ f \in SkillFiles /\ NoFile \in SkillFiles /\ NoFile.ino = 0
      /\ NoFile.text = NoText /\ live = [live EXCEPT ![req.target] = f] /\ journal = [journal EXCEPT !.ino = n]
      /\ FilesStand(live, wit, folder, journal, saved, last, sbudget.ino)
  BY <1>0, <1>1, SkillForkView
<1>3. /\ wit = NoWitness /\ InodesName(f, NoWitness, m) /\ ForkStands(f, NoWitness, req, n, t)
      /\ StepStands(scall[c], f, NoWitness, n, req, t, m)
  BY <1>0, <1>1, SkillForkView
<1>4. n = 0 /\ f.text = t
  BY <1>0, <1>3 DEF StepStands, ForkingSteps
<1>5. CASE folder[req.target] = "none"
  <2>1. /\ folder' = [folder EXCEPT ![req.target] = "bare"] /\ Step(c, "mark")
        /\ UNCHANGED <<live, wit, journal, saved, slock, pins, sbudget, last, stuck>>
    BY <1>2, <1>5 DEF MakeFolder
  <2>2. PICK k \in SkillCalls : scall' = [scall EXCEPT ![c] = k] /\ k.step = "mark" /\ k.req = req
    BY <1>2, <2>1, SkillCallGoes DEF SkillSteps
  <2>3. StepStands(k, f, NoWitness, n, req, t, m)
    BY <1>4, <2>2 DEF StepStands, SavingSteps, ForkingSteps
  <2>4. /\ live' = [live EXCEPT ![req.target] = f] /\ journal' = [journal EXCEPT !.ino = n] /\ wit' = NoWitness
        /\ UNCHANGED <<saved, slock, last, pins, stuck>>
        /\ sbudget' \in [calls : Nat, edits : Nat, deaths : Nat, ino : Nat] /\ sbudget'.ino = m /\ sbudget.ino <= m
    BY <1>1, <1>2, <1>3, <2>1 DEF SkillTypeOK
  <2>5. k.step \in ForkingSteps /\ k.step # "create"
    BY <2>2 DEF ForkingSteps
  <2>6. PICK d \in {"none", "bare", "marked"} : d = "bare"
    OBVIOUS
  <2>7. folder' = [folder EXCEPT ![req.target] = d] /\ d # "none"
    BY <2>1, <2>6
  <2>. QED  BY <1>1, <1>2, <1>3, <2>2, <2>3, <2>4, <2>5, <2>7, SkillForkMoves
<1>6. CASE folder[req.target] # "none"
  BY <1>1, <1>2, <1>6, SkillTurnsBack DEF MakeFolder
<1>. QED  BY <1>5, <1>6

\* The marker says who made the directory.
LEMMA SkillMarksFolder == ASSUME SkillInv, NEW c \in Callers, MarkFolder(c) PROVE SkillInv'
<1>0. scall[c].step = "mark" /\ scall[c].step \in ForkingSteps \cup {"unfork", "rmdir"}
  BY DEF MarkFolder, ForkingSteps
<1>1. PICK req, f, t, n, m : /\ req = journal.req /\ f = live[req.target] /\ t = last[req.target]
                             /\ n = journal.ino /\ m = sbudget.ino
  OBVIOUS
<1>2. /\ scall[c].step \in Alone \ {"recover", "decide", "intent"} /\ scall[c].step # "idle"
      /\ req \notin saved /\ req.op = "fork" /\ req.target \in Skills /\ scall[c].req = req /\ req.text \in SkillTexts
      /\ SkillTypeOK /\ n \in Nat /\ m \in Nat /\ n <= m /\ f \in SkillFiles /\ NoFile \in SkillFiles /\ NoFile.ino = 0
      /\ NoFile.text = NoText /\ live = [live EXCEPT ![req.target] = f] /\ journal = [journal EXCEPT !.ino = n]
      /\ FilesStand(live, wit, folder, journal, saved, last, sbudget.ino)
  BY <1>0, <1>1, SkillForkView
<1>3. /\ wit = NoWitness /\ InodesName(f, NoWitness, m) /\ ForkStands(f, NoWitness, req, n, t)
      /\ StepStands(scall[c], f, NoWitness, n, req, t, m)
  BY <1>0, <1>1, SkillForkView
<1>4. n = 0 /\ f.text = t
  BY <1>0, <1>3 DEF StepStands, ForkingSteps
<1>5. /\ folder' = [folder EXCEPT ![req.target] = "marked"] /\ Step(c, "create")
      /\ UNCHANGED <<live, wit, journal, saved, slock, pins, sbudget, last, stuck>>
  BY <1>2 DEF MarkFolder
<1>6. PICK k \in SkillCalls : scall' = [scall EXCEPT ![c] = k] /\ k.step = "create" /\ k.req = req
  BY <1>2, <1>5, SkillCallGoes DEF SkillSteps
<1>7. StepStands(k, f, NoWitness, n, req, t, m)
  BY <1>4, <1>6 DEF StepStands, SavingSteps, ForkingSteps
<1>8. /\ live' = [live EXCEPT ![req.target] = f] /\ journal' = [journal EXCEPT !.ino = n] /\ wit' = NoWitness
      /\ UNCHANGED <<saved, slock, last, pins, stuck>>
      /\ sbudget' \in [calls : Nat, edits : Nat, deaths : Nat, ino : Nat] /\ sbudget'.ino = m /\ sbudget.ino <= m
  BY <1>1, <1>2, <1>3, <1>5 DEF SkillTypeOK
<1>9. k.step \in ForkingSteps
  BY <1>6 DEF ForkingSteps
<1>10. PICK d \in {"none", "bare", "marked"} : d = "marked"
  OBVIOUS
<1>11. folder' = [folder EXCEPT ![req.target] = d] /\ d # "none"
  BY <1>5, <1>10
<1>. QED  BY <1>1, <1>2, <1>3, <1>6, <1>7, <1>8, <1>9, <1>11, SkillForkMoves

\* The new file is made where none is, so nothing was there before it.
LEMMA SkillCreates == ASSUME SkillInv, NEW c \in Callers, CreateSkill(c) PROVE SkillInv'
<1>0. scall[c].step = "create" /\ scall[c].step \in ForkingSteps \cup {"unfork", "rmdir"}
  BY DEF CreateSkill, ForkingSteps
<1>1. PICK req, f, t, n, m : /\ req = journal.req /\ f = live[req.target] /\ t = last[req.target]
                             /\ n = journal.ino /\ m = sbudget.ino
  OBVIOUS
<1>2. /\ scall[c].step \in Alone \ {"recover", "decide", "intent"} /\ scall[c].step # "idle"
      /\ req \notin saved /\ req.op = "fork" /\ req.target \in Skills /\ scall[c].req = req /\ req.text \in SkillTexts
      /\ SkillTypeOK /\ n \in Nat /\ m \in Nat /\ n <= m /\ f \in SkillFiles /\ NoFile \in SkillFiles /\ NoFile.ino = 0
      /\ NoFile.text = NoText /\ live = [live EXCEPT ![req.target] = f] /\ journal = [journal EXCEPT !.ino = n]
      /\ FilesStand(live, wit, folder, journal, saved, last, sbudget.ino)
  BY <1>0, <1>1, SkillForkView
<1>3. /\ wit = NoWitness /\ InodesName(f, NoWitness, m) /\ ForkStands(f, NoWitness, req, n, t)
      /\ StepStands(scall[c], f, NoWitness, n, req, t, m)
  BY <1>0, <1>1, SkillForkView
<1>4. n = 0 /\ f.text = t
  BY <1>0, <1>3 DEF StepStands, ForkingSteps
<1>5. CASE f = NoFile
  <2>1. PICK g, u : g = NextFile(req.text) /\ u = m + 1
    OBVIOUS
  <2>2. /\ live' = [live EXCEPT ![req.target] = g] /\ NewIno /\ Holding(c, "record", g)
        /\ UNCHANGED <<wit, folder, journal, saved, slock, pins, last, stuck>>
    BY <1>1, <1>2, <1>5, <2>1 DEF CreateSkill
  <2>3. /\ g \in SkillFiles /\ g.ino = u /\ g.text = req.text /\ u \in Nat /\ u > m
        /\ sbudget' \in [calls : Nat, edits : Nat, deaths : Nat, ino : Nat] /\ sbudget'.ino = u /\ sbudget.ino <= u
    BY <1>1, <1>2, <2>1, <2>2, FreshInode DEF SkillTypeOK
  <2>4. PICK k \in SkillCalls : scall' = [scall EXCEPT ![c] = k] /\ k.step = "record" /\ k.req = req /\ k.file = g
    BY <1>2, <2>2, <2>3, SkillCallHolds DEF SkillSteps
  <2>5. InodesName(g, NoWitness, u)
    BY <1>2, <2>3 DEF InodesName, NoWitness
  <2>6. ~Ours(g, NoWitness, n) /\ g # NoFile
    BY <1>2, <1>4, <2>3 DEF Ours, NoWitness
  <2>7. ForkStands(g, NoWitness, req, n, t)
    BY <1>3, <2>6 DEF ForkStands
  <2>8. StepStands(k, g, NoWitness, n, req, t, u)
    <3>1. u # 0 /\ u <= u /\ t = NoText
      BY <1>2, <1>4, <1>5, <2>3
    <3>. QED  BY <1>4, <2>3, <2>4, <2>6, <3>1 DEF StepStands, SavingSteps, ForkingSteps
  <2>9. folder[req.target] # "none"
    BY <1>0, <1>1, SkillAtWork, <1>2 DEF SkillCallStands
  <2>10. PICK d : d = folder[req.target]
    OBVIOUS
  <2>11. d \in {"none", "bare", "marked"} /\ d # "none" /\ folder' = [folder EXCEPT ![req.target] = d]
    BY <1>2, <2>2, <2>9, <2>10 DEF SkillTypeOK
  <2>12. /\ journal' = [journal EXCEPT !.ino = n] /\ wit' = NoWitness /\ n <= u
         /\ UNCHANGED <<saved, slock, last, pins, stuck>>
    BY <1>2, <1>3, <2>2, <2>3
  <2>13. k.step \in ForkingSteps
    BY <2>4 DEF ForkingSteps
  <2>14. live' = [live EXCEPT ![req.target] = g]
    BY <2>2
  <2>. QED  BY <1>1, <1>2, <1>3, <2>3, <2>4, <2>5, <2>7, <2>8, <2>11, <2>12, <2>13, <2>14, SkillForkMoves
<1>6. CASE f # NoFile
  BY <1>1, <1>2, <1>6, SkillTurnsBack DEF CreateSkill
<1>. QED  BY <1>5, <1>6
\* The inode of the new file becomes part of the intent.
LEMMA SkillRecordsFork == ASSUME SkillInv, NEW c \in Callers, RecordFork(c) PROVE SkillInv'
<1>0. scall[c].step = "record" /\ scall[c].step \in ForkingSteps \cup {"unfork", "rmdir"}
  BY DEF RecordFork, ForkingSteps
<1>1. PICK req, f, t, n, m : /\ req = journal.req /\ f = live[req.target] /\ t = last[req.target]
                             /\ n = journal.ino /\ m = sbudget.ino
  OBVIOUS
<1>2. /\ scall[c].step \in Alone \ {"recover", "decide", "intent"} /\ scall[c].step # "idle"
      /\ req \notin saved /\ req.op = "fork" /\ req.target \in Skills /\ scall[c].req = req /\ req.text \in SkillTexts
      /\ SkillTypeOK /\ n \in Nat /\ m \in Nat /\ n <= m /\ f \in SkillFiles /\ NoFile \in SkillFiles /\ NoFile.ino = 0
      /\ NoFile.text = NoText /\ live = [live EXCEPT ![req.target] = f] /\ journal = [journal EXCEPT !.ino = n]
      /\ FilesStand(live, wit, folder, journal, saved, last, sbudget.ino)
  BY <1>0, <1>1, SkillForkView
<1>3. /\ wit = NoWitness /\ InodesName(f, NoWitness, m) /\ ForkStands(f, NoWitness, req, n, t)
      /\ StepStands(scall[c], f, NoWitness, n, req, t, m)
  BY <1>0, <1>1, SkillForkView
<1>4. /\ f # NoFile /\ scall[c].file.ino # 0 /\ scall[c].file.ino <= m
      /\ IF f.ino = scall[c].file.ino THEN f.text = req.text /\ t = NoText ELSE f.text = t
  BY <1>0, <1>3 DEF StepStands, ForkingSteps
<1>5. PICK i : i = scall[c].file.ino
  OBVIOUS
<1>6. i \in Nat /\ i # 0 /\ i <= m
  BY <1>2, <1>4, <1>5, SkillCallShapes DEF SkillFiles
<1>7. /\ journal' = [journal EXCEPT !.ino = i] /\ Step(c, "load")
      /\ UNCHANGED <<live, wit, folder, saved, slock, pins, sbudget, last, stuck>>
  BY <1>5 DEF RecordFork
<1>8. PICK k \in SkillCalls : scall' = [scall EXCEPT ![c] = k] /\ k.step = "load" /\ k.req = req
  BY <1>2, <1>7, SkillCallGoes DEF SkillSteps
<1>9. Ours(f, NoWitness, i) <=> f.ino = i
  BY <1>2, <1>6 DEF Ours, NoWitness
<1>10. ForkStands(f, NoWitness, req, i, t)
  BY <1>3, <1>4, <1>5, <1>9 DEF ForkStands
<1>11. StepStands(k, f, NoWitness, i, req, t, m)
  BY <1>4, <1>5, <1>8, <1>9 DEF StepStands, SavingSteps, ForkingSteps
<1>12. PICK d : d = folder[req.target]
  OBVIOUS
<1>13. d \in {"none", "bare", "marked"} /\ folder' = [folder EXCEPT ![req.target] = d] /\ (d = "none" => f = NoFile)
  BY <1>1, <1>2, <1>7, <1>12 DEF SkillTypeOK, FilesStand
<1>14. /\ live' = [live EXCEPT ![req.target] = f] /\ wit' = NoWitness
       /\ UNCHANGED <<saved, slock, last, pins, stuck>>
       /\ sbudget' \in [calls : Nat, edits : Nat, deaths : Nat, ino : Nat] /\ sbudget'.ino = m /\ sbudget.ino <= m
  BY <1>1, <1>2, <1>3, <1>7 DEF SkillTypeOK
<1>15. journal' = [journal EXCEPT !.ino = i]
  BY <1>7
<1>. QED  BY <1>1, <1>2, <1>3, <1>6, <1>8, <1>10, <1>11, <1>13, <1>14, <1>15, SkillForkMoves

\* A fork is undone only where nothing but its own is in its place.
LEMMA SkillUndoesFork == ASSUME SkillInv, NEW c \in Callers, UndoFork(c) PROVE SkillInv'
<1>0. scall[c].step \in {"unfork", "restore"} /\ journal.req.op = "fork"
  BY DEF UndoFork
<1>1. PICK req, f, t, n, m : /\ req = journal.req /\ f = live[req.target] /\ t = last[req.target]
                             /\ n = journal.ino /\ m = sbudget.ino
  OBVIOUS
<1>2. /\ scall[c].step \in Alone \ {"recover", "decide", "intent"} /\ scall[c].step # "idle"
      /\ req \notin saved /\ req.op = "fork" /\ req.target \in Skills
      /\ SkillTypeOK /\ n \in Nat /\ m \in Nat /\ n <= m /\ f \in SkillFiles /\ NoFile \in SkillFiles /\ NoFile.ino = 0
      /\ NoFile.text = NoText /\ live = [live EXCEPT ![req.target] = f] /\ journal = [journal EXCEPT !.ino = n]
      /\ FilesStand(live, wit, folder, journal, saved, last, sbudget.ino)
  BY <1>0, <1>1, SkillForkView
<1>3. /\ wit = NoWitness /\ InodesName(f, NoWitness, m) /\ ForkStands(f, NoWitness, req, n, t)
      /\ StepStands(scall[c], f, NoWitness, n, req, t, m)
  BY <1>0, <1>1, SkillForkView
<1>4. UNCHANGED <<wit, journal, saved, pins, sbudget, last>>
  BY DEF UndoFork
<1>5. CASE folder[req.target] = "none"
  <2>1. Step(c, "forget") /\ UNCHANGED <<live, folder, slock, stuck>>
    BY <1>1, <1>5 DEF UndoFork
  <2>2. PICK k \in SkillCalls : scall' = [scall EXCEPT ![c] = k] /\ k.step = "forget"
    BY <1>2, <2>1, SkillCallGoes DEF SkillSteps
  <2>3. f = NoFile
    BY <1>1, <1>2, <1>5 DEF FilesStand
  <2>4. f.text = t
    BY <1>2, <1>3, <2>3 DEF ForkStands
  <2>5. StepStands(k, f, NoWitness, n, req, t, m)
    BY <2>2, <2>4 DEF StepStands, SavingSteps, ForkingSteps
  <2>6. PICK d : d = folder[req.target]
    OBVIOUS
  <2>7. d \in {"none", "bare", "marked"} /\ folder' = [folder EXCEPT ![req.target] = d]
    BY <1>2, <2>1, <2>6 DEF SkillTypeOK
  <2>8. /\ live' = [live EXCEPT ![req.target] = f] /\ journal' = [journal EXCEPT !.ino = n] /\ wit' = NoWitness
        /\ UNCHANGED <<saved, slock, last, pins, stuck>>
        /\ sbudget' \in [calls : Nat, edits : Nat, deaths : Nat, ino : Nat] /\ sbudget'.ino = m /\ sbudget.ino <= m
    BY <1>1, <1>2, <1>3, <1>4, <2>1 DEF SkillTypeOK
  <2>. QED  BY <1>1, <1>2, <1>3, <2>2, <2>3, <2>5, <2>7, <2>8, SkillForkMoves
<1>6. CASE /\ folder[req.target] = "marked"
           /\ f = NoFile \/ (n # 0 /\ f.ino = n /\ f.text = req.text)
  <2>1. /\ live' = [live EXCEPT ![req.target] = NoFile] /\ folder' = [folder EXCEPT ![req.target] = "bare"]
        /\ Step(c, "rmdir") /\ UNCHANGED <<slock, stuck>>
    BY <1>1, <1>6 DEF UndoFork
  <2>2. PICK k \in SkillCalls : scall' = [scall EXCEPT ![c] = k] /\ k.step = "rmdir"
    BY <1>2, <2>1, SkillCallGoes DEF SkillSteps
  <2>3. t = NoText
    BY <1>3, <1>6 DEF ForkStands, Ours
  <2>4. InodesName(NoFile, NoWitness, m) /\ ForkStands(NoFile, NoWitness, req, n, t)
    BY <1>2, <1>3, <2>3 DEF ForkStands, InodesName, NoWitness
  <2>5. StepStands(k, NoFile, NoWitness, n, req, t, m)
    BY <2>2 DEF StepStands, SavingSteps, ForkingSteps
  <2>6. PICK d \in {"none", "bare", "marked"} : d = "bare"
    OBVIOUS
  <2>7. folder' = [folder EXCEPT ![req.target] = d]
    BY <2>1, <2>6
  <2>8. /\ live' = [live EXCEPT ![req.target] = NoFile] /\ journal' = [journal EXCEPT !.ino = n] /\ wit' = NoWitness
        /\ UNCHANGED <<saved, slock, last, pins, stuck>>
        /\ sbudget' \in [calls : Nat, edits : Nat, deaths : Nat, ino : Nat] /\ sbudget'.ino = m /\ sbudget.ino <= m
    BY <1>1, <1>2, <1>3, <1>4, <2>1 DEF SkillTypeOK
  <2>9. k.step # "create"
    BY <2>2
  <2>. QED  BY <1>1, <1>2, <1>3, <2>2, <2>4, <2>5, <2>7, <2>8, <2>9, SkillForkMoves
<1>7. CASE Manual(c) /\ UNCHANGED <<live, folder>>
  BY <1>2, <1>4, <1>7, SkillStops
<1>. QED  BY <1>1, <1>5, <1>6, <1>7 DEF UndoFork

\* The empty directory goes last.
LEMMA SkillRemovesFolder == ASSUME SkillInv, NEW c \in Callers, RemoveFolder(c) PROVE SkillInv'
<1>0. scall[c].step = "rmdir" /\ scall[c].step \in ForkingSteps \cup {"unfork", "rmdir"}
  BY DEF RemoveFolder, ForkingSteps
<1>1. PICK req, f, t, n, m : /\ req = journal.req /\ f = live[req.target] /\ t = last[req.target]
                             /\ n = journal.ino /\ m = sbudget.ino
  OBVIOUS
<1>2. /\ scall[c].step \in Alone \ {"recover", "decide", "intent"} /\ scall[c].step # "idle"
      /\ req \notin saved /\ req.op = "fork" /\ req.target \in Skills
      /\ SkillTypeOK /\ n \in Nat /\ m \in Nat /\ n <= m /\ f \in SkillFiles /\ NoFile \in SkillFiles /\ NoFile.ino = 0
      /\ NoFile.text = NoText /\ live = [live EXCEPT ![req.target] = f] /\ journal = [journal EXCEPT !.ino = n]
      /\ FilesStand(live, wit, folder, journal, saved, last, sbudget.ino)
  BY <1>0, <1>1, SkillForkView
<1>3. /\ wit = NoWitness /\ InodesName(f, NoWitness, m) /\ ForkStands(f, NoWitness, req, n, t)
      /\ StepStands(scall[c], f, NoWitness, n, req, t, m)
  BY <1>0, <1>1, SkillForkView
<1>5. CASE f = NoFile
  <2>1. /\ folder' = [folder EXCEPT ![req.target] = "none"] /\ Step(c, "forget")
        /\ UNCHANGED <<live, wit, journal, saved, slock, pins, sbudget, last, stuck>>
    BY <1>1, <1>5 DEF RemoveFolder
  <2>2. PICK k \in SkillCalls : scall' = [scall EXCEPT ![c] = k] /\ k.step = "forget"
    BY <1>2, <2>1, SkillCallGoes DEF SkillSteps
  <2>4. f.text = t
    BY <1>2, <1>3, <1>5 DEF ForkStands
  <2>5. StepStands(k, f, NoWitness, n, req, t, m)
    BY <2>2, <2>4 DEF StepStands, SavingSteps, ForkingSteps
  <2>6. PICK d \in {"none", "bare", "marked"} : d = "none"
    OBVIOUS
  <2>7. folder' = [folder EXCEPT ![req.target] = d]
    BY <2>1, <2>6
  <2>8. /\ live' = [live EXCEPT ![req.target] = f] /\ journal' = [journal EXCEPT !.ino = n] /\ wit' = NoWitness
        /\ UNCHANGED <<saved, slock, last, pins, stuck>>
        /\ sbudget' \in [calls : Nat, edits : Nat, deaths : Nat, ino : Nat] /\ sbudget'.ino = m /\ sbudget.ino <= m
    BY <1>1, <1>2, <1>3, <2>1 DEF SkillTypeOK
  <2>9. k.step # "create"
    BY <2>2
  <2>. QED  BY <1>1, <1>2, <1>3, <1>5, <2>2, <2>5, <2>7, <2>8, <2>9, SkillForkMoves
<1>6. CASE f # NoFile
  BY <1>1, <1>2, <1>6, SkillStops DEF RemoveFolder
<1>. QED  BY <1>5, <1>6

\* What is on the disk is looked at once more before the commit.
LEMMA SkillLoads == ASSUME SkillInv, NEW c \in Callers, LoadUpdated(c) PROVE SkillInv'
<1>0. /\ scall[c].step = "load" /\ scall[c].step \in Alone \ {"recover", "decide", "intent"}
      /\ UNCHANGED <<live, wit, folder, journal, saved, slock, pins, sbudget, last, stuck>>
  BY DEF LoadUpdated, Alone, SkillSteps
<1>1. /\ SkillCallStands(scall[c], live, wit, folder, journal, saved, last, sbudget.ino)
      /\ StepStands(scall[c], live[journal.req.target], wit, journal.ino, journal.req,
                    last[journal.req.target], sbudget.ino)
      /\ journal \in SkillIntents /\ journal.req \in SkillRequests
  BY <1>0, SkillAtWork
<1>2. scall[c].req = journal.req /\ journal.req \notin saved
  BY <1>0, <1>1 DEF SkillCallStands
<1>3. CASE Step(c, "commit")
  <2>1. ASSUME NEW k \in SkillCalls, k.step = "commit", k.req = scall[c].req
        PROVE  SkillCallStands(k, live, wit, folder, journal, saved, last, sbudget.ino)
    <3>1. StepStands(k, live[journal.req.target], wit, journal.ino, journal.req,
                     last[journal.req.target], sbudget.ino)
      BY <1>0, <1>1, <2>1 DEF StepStands, SavingSteps, ForkingSteps
    <3>2. /\ k.step \notin {"reading", "decide", "intent", "forget", "finish", "rmdir", "unfork", "create"}
          /\ k.step \notin SavingSteps \cup ForkingSteps \cup UnsavingSteps
      BY <2>1 DEF SavingSteps, ForkingSteps, UnsavingSteps
    <3>. QED  BY <1>1, <1>2, <2>1, <3>1, <3>2 DEF SkillCallStands
  <2>. QED  BY <1>0, <1>3, <2>1, SkillGoesOn DEF Alone, SkillSteps
<1>4. CASE Step(c, "restore") \/ (Step(c, "unfork") /\ journal.req.op = "fork")
  BY <1>0, <1>2, <1>4, SkillTurnsBack
<1>. QED  BY <1>1, <1>2, <1>3, <1>4 DEF LoadUpdated, SkillRequests

\* The receipt makes the proposed text the last one, unless a person was
\* there before it.
LEMMA SkillCommits == ASSUME SkillInv, NEW c \in Callers, CommitChange(c) PROVE SkillInv'
<1> DEFINE req == journal.req  s0 == req.target
<1>0. /\ scall[c].step = "commit" /\ scall[c].step \in Alone \ {"recover", "decide", "intent"} /\ scall[c].step # "idle"
      /\ UNCHANGED <<live, wit, folder, journal, slock, pins, sbudget, stuck>> /\ Step(c, "finish")
  BY DEF CommitChange, Alone, SkillSteps
<1>1. /\ SkillCallStands(scall[c], live, wit, folder, journal, saved, last, sbudget.ino)
      /\ StepStands(scall[c], live[s0], wit, journal.ino, req, last[s0], sbudget.ino)
      /\ SkillTypeOK /\ journal \in SkillIntents /\ req \in SkillRequests /\ s0 \in Skills
      /\ FilesStand(live, wit, folder, journal, saved, last, sbudget.ino)
      /\ req \notin saved /\ req.op = "save" => SaveStands(live[s0], wit, req, journal.ino, last[s0])
      /\ req \notin saved /\ req.op = "fork" => ForkStands(live[s0], wit, req, journal.ino, last[s0])
  BY <1>0, SkillAtWork
<1>2. scall[c].req = req /\ req \notin saved /\ req.op \in {"save", "fork"} /\ req.text \in SkillTexts
  BY <1>0, <1>1 DEF SkillCallStands, SkillRequests
<1>3. /\ saved' = saved \cup {req}
      /\ last' = IF last[s0] = req.cat[s0] /\ live[s0].text = req.text
                 THEN [last EXCEPT ![s0] = req.text] ELSE last
  BY <1>2 DEF CommitChange
<1>4. IF Ours(live[s0], wit, journal.ino) THEN live[s0].text = req.text ELSE live[s0].text = last[s0]
  BY <1>0, <1>1 DEF StepStands
<1>5. Ours(live[s0], wit, journal.ino) => last[s0] = req.cat[s0]
  BY <1>1, <1>2 DEF SaveStands, ForkStands
<1>6. /\ last' \in [Skills -> SkillTexts] /\ last'[s0] = live[s0].text
      /\ \A s \in Skills \ {s0} : last'[s] = last[s]
  BY <1>1, <1>2, <1>3, <1>4, <1>5 DEF SkillTypeOK
<1>7. PICK k \in SkillCalls : scall' = [scall EXCEPT ![c] = k] /\ k.step = "finish"
  BY <1>0, <1>1, SkillCallGoes DEF SkillSteps
<1>8. SkillTypeOK'
  BY <1>0, <1>1, <1>3, <1>6, <1>7 DEF SkillTypeOK
<1>9. FilesStand(live, wit, folder, journal, saved, last, sbudget.ino)'
  <2>1. journal # NoIntent
    BY <1>1 DEF SkillIntents, NoIntent
  <2>. QED  BY <1>0, <1>1, <1>3, <1>6, <2>1 DEF FilesStand
<1>10. SkillCallStands(k, live, wit, folder, journal, saved, last, sbudget.ino)'
  <2>1. StepStands(k, live[journal.req.target], wit, journal.ino, journal.req, last[journal.req.target], sbudget.ino)'
    BY <1>7 DEF StepStands, SavingSteps, ForkingSteps
  <2>2. /\ k.step \notin {"reading", "decide", "intent", "forget", "rmdir", "unfork", "create", "load", "commit"}
        /\ k.step \notin SavingSteps \cup ForkingSteps \cup UnsavingSteps
    BY <1>7 DEF SavingSteps, ForkingSteps, UnsavingSteps
  <2>3. req \in saved'
    BY <1>3
  <2>. QED  BY <1>0, <1>1, <1>7, <2>1, <2>2, <2>3 DEF SkillCallStands
<1>11. k.step \in Alone
  BY <1>7 DEF Alone, SkillSteps
<1>. QED  BY <1>0, <1>7, <1>8, <1>9, <1>10, <1>11, SkillAloneMoves

\* Witnesses and marker go once the receipt is there.
LEMMA SkillFinishes == ASSUME SkillInv, NEW c \in Callers, Finalize(c) PROVE SkillInv'
<1> DEFINE req == journal.req  s0 == req.target
<1>0. /\ scall[c].step = "finish" /\ scall[c].step \in Alone \ {"recover", "decide", "intent"} /\ scall[c].step # "idle"
      /\ UNCHANGED <<live, journal, saved, pins, sbudget, last>>
  BY DEF Finalize, Alone, SkillSteps
<1>1. /\ SkillTypeOK /\ journal \in SkillIntents /\ s0 \in Skills /\ sbudget.ino \in Nat
      /\ FilesStand(live, wit, folder, journal, saved, last, sbudget.ino)
      /\ SkillCallStands(scall[c], live, wit, folder, journal, saved, last, sbudget.ino)
      /\ InodesName(live[s0], wit, sbudget.ino)
  BY <1>0, SkillAtWork
<1>2. req \in saved
  BY <1>0, <1>1 DEF SkillCallStands
<1>3. live[s0].text = last[s0]
  BY <1>1, <1>2 DEF FilesStand
<1>4. CASE Manual(c) /\ UNCHANGED <<wit, folder>>
  BY <1>0, <1>4, SkillStops
<1>5. CASE /\ wit' = NoWitness /\ Step(c, "forget") /\ UNCHANGED <<slock, stuck>>
           /\ folder' = IF req.op = "fork" THEN [folder EXCEPT ![s0] = "bare"] ELSE folder
  <2>1. PICK k \in SkillCalls : scall' = [scall EXCEPT ![c] = k] /\ k.step = "forget"
    BY <1>0, <1>1, <1>5, SkillCallGoes DEF SkillSteps
  <2>2. folder' \in [Skills -> {"none", "bare", "marked"}] /\ \A s \in Skills : folder'[s] # "none" \/ folder'[s] = folder[s]
    BY <1>1, <1>5 DEF SkillTypeOK
  <2>3. NoWitness \in [temp : SkillFiles, guard : SkillFiles, displaced : SkillFiles]
    BY DEF NoWitness, NoFile, SkillFiles, SkillTexts, NoText
  <2>4. SkillTypeOK'
    BY <1>0, <1>1, <1>5, <2>1, <2>2, <2>3 DEF SkillTypeOK
  <2>5. InodesName(live[s0], NoWitness, sbudget.ino)
    BY <1>1 DEF InodesName, NoWitness
  <2>6. FilesStand(live, wit, folder, journal, saved, last, sbudget.ino)'
    <3>1. journal # NoIntent
      BY <1>1 DEF SkillIntents, NoIntent
    <3>. QED  BY <1>0, <1>1, <1>2, <1>5, <2>2, <2>5, <3>1 DEF FilesStand
  <2>7. SkillCallStands(k, live, wit, folder, journal, saved, last, sbudget.ino)'
    <3>1. StepStands(k, live[journal.req.target], wit, journal.ino, journal.req, last[journal.req.target], sbudget.ino)'
      BY <1>0, <1>3, <1>5, <2>1 DEF StepStands, SavingSteps, ForkingSteps
    <3>2. /\ k.step \notin {"reading", "decide", "intent", "finish", "rmdir", "unfork", "create", "load", "commit"}
          /\ k.step \notin SavingSteps \cup ForkingSteps \cup UnsavingSteps
      BY <2>1 DEF SavingSteps, ForkingSteps, UnsavingSteps
    <3>. QED  BY <1>0, <1>1, <2>1, <3>1, <3>2 DEF SkillCallStands
  <2>8. k.step \in Alone
    BY <2>1 DEF Alone, SkillSteps
  <2>. QED  BY <1>0, <1>5, <2>1, <2>4, <2>6, <2>7, <2>8, SkillAloneMoves
<1>. QED  BY <1>4, <1>5 DEF Finalize

\* With the intent goes the last trace of the transaction.
LEMMA SkillForgets == ASSUME SkillInv, NEW c \in Callers, Forget(c) PROVE SkillInv'
<1> DEFINE s0 == journal.req.target
<1>0. /\ scall[c].step = "forget" /\ scall[c].step \in Alone \ {"recover", "decide", "intent"}
      /\ journal' = NoIntent /\ UNCHANGED <<live, wit, folder, saved, pins, sbudget, last, stuck>>
      /\ Recovered(c) \/ End(c)
  BY DEF Forget, Alone, SkillSteps
<1>1. /\ journal \in SkillIntents /\ FilesStand(live, wit, folder, journal, saved, last, sbudget.ino)
      /\ StepStands(scall[c], live[s0], wit, journal.ino, journal.req, last[s0], sbudget.ino)
  BY <1>0, SkillAtWork
<1>2. wit = NoWitness /\ live[s0].text = last[s0]
  BY <1>0, <1>1 DEF StepStands
<1>3. \A s \in Skills : live[s].text = last[s]
  BY <1>1, <1>2 DEF FilesStand
<1>4. FilesStand(live, wit, folder, journal, saved, last, sbudget.ino)'
  <2>1. NoIntent \notin SkillIntents
    BY DEF NoIntent, SkillIntents
  <2>. QED  BY <1>0, <1>1, <1>2, <1>3, <2>1 DEF FilesStand
<1>. QED  BY <1>0, <1>4, SkillRecovered
\* A death leaves the disk as it is; a half-written intent keeps readers out.
LEMMA SkillDies == ASSUME SkillInv, NEW c \in Callers, AuthorDies(c) PROVE SkillInv'
<1>0. /\ SkillTypeOK /\ LocksHeld /\ FilesStand(live, wit, folder, journal, saved, last, sbudget.ino)
      /\ SkillCallStands(scall[c], live, wit, folder, journal, saved, last, sbudget.ino)
  BY DEF SkillInv
<1>1. /\ sbudget' = [sbudget EXCEPT !.deaths = @ + 1] /\ Unlocking(c) /\ scall' = [scall EXCEPT ![c] = SkillIdle]
      /\ journal' \in IF scall[c].step = "intent" THEN {NoIntent, Torn} ELSE {journal}
      /\ UNCHANGED <<live, wit, folder, saved, pins, last, stuck>>
  BY DEF AuthorDies, End
<1>2. /\ sbudget' \in [calls : Nat, edits : Nat, deaths : Nat, ino : Nat] /\ sbudget'.ino = sbudget.ino
      /\ stuck' \in BOOLEAN /\ SkillIdle.step = "idle"
  BY <1>0, <1>1 DEF SkillTypeOK, SkillIdle
<1>3. CASE scall[c].step \in Alone
  <2>1. scall[c].step = "intent" => journal = NoIntent
    BY <1>0 DEF SkillCallStands
  <2>2. Torn # NoIntent /\ Torn \notin SkillIntents
    BY DEF Torn, NoIntent, SkillIntents
  <2>3. FilesStand(live, wit, folder, journal, saved, last, sbudget.ino)'
    <3>1. CASE journal' = journal
      BY <1>0, <1>1, <1>2, <3>1 DEF FilesStand
    <3>2. CASE journal' = Torn
      BY <1>0, <1>1, <1>2, <2>2, <3>2 DEF FilesStand
    <3>. QED  BY <1>1, <2>1, <3>1, <3>2
  <2>4. /\ live' \in [Skills -> SkillFiles]
        /\ wit' \in [temp : SkillFiles, guard : SkillFiles, displaced : SkillFiles]
        /\ folder' \in [Skills -> {"none", "bare", "marked"}]
        /\ journal' \in {NoIntent, Torn} \cup SkillIntents /\ saved' \subseteq SkillRequests /\ pins' = pins
        /\ last' \in [Skills -> SkillTexts]
    BY <1>0, <1>1 DEF SkillTypeOK
  <2>. QED  BY <1>1, <1>2, <1>3, <2>3, <2>4, SkillEnds
<1>4. CASE scall[c].step \notin Alone
  <2>1. journal' = journal
    BY <1>1, <1>4 DEF Alone, SkillSteps
  <2>2. SkillIdle.step \notin Alone \cup Sharing
    BY <1>2 DEF Alone, Sharing, SkillSteps
  <2>3. LocksHeld' /\ slock' \in [exclusive : SUBSET Callers, shared : SUBSET Callers]
    BY <1>0, <1>1, <2>2, SkillLocks
  <2>4. SkillCallStands(SkillIdle, live, wit, folder, journal, saved, last, sbudget.ino)
    BY <1>2 DEF SkillCallStands, Alone, SkillSteps
  <2>. QED  BY <1>1, <1>2, <2>1, <2>3, <2>4, SkillCallMoves
<1>. QED  BY <1>3, <1>4

\* A file put in place by hand has an inode of its own, so no transaction
\* takes it for the one it made, and its text is the last one.
LEMMA SkillEdited ==
    ASSUME SkillInv, NEW e \in Skills, NEW x \in EditTexts, OwnEdit(e, x)
    PROVE  SkillInv'
<1>0. /\ SkillTypeOK /\ LocksHeld /\ FilesStand(live, wit, folder, journal, saved, last, sbudget.ino)
      /\ sbudget \in [calls : Nat, edits : Nat, deaths : Nat, ino : Nat] /\ sbudget.ino \in Nat /\ x \in SkillTexts
  BY DEF SkillInv, SkillTypeOK, SkillTexts
<1>1. PICK g, m, u : g = NextFile(x) /\ m = sbudget.ino /\ u = m + 1
  OBVIOUS
<1>2. /\ live' = [live EXCEPT ![e] = g] /\ folder' = [folder EXCEPT ![e] = IF @ = "none" THEN "bare" ELSE @]
      /\ sbudget' = [sbudget EXCEPT !.edits = @ + 1, !.ino = @ + 1] /\ last' = [last EXCEPT ![e] = x]
      /\ UNCHANGED <<wit, journal, saved, slock, scall, pins, stuck>>
  BY <1>1 DEF OwnEdit
<1>3. g \in SkillFiles /\ g.ino = u /\ g.text = x /\ m \in Nat /\ u \in Nat /\ u > m /\ NoFile.ino = 0 /\ g # NoFile
  BY <1>0, <1>1, FreshInode DEF NoFile
<1>4. sbudget' \in [calls : Nat, edits : Nat, deaths : Nat, ino : Nat] /\ sbudget'.ino = u
  <2>1. sbudget.edits + 1 \in Nat /\ sbudget.ino + 1 \in Nat /\ u = sbudget.ino + 1
    BY <1>0, <1>1
  <2>2. sbudget' = [sbudget EXCEPT !.edits = sbudget.edits + 1, !.ino = sbudget.ino + 1]
    BY <1>2
  <2>. QED  BY <1>0, <2>1, <2>2
<1>5. /\ live' \in [Skills -> SkillFiles] /\ last' \in [Skills -> SkillTexts]
      /\ folder' \in [Skills -> {"none", "bare", "marked"}]
      /\ live'[e] = g /\ last'[e] = x /\ folder'[e] # "none"
      /\ \A s \in Skills : s # e => live'[s] = live[s] /\ last'[s] = last[s] /\ folder'[s] = folder[s]
  BY <1>0, <1>2, <1>3 DEF SkillTypeOK
<1>6. SkillTypeOK'
  BY <1>0, <1>2, <1>4, <1>5 DEF SkillTypeOK
<1>7. LocksHeld'
  BY <1>0, <1>2 DEF LocksHeld
<1>8. ASSUME NEW s \in Skills
      PROVE  /\ folder'[s] = "none" => live'[s] = NoFile
             /\ live'[s].ino <= u /\ (live'[s].ino = 0 => live'[s] = NoFile)
             /\ live[s].text = last[s] => live'[s].text = last'[s]
  <2>1. /\ folder[s] = "none" => live[s] = NoFile
        /\ live[s].ino <= m /\ (live[s].ino = 0 => live[s] = NoFile) /\ live[s].ino \in Nat
    BY <1>0, <1>1 DEF FilesStand, SkillTypeOK, SkillFiles
  <2>. QED  BY <1>3, <1>5, <2>1
<1>9. CASE journal \in SkillIntents
  <2>1. PICK req, n, w, f, t : /\ req = journal.req /\ n = journal.ino /\ w = wit
                               /\ f = live[req.target] /\ t = last[req.target]
    OBVIOUS
  <2>2. PICK f1, t1 : f1 = live'[req.target] /\ t1 = last'[req.target]
    OBVIOUS
  <2>3. /\ req.target \in Skills /\ n \in Nat /\ f \in SkillFiles /\ f1 \in SkillFiles
        /\ w \in [temp : SkillFiles, guard : SkillFiles, displaced : SkillFiles]
    BY <1>0, <1>5, <1>9, <2>1, <2>2 DEF SkillIntents, SkillRequests, SkillTypeOK
  <2>4. /\ n <= m /\ InodesName(f, w, m) /\ (req.op = "save" => folder[req.target] # "none")
        /\ \A s \in Skills \ {req.target} : live[s].text = last[s]
        /\ req \in saved => f.text = t
        /\ req \notin saved /\ req.op = "save" => SaveStands(f, w, req, n, t)
        /\ req \notin saved /\ req.op = "fork" => ForkStands(f, w, req, n, t)
    BY <1>0, <1>1, <1>9, <2>1 DEF FilesStand
  <2>5. (f1 = f /\ t1 = t) \/ (f1 = g /\ t1 = x)
    <3>1. CASE req.target = e
      BY <1>5, <2>2, <3>1
    <3>2. CASE req.target # e
      BY <1>5, <2>1, <2>2, <2>3, <3>2
    <3>. QED  BY <3>1, <3>2
  <2>6. /\ f.ino <= m /\ w.temp.ino <= m /\ w.guard.ino <= m /\ w.displaced.ino <= m
        /\ f.ino \in Nat /\ w.temp.ino \in Nat /\ w.guard.ino \in Nat /\ w.displaced.ino \in Nat
    BY <2>3, <2>4 DEF InodesName, SkillFiles
  <2>7. ~Ours(g, w, n)
    BY <1>3, <2>3, <2>4, <2>6 DEF Ours
  <2>8. InodesName(f1, w, u)
    <3>1. CASE f1 = f
      BY <1>3, <2>4, <2>6, <3>1 DEF InodesName
    <3>2. CASE f1 = g
      BY <1>3, <2>4, <2>6, <3>2 DEF InodesName
    <3>. QED  BY <2>5, <3>1, <3>2
  <2>9. /\ req \in saved => f1.text = t1
        /\ req \notin saved /\ req.op = "save" => SaveStands(f1, w, req, n, t1)
        /\ req \notin saved /\ req.op = "fork" => ForkStands(f1, w, req, n, t1)
    <3>1. CASE f1 = f /\ t1 = t
      BY <2>4, <3>1
    <3>2. CASE f1 = g /\ t1 = x
      <4>1. req.op = "save" /\ req \notin saved => SaveStands(g, w, req, n, x)
        BY <1>3, <2>4, <2>7 DEF SaveStands
      <4>2. req.op = "fork" /\ req \notin saved => ForkStands(g, w, req, n, x)
        BY <1>3, <2>4, <2>7 DEF ForkStands
      <4>. QED  BY <1>3, <3>2, <4>1, <4>2
    <3>. QED  BY <2>5, <3>1, <3>2
  <2>10. FilesStand(live, wit, folder, journal, saved, last, sbudget.ino)'
    <3>1. journal # NoIntent
      BY <1>9 DEF SkillIntents, NoIntent
    <3>2. req.op = "save" => folder'[req.target] # "none"
      BY <1>5, <2>3, <2>4
    <3>3. n <= u
      BY <1>3, <2>3, <2>4
    <3>. QED  BY <1>2, <1>4, <1>8, <2>1, <2>2, <2>3, <2>4, <2>8, <2>9, <3>1, <3>2, <3>3 DEF FilesStand
  <2>11. ASSUME NEW d \in Callers
         PROVE  SkillCallStands(scall[d], live, wit, folder, journal, saved, last, sbudget.ino)'
    <3>1. PICK k : k = scall[d]
      OBVIOUS
    <3>2. SkillCallStands(k, live, wit, folder, journal, saved, last, sbudget.ino)
      BY <3>1 DEF SkillInv
    <3>3. CASE k.step \in Alone \ {"recover", "decide", "intent"}
      <4>1. StepStands(k, f, w, n, req, t, m)
        BY <1>1, <2>1, <3>2, <3>3 DEF SkillCallStands
      <4>2. k \in SkillCalls /\ k.file.ino \in Nat
        BY <1>0, <3>1, <3>3, SkillCallShapes DEF Alone, SkillSteps, SkillFiles
      <4>3. StepStands(k, f1, w, n, req, t1, u)
        <5>1. CASE f1 = f /\ t1 = t
          BY <1>3, <4>1, <4>2, <5>1 DEF StepStands
        <5>2. CASE f1 = g /\ t1 = x
          <6>1. /\ k.file.ino <= m => g.ino # k.file.ino
                /\ k.file.ino <= m => k.file.ino <= u
            BY <1>3, <4>2
          <6>. QED  BY <1>3, <2>7, <4>1, <5>2, <6>1 DEF StepStands
        <5>. QED  BY <2>5, <5>1, <5>2
      <4>4. StepStands(k, live[journal.req.target], wit, journal.ino, journal.req, last[journal.req.target], sbudget.ino)'
        BY <1>2, <1>4, <2>1, <2>2, <4>3
      <4>5. k.step = "create" => folder'[req.target] # "none"
        BY <1>5, <2>1, <2>3, <3>2, <3>3 DEF SkillCallStands
      <4>6. k.step \notin {"reading", "decide", "intent"}
        BY <3>3 DEF Alone
      <4>. QED  BY <1>2, <2>1, <3>1, <3>2, <3>3, <4>4, <4>5, <4>6 DEF SkillCallStands
    <3>4. CASE k.step \notin Alone \ {"recover", "decide", "intent"}
      <4>1. journal # NoIntent
        BY <1>9 DEF SkillIntents, NoIntent
      <4>2. k.step \notin {"reading", "decide", "intent"}
        BY <3>2, <4>1 DEF SkillCallStands
      <4>. QED  BY <1>2, <3>1, <3>4, <4>2 DEF SkillCallStands
    <3>. QED  BY <3>3, <3>4
  <2>. QED  BY <1>6, <1>7, <2>10, <2>11 DEF SkillInv
<1>10. CASE journal \notin SkillIntents
  <2>1. FilesStand(live, wit, folder, journal, saved, last, sbudget.ino)'
    BY <1>0, <1>2, <1>4, <1>8, <1>10 DEF FilesStand
  <2>2. ASSUME NEW d \in Callers
        PROVE  SkillCallStands(scall[d], live, wit, folder, journal, saved, last, sbudget.ino)'
    <3>1. PICK k : k = scall[d]
      OBVIOUS
    <3>2. SkillCallStands(k, live, wit, folder, journal, saved, last, sbudget.ino)
      BY <3>1 DEF SkillInv
    <3>3. k.step \notin Alone \ {"recover", "decide", "intent"}
      BY <1>10, <3>2 DEF SkillCallStands
    <3>4. k.step = "intent" /\ k.req.op = "save" => live'[k.req.target] # NoFile
      <4>1. k.step = "intent" => k.req.target \in Skills
        BY <3>2 DEF SkillCallStands, SkillRequests
      <4>. QED  BY <1>3, <1>5, <3>2, <4>1 DEF SkillCallStands
    <3>. QED  BY <1>2, <3>1, <3>2, <3>3, <3>4 DEF SkillCallStands
  <2>. QED  BY <1>6, <1>7, <2>1, <2>2 DEF SkillInv
<1>. QED  BY <1>9, <1>10

\* Every step of skill authoring, and of the people beside it, keeps the invariant.
LEMMA SkillInvStep == SkillInv /\ [SkillNext]_svars => SkillInv'
<1> SUFFICES ASSUME SkillInv, [SkillNext]_svars PROVE SkillInv'
  OBVIOUS
<1>1. CASE UNCHANGED svars
  BY <1>1 DEF svars, SkillInv, SkillTypeOK, LocksHeld
<1>2. CASE PinSkills
  <2>1. SkillTypeOK'
    BY <1>2, SkillAssumption DEF PinSkills, SkillInv, SkillTypeOK
  <2>. QED  BY <1>2, <2>1 DEF PinSkills, SkillInv, LocksHeld
<1>3. CASE \E s \in Skills, x \in EditTexts : OwnEdit(s, x)
  BY <1>3, SkillEdited
<1>4. ASSUME NEW c \in Callers,
             \/ Author(c) \/ RecoverPending(c) \/ ReadCatalog(c)
             \/ LockExclusive(c) \/ LockShared(c) \/ LookPending(c) \/ LeaveReading(c)
             \/ Recover(c) \/ Decide(c) \/ WriteIntent(c) \/ AuthorDies(c)
      PROVE  SkillInv'
  BY <1>4, SkillAsks, SkillQueues, SkillRecovers, SkillDecides, SkillIntends, SkillDies
<1>5. ASSUME NEW c \in Callers,
             \/ OpenTemp(c) \/ FillTemp(c) \/ LinkGuard(c) \/ Displace(c) \/ CompareDisplaced(c)
             \/ Install(c) \/ WitnessInstalled(c) \/ UnlinkTemp(c)
             \/ MakeFolder(c) \/ MarkFolder(c) \/ CreateSkill(c) \/ RecordFork(c)
      PROVE  SkillInv'
  BY <1>5, SkillOpensTemp, SkillFillsTemp, SkillLinksGuard, SkillDisplaces, SkillCompares, SkillInstalls,
     SkillWitnesses, SkillUnlinks, SkillMakesFolder, SkillMarksFolder, SkillCreates, SkillRecordsFork
<1>6. ASSUME NEW c \in Callers,
             \/ LoadUpdated(c) \/ CommitChange(c) \/ Finalize(c) \/ Forget(c)
             \/ RestoreDisplaced(c) \/ Judge(c) \/ RemoveProposed(c) \/ CheckMoved(c)
             \/ RelinkOriginal(c) \/ DropDisplaced(c) \/ CleanWitnesses(c) \/ UndoFork(c) \/ RemoveFolder(c)
      PROVE  SkillInv'
  BY <1>6, SkillLoads, SkillCommits, SkillFinishes, SkillForgets, SkillRestores, SkillJudges, SkillRemoves,
     SkillChecksMoved, SkillRelinks, SkillDrops, SkillCleans, SkillUndoesFork, SkillRemovesFolder
<1>. QED  BY <1>1, <1>2, <1>3, <1>4, <1>5, <1>6 DEF SkillNext

\* Whoever reads the catalog under the guard sees of every skill the text last
\* committed or put there by hand, whatever saves, forks, rollbacks and
\* recoveries overlapped and died before (catalog_read_guard, _atomic_replace,
\* _rollback_save_intent, _finalize_recovery_intent of skill_authoring.py).
THEOREM GuardedReadsHold == Spec => []GuardedReads
<1>1. Init => SkillInv
  BY SkillInvInit DEF Init
<1>2. SkillInv /\ [Next]_vars => SkillInv'
  BY AreaSteps, SkillInvStep
<1>3. SkillInv => GuardedReads
  <2> SUFFICES ASSUME SkillInv, NEW c \in Callers, scall[c].step = "reading", NEW s \in Skills
               PROVE  live[s].text = last[s]
    BY DEF GuardedReads
  <2>1. journal = NoIntent
    BY DEF SkillInv, SkillCallStands
  <2>. QED  BY <2>1 DEF SkillInv, FilesStand
<1>. QED  BY <1>1, <1>2, <1>3, PTL DEF Spec

-----------------------------------------------------------------------------
(* The whole workspace                                                      *)

\* Every part of the workspace keeps its types, and a behaviour stays with
\* its part, for any number of calls that overlap, fail and die.
THEOREM WorkspaceTypeCorrect == Spec => []TypeOK
<1> DEFINE Parts0 == /\ DocumentInv /\ SkillInv /\ SpaceInv /\ CheckpointInv /\ DraftInv /\ InstallInv
                     /\ BrandInv /\ BackupInv /\ MigrationTypeOK /\ GraphInv /\ EvidenceInv /\ area \in Areas
<1>1. Init => Parts0
  BY DocumentInvInit, SkillInvInit, SpaceInvInit, CheckpointInvInit, DraftInvInit, InstallInvInit, BrandInvInit,
     BackupInvInit, MigrationTypeInit, GraphInvInit, EvidenceInvInit DEF Init
<1>2. Parts0 /\ [Next]_vars => Parts0'
  <2> SUFFICES ASSUME Parts0, [Next]_vars PROVE Parts0'
    OBVIOUS
  <2>1. /\ DocumentInv' /\ SkillInv' /\ SpaceInv' /\ CheckpointInv' /\ DraftInv' /\ InstallInv'
        /\ BrandInv' /\ BackupInv' /\ MigrationTypeOK' /\ GraphInv' /\ EvidenceInv'
    BY AreaSteps, DocumentInvStep, SkillInvStep, SpaceInvStep, CheckpointInvStep, DraftInvStep, InstallInvStep,
       BrandInvStep, BackupInvStep, MigrationTypeStep, GraphInvStep, EvidenceInvStep
  <2>2. (area \in Areas)'
    BY DEF Next, vars
  <2>. QED  BY <2>1, <2>2
<1>3. Parts0 => TypeOK
  BY DEF TypeOK, DocumentInv, SkillInv, SpaceInv, CheckpointInv, DraftInv, InstallInv, BrandInv, BackupInv,
         GraphInv, EvidenceInv
<1>. QED  BY <1>1, <1>2, <1>3, PTL DEF Spec
=============================================================================
