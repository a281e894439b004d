---------------------------- MODULE RecordsProofs ----------------------------
(* What the platform services promise of their records, for any number of   *)
(* callers, calls and deaths.                                               *)
EXTENDS Platform, FiniteSetTheorems, SequenceTheorems, TLAPS

\* A step of the platform is a step of one service and leaves the others alone.
LEMMA ServiceSteps ==
    ASSUME [Next]_vars
    PROVE  /\ [EmergencyNext]_evars /\ [WorkflowsMove]_wvars /\ [InboxNext]_nvars
           /\ [OutboxNext]_ovars /\ [PackageNext]_pvars /\ [McpNext]_gvars /\ [TraceNext]_zvars
           /\ [EvalNext]_vvars /\ [ReplayNext]_xvars /\ [GatewayNext]_yvars /\ [SecretNext]_svars
BY DEF Next, vars

-----------------------------------------------------------------------------
(* Secrets                                                                  *)

\* No key, no blob.
LEMMA SecretInvInit == SecretInit => SecretInv
BY DEF SecretInit, SecretInv, SecretTypeOK, BlobsOpen, KeyComesFirst, IdsMinted, SecIdle, SecretCalls, NoBlob, Blobs

\* A call that ends leaves blobs and key as they are.
LEMMA SecretCallEnds ==
    ASSUME SecretInv, NEW c \in Callers, SecEnd(c), UNCHANGED <<keychain, blobfile, approvedFor, minted>>
    PROVE  SecretInv'
<1>1. SecIdle \in SecretCalls /\ SecIdle.step = "idle"
  BY DEF SecIdle, SecretCalls, NoBlob, Blobs
<1>. QED  BY <1>1 DEF SecretInv, SecEnd, SecretTypeOK, BlobsOpen, KeyComesFirst, IdsMinted, Opens

\* A call that begins, or goes on to another step than writing, does so too.
LEMMA SecretCallMoves ==
    ASSUME SecretInv, NEW c \in Callers, NEW call \in SecretCalls,
           scall' = [scall EXCEPT ![c] = call], call.step # "write",
           keychain = 0 => call.step \notin {"approve", "seal"},
           UNCHANGED <<keychain, blobfile, approvedFor, minted>>
    PROVE  SecretInv'
BY DEF SecretInv, SecretTypeOK, BlobsOpen, KeyComesFirst, IdsMinted, Opens

\* Every step of the encryption service keeps the invariant.
LEMMA SecretInvStep == SecretInv /\ [SecretNext]_svars => SecretInv'
<1> SUFFICES ASSUME SecretInv, [SecretNext]_svars PROVE SecretInv'
  OBVIOUS
<1>0. SecretTypeOK /\ BlobsOpen /\ KeyComesFirst /\ IdsMinted
  BY DEF SecretInv
<1>1. CASE ApproveDecrypt \/ UNCHANGED svars
  BY <1>0, <1>1 DEF svars, ApproveDecrypt, SecretInv, SecretTypeOK, BlobsOpen, KeyComesFirst, IdsMinted, Opens
<1>2. ASSUME NEW c \in Callers, NEW plain \in Plaintexts, EncryptToPath(c, plain) PROVE SecretInv'
  <2>1. [SecIdle EXCEPT !.step = "probe", !.plain = plain] \in SecretCalls
    BY DEF SecIdle, SecretCalls, NoBlob, Blobs
  <2>. QED  BY <1>2, <2>1, SecretCallMoves DEF EncryptToPath, SecretCall, SecIdle
<1>3. ASSUME NEW c \in Callers, RotatePath(c) PROVE SecretInv'
  <2>1. [SecIdle EXCEPT !.step = "probe", !.old = blobfile] \in SecretCalls
    BY <1>0 DEF SecIdle, SecretCalls, NoBlob, Blobs, SecretTypeOK
  <2>. QED  BY <1>3, <2>1, SecretCallMoves DEF RotatePath, SecretCall, SecIdle
<1>4. ASSUME NEW c \in Callers, Probe(c) PROVE SecretInv'
  <2> DEFINE step == IF keychain = 0 THEN "add" ELSE IF scall[c].old # NoBlob THEN "approve" ELSE "seal"
  <2>1. scall' = [scall EXCEPT ![c].step = step] /\ UNCHANGED <<keychain, blobfile, approvedFor, minted>>
    BY <1>4 DEF Probe, SecGo
  <2>2. step \in {"add", "approve", "seal"} /\ (keychain = 0 => step = "add")
    OBVIOUS
  <2> HIDE DEF step
  <2>3. scall[c] \in SecretCalls
    BY <1>0 DEF SecretTypeOK
  <2>4. [scall[c] EXCEPT !.step = step] \in SecretCalls /\ [scall[c] EXCEPT !.step = step].step = step
    BY <2>2, <2>3 DEF SecretCalls
  <2>5. scall' = [scall EXCEPT ![c] = [scall[c] EXCEPT !.step = step]]
    BY <2>1
  <2>. QED  BY <2>1, <2>2, <2>4, <2>5, SecretCallMoves
<1>5. ASSUME NEW c \in Callers, AddKey(c) PROVE SecretInv'
  <2>1. CASE keychain = 0
    <3>1. /\ keychain' = minted + 1 /\ minted' = minted + 1
          /\ scall' = [scall EXCEPT ![c].step = "probe"]
          /\ UNCHANGED <<blobfile, approvedFor>>
      BY <1>5, <2>1 DEF AddKey, KeyAbsent, SecGo
    <3>2. scall' \in [Callers -> SecretCalls] /\ \A d \in Callers : scall'[d].step # "write"
      BY <1>0, <2>1, <3>1 DEF SecretTypeOK, SecretCalls, KeyComesFirst
    <3>. QED  BY <1>0, <2>1, <3>1, <3>2 DEF SecretInv, SecretTypeOK, BlobsOpen, KeyComesFirst, IdsMinted, Opens
  <2>2. CASE keychain # 0
    BY <1>5, <2>2, SecretCallEnds DEF AddKey, KeyAbsent
  <2>. QED  BY <2>1, <2>2
<1>6. ASSUME NEW c \in Callers, Decrypt(c) PROVE SecretInv'
  <2> DEFINE call == [scall[c] EXCEPT !.step = "seal", !.plain = scall[c].old.plain]
  <2>1. CASE scall' = [scall EXCEPT ![c].step = "seal", ![c].plain = scall[c].old.plain]
    <3>1. call \in SecretCalls /\ call.step = "seal" /\ keychain # 0
      BY <1>0, <1>6 DEF Decrypt, SecretTypeOK, SecretCalls, Blobs, KeyComesFirst
    <3>2. scall' = [scall EXCEPT ![c] = call]
      BY <1>0, <2>1 DEF SecretTypeOK
    <3>. QED  BY <1>6, <3>1, <3>2, SecretCallMoves DEF Decrypt
  <2>2. CASE SecEnd(c)
    BY <1>6, <2>2, SecretCallEnds DEF Decrypt
  <2>. QED  BY <1>6, <2>1, <2>2 DEF Decrypt
<1>7. ASSUME NEW c \in Callers, Seal(c) PROVE SecretInv'
  <2>1. Sealed(c) \in Blobs /\ Sealed(c).id = minted + 1 /\ Sealed(c).under = keychain
    BY <1>0 DEF Sealed, SecretTypeOK, SecretCalls, Blobs
  <2>2. /\ scall' = [scall EXCEPT ![c].step = "write", ![c].new = Sealed(c)]
        /\ scall[c].step = "seal" /\ minted' = minted + 1
        /\ UNCHANGED <<keychain, blobfile, approvedFor>>
    BY <1>7 DEF Seal
  <2>3. /\ scall' \in [Callers -> SecretCalls]
        /\ scall'[c].step = "write" /\ scall'[c].new = Sealed(c)
        /\ \A d \in Callers \ {c} : scall'[d] = scall[d]
    BY <1>0, <2>1, <2>2 DEF SecretTypeOK, SecretCalls
  <2>4. SecretTypeOK'
    BY <1>0, <2>2, <2>3 DEF SecretTypeOK
  <2>. QED  BY <1>0, <2>1, <2>2, <2>3, <2>4 DEF SecretInv, SecretTypeOK, BlobsOpen, KeyComesFirst, IdsMinted, Opens
<1>8. ASSUME NEW c \in Callers, WriteBlob(c) PROVE SecretInv'
  BY <1>0, <1>8 DEF WriteBlob, SecEnd, SecretInv, SecretTypeOK, SecretCalls, BlobsOpen, KeyComesFirst, IdsMinted, Opens, SecIdle, NoBlob, Blobs
<1>9. ASSUME NEW c \in Callers, SecretDies(c) PROVE SecretInv'
  BY <1>9, SecretCallEnds DEF SecretDies
<1>. QED  BY <1>1, <1>2, <1>3, <1>4, <1>5, <1>6, <1>7, <1>8, <1>9 DEF SecretNext

\* What was sealed can be opened, however many first calls race for the key
\* (MacOSKeychainProvider._probe, _encrypt, _open).
THEOREM SealedBlobsOpen == Spec => []BlobsOpen
<1>1. Init => SecretInv
  BY SecretInvInit DEF Init
<1>2. SecretInv /\ [Next]_vars => SecretInv'
  BY SecretInvStep, ServiceSteps
<1>3. SecretInv => BlobsOpen
  BY DEF SecretInv
<1>. QED  BY <1>1, <1>2, <1>3, PTL DEF Spec

-----------------------------------------------------------------------------
(* Evaluations                                                              *)

\* Nothing was evaluated and nobody calls.
LEMMA EvalInvInit == EvalInit => EvalInv
BY DEF EvalInit, EvalInv, EvalTypeOK

\* A step that stores nothing keeps the invariant when the call it leaves stands.
LEMMA EvalCallMoves ==
    ASSUME EvalInv, NEW c \in Callers, NEW call \in EvalCalls \cup {EvIdle},
           vcall' = [vcall EXCEPT ![c] = call], call # EvIdle => EvalCallStands(call),
           UNCHANGED <<results, evalRuns, baselines, comparisons, announced, rejected>>
    PROVE  EvalInv'
BY DEF EvalInv, EvalTypeOK, EvalCallStands, Accepted, Compared, Fails

\* Steps that add to a set of records and end their call keep it.
LEMMA EvalRecordsGrow ==
    ASSUME EvalInv, NEW c \in Callers, EvEnd(c), UNCHANGED <<results, evalRuns>>,
           baselines \subseteq baselines', baselines' \subseteq Baselines,
           \A b \in baselines' \ baselines : Accepted(b),
           UNCHANGED comparisons, announced' \subseteq comparisons, rejected' \subseteq comparisons
    PROVE  EvalInv'
BY DEF EvalInv, EvalTypeOK, EvEnd, EvalCallStands, Accepted, Compared, Fails

\* Every step of the laboratory keeps the invariant.
LEMMA EvalInvStep == EvalInv /\ [EvalNext]_vvars => EvalInv'
<1> SUFFICES ASSUME EvalInv, [EvalNext]_vvars PROVE EvalInv'
  OBVIOUS
<1>0. EvalTypeOK /\ EvIdle.step = "idle" /\ EvIdle \notin EvalCalls
  BY DEF EvalInv, EvIdle, EvalCalls
<1>a. \A c \in Callers : vcall[c] # EvIdle => vcall[c] \in EvalCalls /\ EvalCallStands(vcall[c])
  BY DEF EvalInv, EvalTypeOK
<1>b. \A o \in Observations : evalRuns[o] # NoRun => evalRuns[o] \in EvalRuns /\ evalRuns[o].result \in Results
  BY <1>0 DEF EvalTypeOK, EvalRuns
<1>1. CASE UNCHANGED vvars \/ ChangeFile
  BY <1>1 DEF vvars, ChangeFile, EvalInv, EvalTypeOK, EvalCallStands, Accepted, Compared, Fails
<1>2. ASSUME NEW c \in Callers, NEW o \in Observations, RunCase(c, o) PROVE EvalInv'
  <2>1. PICK failed \in BOOLEAN : failed = ~works
    OBVIOUS
  <2>2. Evaluated(o) = [of |-> o, failed |-> failed]
    BY <2>1 DEF Evaluated
  <2>3. [step |-> "look", result |-> Evaluated(o)] \in EvalCalls
    BY <2>2 DEF EvalCalls, Results
  <2>. QED  BY <1>2, <2>3, EvalCallMoves DEF RunCase, EvalCall, EvalCallStands
<1>3. ASSUME NEW c \in Callers, NEW o \in Observations, CreateBaseline(c, o) PROVE EvalInv'
  <2> DEFINE b == [run |-> o, result |-> evalRuns[o].result]
  <2>1. b \in Baselines /\ Accepted(b)
    BY <1>3, <1>b DEF CreateBaseline, Baselines, Accepted
  <2> HIDE DEF b
  <2>2. [step |-> "accept", baseline |-> b] \in EvalCalls
    BY <2>1 DEF EvalCalls
  <2>. QED  BY <1>3, <2>1, <2>2, EvalCallMoves DEF CreateBaseline, EvalCall, EvalCallStands, b
<1>4. ASSUME NEW c \in Callers, NEW o \in Observations, NEW b \in baselines, Compare(c, b, o) PROVE EvalInv'
  <2>1. PICK regression \in BOOLEAN : regression = (Fails(o) /\ ~Fails(b.run))
    OBVIOUS
  <2> DEFINE x == [baseline |-> b, run |-> o, regression |-> regression]
  <2>2. EvalCall(c, [step |-> "compare", comparison |-> x]) /\ evalRuns[o] # NoRun
    BY <1>4, <2>1 DEF Compare
  <2>3. b \in Baselines /\ Accepted(b)
    BY DEF EvalInv, EvalTypeOK
  <2>4. x \in Comparisons
    BY <2>3 DEF Comparisons
  <2>5. Compared(x)
    BY <2>1, <2>2, <2>3 DEF Compared, Accepted, Fails
  <2> HIDE DEF x
  <2>6. [step |-> "compare", comparison |-> x] \in EvalCalls
    BY <2>4 DEF EvalCalls
  <2>. QED  BY <2>2, <2>5, <2>6, EvalCallMoves DEF EvalCall, EvalCallStands
<1>5. ASSUME NEW c \in Callers, NEW x \in comparisons, RejectRegression(c, x) PROVE EvalInv'
  <2>1. x \in Comparisons
    BY <1>0 DEF EvalTypeOK
  <2>2. [step |-> "reject", comparison |-> x] \in EvalCalls
    BY <2>1 DEF EvalCalls
  <2>. QED  BY <1>5, <2>2, EvalCallMoves DEF RejectRegression, EvalCall, EvalCallStands
<1>6. ASSUME NEW c \in Callers, LookForRun(c) PROVE EvalInv'
  <2>1. vcall[c] \in EvalCalls /\ vcall[c].step = "look"
        /\ UNCHANGED <<results, evalRuns, baselines, comparisons, announced, rejected>>
    BY <1>0, <1>a, <1>6 DEF LookForRun
  <2>2. CASE EvEnd(c)
    BY <2>1, <2>2, EvalCallMoves DEF EvEnd
  <2>3. CASE EvGo(c, "result")
    <3> DEFINE call == [vcall[c] EXCEPT !.step = "result"]
    <3>1. call \in EvalCalls /\ call.step = "result"
      BY <2>1 DEF EvalCalls
    <3>2. vcall' = [vcall EXCEPT ![c] = call]
      BY <1>0, <2>3 DEF EvGo, EvalTypeOK
    <3>. QED  BY <2>1, <3>1, <3>2, EvalCallMoves DEF EvalCallStands
  <2>. QED  BY <1>6, <2>2, <2>3 DEF LookForRun
<1>7. ASSUME NEW c \in Callers, StoreResult(c) PROVE EvalInv'
  <2> DEFINE r == vcall[c].result
  <2>1. /\ vcall[c] \in EvalCalls /\ vcall[c].step = "result" /\ results' = results \cup {r}
        /\ UNCHANGED <<evalRuns, baselines, comparisons, announced, rejected>>
    BY <1>0, <1>a, <1>7 DEF StoreResult
  <2>2. r \in Results
    BY <2>1 DEF EvalCalls
  <2>3. PICK call \in EvalCalls \cup {EvIdle} :
           vcall' = [vcall EXCEPT ![c] = call] /\ (call # EvIdle => call.step = "run" /\ call.result = r)
    <3>1. CASE EvEnd(c)
      BY <3>1 DEF EvEnd
    <3>2. CASE EvGo(c, "run")
      <4> DEFINE call == [vcall[c] EXCEPT !.step = "run"]
      <4>1. call \in EvalCalls /\ call.step = "run" /\ call.result = r
        BY <2>1 DEF EvalCalls
      <4>2. vcall' = [vcall EXCEPT ![c] = call]
        BY <1>0, <3>2 DEF EvGo, EvalTypeOK
      <4>. QED  BY <4>1, <4>2
    <3>. QED  BY <1>7, <3>1, <3>2 DEF StoreResult
  <2>. QED  BY <2>1, <2>2, <2>3 DEF EvalInv, EvalTypeOK, EvalCallStands, Accepted, Compared, Fails
<1>8. ASSUME NEW c \in Callers, StoreRun(c) PROVE EvalInv'
  <2> DEFINE o == vcall[c].result.of
             made == [rev |-> evalRuns[o].rev + 1, result |-> vcall[c].result]
  <2>1. /\ vcall[c] \in EvalCalls /\ vcall[c].result \in results /\ EvEnd(c)
        /\ UNCHANGED <<results, baselines, comparisons, announced, rejected>>
    BY <1>0, <1>a, <1>8 DEF StoreRun, EvalCallStands
  <2>2. CASE evalRuns' = evalRuns
    BY <2>1, <2>2, EvalCallMoves DEF EvEnd
  <2>3. CASE HeadUnmoved(evalRuns[o], 0) /\ evalRuns' = [evalRuns EXCEPT ![o] = made]
    <3>1. o \in Observations /\ vcall[c].result \in Results
      BY <1>0, <2>1 DEF EvalTypeOK, Results
    <3>2. evalRuns[o] = NoRun
      BY <1>b, <2>3, <3>1 DEF HeadUnmoved, EvalRuns
    <3>3. made \in EvalRuns /\ made # NoRun
      BY <2>3, <3>1 DEF HeadUnmoved, EvalRuns, NoRun
    <3>4. \A q \in Observations : evalRuns[q] # NoRun => evalRuns'[q] = evalRuns[q]
      BY <1>0, <2>3, <3>2 DEF EvalTypeOK
    <3>5. EvalTypeOK'
      BY <1>0, <2>1, <2>3, <3>1, <3>3 DEF EvalTypeOK, EvEnd
    <3>6. \A q \in Observations : evalRuns'[q] # NoRun => evalRuns'[q].result \in results
      BY <1>0, <2>1, <2>3, <3>1, <3>3 DEF EvalInv, EvalTypeOK
    <3>7. \A b \in Baselines : Accepted(b) => Accepted(b)'
      BY <3>4 DEF Accepted, Baselines
    <3>8. \A x \in Comparisons : Compared(x) => Compared(x)'
      BY <3>4 DEF Compared, Comparisons, Fails
    <3>9. ASSUME NEW d \in Callers, vcall'[d] # EvIdle PROVE EvalCallStands(vcall[d])'
      <4>1. vcall'[d] = vcall[d] /\ vcall[d] \in EvalCalls /\ EvalCallStands(vcall[d])
        BY <1>0, <1>a, <2>1, <3>9 DEF EvEnd, EvalTypeOK
      <4>2. /\ vcall[d].step = "accept" => vcall[d].baseline \in Baselines
            /\ vcall[d].step = "compare" => vcall[d].comparison \in Comparisons
        BY <4>1 DEF EvalCalls
      <4>. QED  BY <2>1, <3>7, <3>8, <4>1, <4>2 DEF EvalCallStands
    <3>. QED  BY <1>0, <2>1, <3>5, <3>6, <3>7, <3>8, <3>9 DEF EvalInv, EvalTypeOK
  <2>. QED  BY <1>8, <2>2, <2>3 DEF StoreRun
<1>9. ASSUME NEW c \in Callers, AcceptBaseline(c) PROVE EvalInv'
  <2>1. vcall[c] \in EvalCalls /\ vcall[c].step = "accept" /\ Accepted(vcall[c].baseline)
    BY <1>0, <1>a, <1>9 DEF AcceptBaseline, EvalCallStands
  <2>2. vcall[c].baseline \in Baselines
    BY <2>1 DEF EvalCalls
  <2>. QED  BY <1>0, <1>9, <2>1, <2>2, EvalRecordsGrow DEF AcceptBaseline, EvalTypeOK
<1>10. ASSUME NEW c \in Callers, StoreComparison(c) PROVE EvalInv'
  <2> DEFINE new == vcall[c].comparison
  <2>1. /\ vcall[c] \in EvalCalls /\ vcall[c].step = "compare" /\ Compared(new)
        /\ comparisons' = comparisons \cup {new}
        /\ UNCHANGED <<results, evalRuns, baselines, announced, rejected>>
    BY <1>0, <1>a, <1>10 DEF StoreComparison, EvalCallStands
  <2>2. new \in Comparisons
    BY <2>1 DEF EvalCalls
  <2>3. PICK call \in EvalCalls \cup {EvIdle} :
           vcall' = [vcall EXCEPT ![c] = call] /\ (call # EvIdle => call.step = "announce" /\ call.comparison = new)
    <3>1. CASE EvEnd(c)
      BY <3>1 DEF EvEnd
    <3>2. CASE EvGo(c, "announce")
      <4> DEFINE call == [vcall[c] EXCEPT !.step = "announce"]
      <4>1. call \in EvalCalls /\ call.step = "announce" /\ call.comparison = new
        BY <2>1 DEF EvalCalls
      <4>2. vcall' = [vcall EXCEPT ![c] = call]
        BY <1>0, <3>2 DEF EvGo, EvalTypeOK
      <4>. QED  BY <4>1, <4>2
    <3>. QED  BY <1>10, <3>1, <3>2 DEF StoreComparison
  <2>. QED  BY <2>1, <2>2, <2>3 DEF EvalInv, EvalTypeOK, EvalCallStands, Accepted, Compared, Fails
<1>11. ASSUME NEW c \in Callers, Announce(c) \/ StoreFinding(c) PROVE EvalInv'
  <2>1. vcall[c].comparison \in comparisons
    BY <1>0, <1>a, <1>11 DEF Announce, StoreFinding, EvalCallStands
  <2>2. announced' \subseteq comparisons /\ rejected' \subseteq comparisons
    BY <1>0, <1>11, <2>1 DEF Announce, StoreFinding, EvalTypeOK
  <2>. QED  BY <1>0, <1>11, <2>2, EvalRecordsGrow DEF Announce, StoreFinding, EvalTypeOK
<1>12. ASSUME NEW c \in Callers, EvaluatorDies(c) PROVE EvalInv'
  BY <1>12, EvalCallMoves DEF EvaluatorDies, EvEnd
<1>. QED  BY <1>1, <1>2, <1>3, <1>4, <1>5, <1>6, <1>7, <1>8, <1>9, <1>10, <1>11, <1>12 DEF EvalNext

\* A verdict rests on what was accepted (EvaluationService.run_case,
\* create_baseline, compare_with_baseline).
THEOREM VerdictsStayGrounded == Spec => []VerdictsGrounded
<1>1. Init => EvalInv
  BY EvalInvInit DEF Init
<1>2. EvalInv /\ [Next]_vars => EvalInv'
  BY EvalInvStep, ServiceSteps
<1>3. EvalInv => VerdictsGrounded
  BY DEF EvalInv, VerdictsGrounded, Accepted, Compared
<1>. QED  BY <1>1, <1>2, <1>3, PTL DEF Spec

-----------------------------------------------------------------------------
(* Replays                                                                  *)

\* Nothing is on record and nobody calls.
LEMMA ReplayInvInit == ReplayInit => ReplayInv
<1> SUFFICES ASSUME ReplayInit PROVE ReplayInv
  OBVIOUS
<1>1. RpIdle.step = "idle"
  BY DEF RpIdle
<1>2. DOMAIN plans = {}
  BY DEF ReplayInit
<1>3. ReplayTypeOK
  BY <1>2 DEF ReplayInit, ReplayTypeOK
<1>. QED  BY <1>1, <1>3 DEF ReplayInit, ReplayInv

\* A step that stores nothing keeps the invariant when the call it leaves may
\* store what it holds.
LEMMA ReplayCallMoves ==
    ASSUME ReplayInv, NEW c \in Callers, NEW call \in ReplayCalls \cup {RpIdle},
           xcall' = [xcall EXCEPT ![c] = call],
           call.step = "stage" => original # NoRecord,
           call.step = "effect" => original # NoRecord /\ call.effect \in original.effects,
           call.step = "replay" => Faithful(call.to),
           UNCHANGED <<original, evidence, plans, replayed>>
    PROVE  ReplayInv'
BY DEF ReplayInv, ReplayTypeOK, Faithful

\* A plan that is authorised and usable takes every effect's result from the record.
LEMMA UsablePlanFaithful ==
    ASSUME ReplayInv, NEW p \in DOMAIN plans, Authorised(p), Usable(p)
    PROVE  [kind |-> "replay", from |-> p.bound] \in Repeats /\ Faithful([kind |-> "replay", from |-> p.bound])
<1> DEFINE named == DOMAIN p.bound
<1>1. p \in Plans /\ original # NoRecord /\ original \in Originals
  BY DEF ReplayInv, ReplayTypeOK
<1>2. named \subseteq Effects /\ p.bound \in UNION {[S -> Values] : S \in SUBSET Effects}
  BY <1>1 DEF Plans
<1>3. p.bound = [e \in named |-> evidence[e]] /\ original.effects \ named = {} /\ ~original.approved
  <2>1. /\ p.bound = PlanOf(named).bound /\ p.blocked = PlanOf(named).blocked /\ p.fresh = PlanOf(named).fresh
    BY DEF Authorised
  <2>2. /\ PlanOf(named).bound = [e \in named |-> evidence[e]] /\ PlanOf(named).blocked = original.effects \ named
        /\ PlanOf(named).fresh = original.approved
    BY DEF PlanOf, FreshApprovals
  <2>. QED  BY <2>1, <2>2 DEF Usable
<1>4. \A e \in named : evidence[e] # "none" /\ e \in original.effects
  BY <1>2 DEF Authorised, OnRecord, ReplayInv
<1>5. named = original.effects
  BY <1>3, <1>4
<1>. QED  BY <1>1, <1>2, <1>3, <1>4, <1>5 DEF Repeats, Faithful

\* Every step of the replay service keeps the invariant.
LEMMA ReplayInvStep == ReplayInv /\ [ReplayNext]_xvars => ReplayInv'
<1> SUFFICES ASSUME ReplayInv, [ReplayNext]_xvars PROVE ReplayInv'
  OBVIOUS
<1>0. ReplayTypeOK /\ RpIdle.step = "idle" /\ RpIdle \notin ReplayCalls
  BY DEF ReplayInv, RpIdle, ReplayCalls
<1>a. \A c \in Callers : xcall[c] = RpIdle \/ xcall[c] \in ReplayCalls
  BY <1>0 DEF ReplayTypeOK
<1>1. CASE UNCHANGED xvars
  BY <1>1 DEF xvars, ReplayInv, ReplayTypeOK, Faithful
<1>2. ASSUME NEW c \in Callers, NEW effects \in SUBSET Effects, NEW agreed \in Approvals, RecordOriginal(c, effects, agreed)
      PROVE  ReplayInv'
  <2>1. [step |-> "record", to |-> [kind |-> "run", effects |-> effects, approved |-> agreed]] \in ReplayCalls
    BY DEF ReplayCalls, Originals
  <2>. QED  BY <1>2, <2>1, ReplayCallMoves DEF RecordOriginal, ReplayCall
<1>3. ASSUME NEW c \in Callers, NEW e \in Effects, NEW v \in Values, RecordEffect(c, e, v) PROVE ReplayInv'
  <2>1. [step |-> "effect", effect |-> e, value |-> v] \in ReplayCalls
    BY DEF ReplayCalls
  <2>. QED  BY <1>3, <2>1, ReplayCallMoves DEF RecordEffect, ReplayCall
<1>4. ASSUME NEW c \in Callers, NEW p \in Plans, Stage(c, p) PROVE ReplayInv'
  <2>1. [step |-> "stage", plan |-> p] \in ReplayCalls
    BY DEF ReplayCalls
  <2>. QED  BY <1>4, <2>1, ReplayCallMoves DEF Stage, ReplayCall
<1>5. ASSUME NEW c \in Callers, NEW p \in DOMAIN plans, Materialize(c, p) PROVE ReplayInv'
  <2>1. PICK record \in Repeats : record = [kind |-> "replay", from |-> p.bound] /\ Faithful(record)
    BY <1>5, UsablePlanFaithful DEF Materialize
  <2>2. [step |-> "replay", to |-> record] \in ReplayCalls
    BY DEF ReplayCalls
  <2>. QED  BY <1>5, <2>1, <2>2, ReplayCallMoves DEF Materialize, ReplayCall
<1>6. ASSUME NEW c \in Callers, StoreOriginal(c) PROVE ReplayInv'
  <2>1. RpEnd(c) /\ UNCHANGED <<evidence, plans, replayed>> /\ xcall[c] \in ReplayCalls /\ xcall[c].step = "record"
    BY <1>0, <1>a, <1>6 DEF StoreOriginal
  <2>2. CASE original # NoRecord
    BY <1>0, <1>6, <2>1, <2>2, ReplayCallMoves DEF StoreOriginal, RpEnd
  <2>3. CASE original = NoRecord
    <3>1. original' \in Originals /\ original' # NoRecord
      BY <1>6, <2>1, <2>3 DEF StoreOriginal, ReplayCalls, Originals, NoRecord
    <3>2. replayed = NoRecord /\ \A d \in Callers : xcall[d].step \notin {"stage", "effect", "replay"}
      BY <2>3 DEF ReplayInv, Faithful
    <3>3. \A e \in Effects : evidence[e] = "none"
      BY <2>3 DEF ReplayInv
    <3>4. xcall' \in [Callers -> ReplayCalls \cup {RpIdle}] /\ \A d \in Callers : xcall'[d].step \notin {"stage", "effect", "replay"}
      BY <1>0, <2>1, <3>2 DEF RpEnd, ReplayTypeOK
    <3>. QED  BY <1>0, <2>1, <3>1, <3>2, <3>3, <3>4 DEF ReplayInv, ReplayTypeOK
  <2>. QED  BY <2>2, <2>3
<1>7. ASSUME NEW c \in Callers, StoreEffect(c) PROVE ReplayInv'
  <2> DEFINE e == xcall[c].effect  v == xcall[c].value
  <2>1. /\ RpEnd(c) /\ UNCHANGED <<original, plans, replayed>> /\ xcall[c] \in ReplayCalls /\ xcall[c].step = "effect"
    BY <1>0, <1>a, <1>7 DEF StoreEffect
  <2>2. e \in Effects /\ v \in Values /\ v # "none" /\ original # NoRecord /\ e \in original.effects
    BY <2>1 DEF ReplayCalls, Values, ReplayInv
  <2>3. CASE Immutable(e)
    BY <1>0, <1>7, <2>1, <2>3, ReplayCallMoves DEF StoreEffect, RpEnd
  <2>4. CASE ~Immutable(e)
    <3>1. evidence' = [evidence EXCEPT ![e] = v] /\ evidence[e] = "none"
      BY <1>7, <2>4 DEF StoreEffect, Immutable
    <3>2. /\ evidence' \in [Effects -> Values \cup {"none"}]
          /\ \A f \in Effects : evidence[f] # "none" => evidence'[f] = evidence[f]
          /\ \A f \in Effects : evidence'[f] # "none" => f \in original.effects
      BY <1>0, <2>2, <3>1 DEF ReplayTypeOK, ReplayInv
    <3>3. original.effects \subseteq Effects
      BY <1>0, <2>2 DEF ReplayTypeOK, Originals
    <3>4. \A record : Faithful(record) => Faithful(record)'
      BY <2>1, <3>2, <3>3 DEF Faithful
    <3>5. /\ xcall' \in [Callers -> ReplayCalls \cup {RpIdle}]
          /\ \A d \in Callers : xcall'[d] = xcall[d] \/ xcall'[d].step = "idle"
      BY <1>0, <2>1 DEF RpEnd, ReplayTypeOK
    <3>. QED  BY <1>0, <2>1, <2>2, <3>2, <3>4, <3>5 DEF ReplayInv, ReplayTypeOK
  <2>. QED  BY <2>3, <2>4
<1>8. ASSUME NEW c \in Callers, StorePlan(c) PROVE ReplayInv'
  <2> DEFINE p == xcall[c].plan
  <2>1. RpEnd(c) /\ UNCHANGED <<original, evidence, replayed>> /\ xcall[c] \in ReplayCalls /\ xcall[c].step = "stage"
    BY <1>0, <1>a, <1>8 DEF StorePlan
  <2>2. p \in Plans /\ original # NoRecord
    BY <2>1 DEF ReplayCalls, ReplayInv
  <2>3. CASE plans' = plans
    BY <1>0, <2>1, <2>3, ReplayCallMoves DEF RpEnd
  <2>4. CASE plans' = [q \in DOMAIN plans \cup {p} |-> IF q = p THEN StagedState(p) ELSE plans[q]]
    <3>1. StagedState(p) \in {"ready", "blocked_side_effects", "approval_required"}
      BY DEF StagedState
    <3>2. \A q \in DOMAIN plans' : q \in Plans /\ plans'[q] \in {"ready", "blocked_side_effects", "approval_required"}
      BY <1>0, <2>2, <2>4, <3>1 DEF ReplayTypeOK
    <3>. QED  BY <1>0, <2>1, <2>2, <3>2 DEF ReplayInv, ReplayTypeOK, RpEnd, Faithful
  <2>. QED  BY <1>8, <2>3, <2>4 DEF StorePlan
<1>9. ASSUME NEW c \in Callers, StoreReplayed(c) PROVE ReplayInv'
  <2>1. RpEnd(c) /\ UNCHANGED <<original, evidence, plans>> /\ xcall[c] \in ReplayCalls /\ xcall[c].step = "replay"
    BY <1>0, <1>a, <1>9 DEF StoreReplayed
  <2>2. xcall[c].to \in Repeats /\ Faithful(xcall[c].to)
    BY <2>1 DEF ReplayCalls, ReplayInv
  <2>3. replayed' = replayed \/ replayed' = xcall[c].to
    BY <1>9 DEF StoreReplayed
  <2>. QED  BY <1>0, <2>1, <2>2, <2>3 DEF ReplayInv, ReplayTypeOK, RpEnd, Faithful
<1>10. ASSUME NEW c \in Callers, ReplayerDies(c) PROVE ReplayInv'
  BY <1>0, <1>10, ReplayCallMoves DEF ReplayerDies, RpEnd
<1>. QED  BY <1>1, <1>2, <1>3, <1>4, <1>5, <1>6, <1>7, <1>8, <1>9, <1>10 DEF ReplayNext

\* A run made from a plan repeats no side effect and takes over no approval
\* (ReplayService.stage, materialize_execution_record).
THEOREM ReplayRepeatsNothing == Spec => []NothingRepeated
<1>1. Init => ReplayInv
  BY ReplayInvInit DEF Init
<1>2. ReplayInv /\ [Next]_vars => ReplayInv'
  BY ReplayInvStep, ServiceSteps
<1>3. ReplayInv => NothingRepeated
  BY DEF ReplayInv, NothingRepeated, Faithful
<1>. QED  BY <1>1, <1>2, <1>3, PTL DEF Spec

-----------------------------------------------------------------------------
(* Telemetry                                                                *)

\* The sum of spans fits the trace.
LEMMA RecordedCounts == Cardinality(Recorded) \in 0..Cardinality(Spans)
<1>1. Recorded \subseteq Spans
  BY DEF Recorded
<1>2. IsFiniteSet(Spans)
  BY SpansAssumption
<1>3. IsFiniteSet(Recorded) /\ Cardinality(Recorded) <= Cardinality(Spans)
  BY <1>1, <1>2, FS_Subset
<1>. QED  BY <1>2, <1>3, FS_CardinalityType

\* No trace, no span, nobody calls.
LEMMA TraceInvInit == TraceInit => TraceInv
<1> SUFFICES ASSUME TraceInit PROVE TraceInv
  OBVIOUS
<1>1. Cardinality(Spans) \in Nat
  BY FS_CardinalityType, SpansAssumption
<1>2. NoTrace \in TraceHeads /\ NoSpan \in SpanHeads
  BY <1>1 DEF NoTrace, TraceHeads, NoSpan, SpanHeads
<1>3. TraceTypeOK
  BY <1>2 DEF TraceInit, TraceTypeOK
<1>4. Recorded = {}
  BY DEF TraceInit, Recorded, NoSpan
<1>5. SpansRooted
  BY <1>4 DEF SpansRooted
<1>6. TraceIdle \notin SpanCalls
  BY DEF TraceIdle, SpanCalls
<1>. QED  BY <1>3, <1>4, <1>5, <1>6 DEF TraceInv, TraceInit

\* A step that stores no span keeps the invariant when the call it leaves stands.
LEMMA TraceCallMoves ==
    ASSUME TraceInv, NEW c \in Callers, NEW call \in TraceCalls \cup {TraceIdle},
           zcall' = [zcall EXCEPT ![c] = call], call \in SpanCalls => SpanCallStands(call),
           UNCHANGED spans, trace' \in TraceHeads, exported' \subseteq Spans \X Nat, granted' \subseteq Spans \X Nat
    PROVE  TraceInv'
<1>1. Recorded' = Recorded
  BY DEF Recorded
<1>2. SpansRooted'
  BY <1>1 DEF TraceInv, SpansRooted
<1>3. \A x : SpanCallStands(x) => SpanCallStands(x)'
  BY <1>1 DEF SpanCallStands
<1>. QED  BY <1>1, <1>2, <1>3 DEF TraceInv, TraceTypeOK

\* A new span under a recorded parent keeps the tree; a span that is updated
\* keeps its place in it.
LEMMA TreeGrows ==
    ASSUME TraceTypeOK, SpansRooted, NEW s \in Spans, NEW new \in SpanHeads, new.rev > 0,
           spans' = [spans EXCEPT ![s] = new],
           s \in Recorded => new.parent = spans[s].parent,
           s \notin Recorded => IF s = "root" THEN new.parent = "none" ELSE new.parent \in Recorded
    PROVE  Recorded' = Recorded \cup {s} /\ SpansRooted'
<1>1. /\ spans'[s] = new /\ \A q \in Spans : q # s => spans'[q] = spans[q]
  BY DEF TraceTypeOK
<1>2. Recorded' = Recorded \cup {s}
  BY <1>1 DEF Recorded
<1>3. \A q \in Recorded : spans'[q].parent = spans[q].parent
  BY <1>1 DEF Recorded
<1>4. new.parent # s
  <2>1. CASE s \in Recorded
    <3>1. \A S \in (SUBSET Recorded) \ {{}} : \E q \in S : spans[q].parent \notin S
      BY DEF SpansRooted
    <3>2. {s} \in (SUBSET Recorded) \ {{}}
      BY <2>1
    <3>. QED  BY <2>1, <3>1, <3>2
  <2>2. CASE s \notin Recorded
    BY <2>2, SpansAssumption
  <2>. QED  BY <2>1, <2>2
<1>5. \A q \in Recorded' : IF q = "root" THEN spans'[q].parent = "none" ELSE spans'[q].parent \in Recorded'
  BY <1>1, <1>2, <1>3 DEF SpansRooted
<1>6. ASSUME NEW S \in SUBSET Recorded', S # {} PROVE \E q \in S : spans'[q].parent \notin S
  <2>1. CASE s \in Recorded
    <3>1. S \in (SUBSET Recorded) \ {{}}
      BY <1>2, <1>6, <2>1
    <3>2. PICK q \in S : spans[q].parent \notin S
      BY <3>1 DEF SpansRooted
    <3>. QED  BY <1>3, <3>1, <3>2
  <2>2. CASE s \notin Recorded /\ S \ {s} # {}
    <3>1. S \ {s} \in (SUBSET Recorded) \ {{}}
      BY <1>2, <2>2
    <3>2. PICK q \in S \ {s} : spans[q].parent \notin S \ {s}
      BY <3>1 DEF SpansRooted
    <3>3. q \in Recorded /\ spans[q].parent # s
      <4>1. q \in Recorded
        BY <3>1
      <4>. QED  BY <2>2, <4>1, SpansAssumption DEF SpansRooted
    <3>. QED  BY <1>3, <3>2, <3>3
  <2>3. CASE S \ {s} = {}
    BY <1>1, <1>4, <1>6, <2>3
  <2>. QED  BY <2>1, <2>2, <2>3
<1>. QED  BY <1>2, <1>5, <1>6 DEF SpansRooted

\* What an append leaves of a span, and of a trace.
LEMMA AppendedSpan ==
    /\ \A head, new \in SpanHeads : /\ Appended(head, new) \in SpanHeads
                                    /\ Appended(head, new).rev = head.rev + 1
                                    /\ Appended(head, new).parent = new.parent
    /\ \A head, new \in TraceHeads : Appended(head, new) \in TraceHeads
BY DEF Appended, SpanHeads, TraceHeads

\* Every step of the telemetry service keeps the invariant.
LEMMA TraceInvStep == TraceInv /\ [TraceNext]_zvars => TraceInv'
<1> SUFFICES ASSUME TraceInv, [TraceNext]_zvars PROVE TraceInv'
  OBVIOUS
<1>0. TraceTypeOK /\ SpansRooted /\ TraceIdle.step = "idle" /\ TraceIdle \notin TraceCalls /\ TraceIdle \notin SpanCalls
  BY DEF TraceInv, TraceIdle, TraceCalls, SpanCalls, CloseCalls
<1>a. \A c \in Callers : zcall[c] # TraceIdle => zcall[c] \in TraceCalls
  BY <1>0 DEF TraceTypeOK
<1>b. \A c \in Callers : zcall[c].step \in {"prior", "append"} => zcall[c] \in SpanCalls /\ SpanCallStands(zcall[c])
  BY <1>0, <1>a DEF TraceInv, TraceCalls, SpanCalls, CloseCalls
<1>c. trace \in TraceHeads /\ exported \subseteq Spans \X Nat /\ granted \subseteq Spans \X Nat /\ spans \in [Spans -> SpanHeads]
  BY <1>0 DEF TraceTypeOK
<1>d. Cardinality(Spans) \in Nat
  BY FS_CardinalityType, SpansAssumption
<1>e. Fingerprinted \subseteq Spans \X Nat
  BY <1>c DEF Fingerprinted, Recorded, SpanHeads
<1>1. CASE UNCHANGED zvars
  <2>1. UNCHANGED <<trace, spans, exported, granted, zcall>> /\ Recorded' = Recorded
    BY <1>1 DEF zvars, Recorded
  <2>. QED  BY <2>1 DEF TraceInv, TraceTypeOK, SpansRooted, SpanCallStands
<1>2. CASE Grant
  <2>1. UNCHANGED <<trace, spans, exported, zcall>> /\ granted' = Fingerprinted /\ Recorded' = Recorded
    BY <1>2 DEF Grant, Recorded
  <2>. QED  BY <1>e, <2>1 DEF TraceInv, TraceTypeOK, SpansRooted, SpanCallStands
<1>3. ASSUME NEW c \in Callers, CreateTrace(c) PROVE TraceInv'
  <2>1. [step |-> "create"] \in TraceCalls /\ [step |-> "create"] \notin SpanCalls
    BY DEF TraceCalls, SpanCalls
  <2>. QED  BY <1>3, <1>c, <2>1, TraceCallMoves DEF CreateTrace, TraceCall
<1>4. ASSUME NEW c \in Callers, AppendTrace(c) PROVE TraceInv'
  <2>1. NoTrace \in TraceHeads
    BY <1>d DEF NoTrace, TraceHeads
  <2>2. trace' \in TraceHeads
    BY <1>4, <1>c, <2>1, AppendedSpan DEF AppendTrace
  <2>. QED  BY <1>0, <1>4, <1>c, <2>2, TraceCallMoves DEF AppendTrace, ZEnd
<1>5. ASSUME NEW c \in Callers, NEW s \in Spans, NEW parent \in Spans \cup {"none"}, NEW status \in {"unset", "ok"},
             NEW text \in {"clean", "secret", "restricted"}, RecordSpan(c, s, parent, status, text)
      PROVE  TraceInv'
  <2> DEFINE new == [rev |-> 0, parent |-> parent, status |-> status, text |-> Sanitized(text)]
             call == [step |-> "prior", span |-> s, new |-> new]
  <2>1. TraceCall(c, call)
    BY <1>5 DEF RecordSpan
  <2>2. Sanitized(text) \in {"clean", "redacted"}
    BY <1>5 DEF RecordSpan, Sanitized
  <2>3. new \in SpanHeads /\ new.parent = parent
    BY <2>2 DEF SpanHeads, SpanEnded
  <2> HIDE DEF new
  <2>4. call \in SpanCalls /\ call \in TraceCalls
    BY <2>3 DEF SpanCalls, TraceCalls
  <2>5. SpanCallStands(call)
    BY <1>5, <2>3 DEF SpanCallStands, RecordSpan, Recorded
  <2>. QED  BY <1>c, <2>1, <2>4, <2>5, TraceCallMoves DEF TraceCall
<1>6. ASSUME NEW c \in Callers, ReadPrior(c) PROVE TraceInv'
  <2> DEFINE prior == spans[zcall[c].span]
  <2>1. zcall[c] \in SpanCalls /\ SpanCallStands(zcall[c]) /\ UNCHANGED <<trace, spans, exported, granted>>
    BY <1>6, <1>b DEF ReadPrior
  <2>2. zcall[c].span \in Spans /\ zcall[c].new \in SpanHeads /\ prior \in SpanHeads /\ prior.rev \in Nat
    BY <1>c, <2>1 DEF SpanCalls, SpanHeads
  <2>3. CASE ZEnd(c)
    BY <1>0, <1>c, <2>1, <2>3, TraceCallMoves DEF ZEnd
  <2>4. CASE /\ ~(prior.rev > 0 /\ (~IdentityKept(prior, zcall[c].new) \/ prior.status \in SpanEnded))
             /\ zcall' = [zcall EXCEPT ![c].step = "append", ![c].new.rev = prior.rev]
    <3> DEFINE new == [zcall[c].new EXCEPT !.rev = prior.rev]
               call == [zcall[c] EXCEPT !.step = "append", !.new = new]
    <3>1. new \in SpanHeads /\ new.rev = prior.rev /\ new.parent = zcall[c].new.parent
      BY <2>2 DEF SpanHeads
    <3>2. zcall' = [zcall EXCEPT ![c] = call]
      BY <1>0, <2>1, <2>4 DEF TraceTypeOK, SpanCalls
    <3> HIDE DEF new
    <3>3. call \in SpanCalls /\ call.step = "append" /\ call.span = zcall[c].span /\ call.new = new
      BY <2>1, <3>1 DEF SpanCalls
    <3>4. call \in TraceCalls
      BY <3>3 DEF TraceCalls
    <3>5. IF new.parent = "none" THEN zcall[c].span = "root" ELSE new.parent \in Recorded
      BY <2>1, <3>1 DEF SpanCallStands
    <3>6. prior.rev > 0 => new.parent = prior.parent
      BY <2>4, <3>1 DEF IdentityKept
    <3>7. zcall[c].span = "root" => new.parent = "none"
      BY <3>5, <3>6 DEF TraceInv, SpansRooted, Recorded
    <3>8. SpanCallStands(call)
      BY <2>2, <3>1, <3>3, <3>5, <3>6, <3>7 DEF SpanCallStands
    <3>. QED  BY <1>c, <2>1, <3>2, <3>3, <3>4, <3>8, TraceCallMoves
  <2>. QED  BY <1>6, <2>3, <2>4 DEF ReadPrior
<1>7. ASSUME NEW c \in Callers, AppendSpan(c) PROVE TraceInv'
  <2> DEFINE s == zcall[c].span  new == zcall[c].new
  <2>1. /\ zcall[c] \in SpanCalls /\ SpanCallStands(zcall[c]) /\ zcall[c].step = "append"
        /\ ZEnd(c) /\ UNCHANGED <<trace, exported, granted>>
    BY <1>7, <1>b DEF AppendSpan
  <2>2. s \in Spans /\ new \in SpanHeads /\ spans[s] \in SpanHeads /\ spans[s].rev \in Nat
    BY <1>c, <2>1 DEF SpanCalls, SpanHeads
  <2>3. CASE spans' = spans
    BY <1>0, <1>c, <2>1, <2>3, TraceCallMoves DEF ZEnd
  <2>4. CASE HeadUnmoved(spans[s], new.rev) /\ spans' = [spans EXCEPT ![s] = Appended(@, new)]
    <3>1. PICK head \in SpanHeads : head = Appended(spans[s], new) /\ head.rev = spans[s].rev + 1 /\ head.parent = new.parent
      BY <2>2, AppendedSpan
    <3>2. spans' = [spans EXCEPT ![s] = head] /\ head.rev > 0 /\ head.rev \in Nat
      BY <2>2, <2>4, <3>1
    <3>3. s \in Recorded => head.parent = spans[s].parent
      BY <2>1, <2>4, <3>1 DEF SpanCallStands, Recorded, HeadUnmoved
    <3>4. s \notin Recorded => IF s = "root" THEN head.parent = "none" ELSE head.parent \in Recorded
      BY <2>1, <3>1 DEF SpanCallStands
    <3>5. Recorded' = Recorded \cup {s} /\ SpansRooted'
      BY <1>0, <2>2, <3>2, <3>3, <3>4, TreeGrows
    <3>6. TraceTypeOK'
      BY <1>0, <2>1, <2>2, <3>2 DEF TraceTypeOK, ZEnd
    <3>7. "root" \in Recorded'
      BY <3>4, <3>5 DEF TraceInv
    <3>8. ASSUME NEW d \in Callers, zcall'[d] \in SpanCalls PROVE SpanCallStands(zcall[d])'
      <4>1. zcall'[d] = zcall[d] /\ SpanCallStands(zcall[d]) /\ zcall[d] \in SpanCalls
        BY <1>0, <2>1, <3>8 DEF ZEnd, TraceTypeOK, TraceInv
      <4>2. zcall[d].span \in Spans /\ zcall[d].new.rev \in Nat
        BY <4>1 DEF SpanCalls, SpanHeads
      <4>3. CASE zcall[d].span = s
        <5>1. spans'[s] = head
          BY <1>c, <2>2, <3>2
        <5>. QED  BY <2>2, <3>1, <3>5, <4>1, <4>2, <4>3, <5>1 DEF SpanCallStands
      <4>4. CASE zcall[d].span # s
        <5>1. spans'[zcall[d].span] = spans[zcall[d].span]
          BY <1>c, <3>2, <4>2, <4>4
        <5>. QED  BY <3>5, <4>1, <5>1 DEF SpanCallStands
      <4>. QED  BY <4>3, <4>4
    <3>. QED  BY <3>5, <3>6, <3>7, <3>8 DEF TraceInv
  <2>. QED  BY <1>7, <2>3, <2>4 DEF AppendSpan
<1>8. ASSUME NEW c \in Callers, NEW status \in SpanEnded, CloseTrace(c, status) PROVE TraceInv'
  <2>1. trace.rev \in Nat
    BY <1>c DEF TraceHeads
  <2>2. [step |-> "sum", status |-> status, rev |-> trace.rev, count |-> 0] \in CloseCalls
    BY <1>d, <2>1 DEF CloseCalls
  <2>3. [step |-> "sum", status |-> status, rev |-> trace.rev, count |-> 0] \notin SpanCalls
    BY DEF SpanCalls
  <2>. QED  BY <1>8, <1>c, <2>2, <2>3, TraceCallMoves DEF CloseTrace, TraceCall, TraceCalls
<1>9. ASSUME NEW c \in Callers, SumSpans(c) PROVE TraceInv'
  <2> DEFINE n == Cardinality(Recorded)
             call == [zcall[c] EXCEPT !.step = "close", !.count = n]
  <2>1. zcall[c] \in CloseCalls /\ UNCHANGED <<trace, spans, exported, granted>>
    BY <1>0, <1>a, <1>9 DEF SumSpans, TraceCalls, SpanCalls
  <2>2. zcall' = [zcall EXCEPT ![c].step = "close", ![c].count = n] /\ n \in 0..Cardinality(Spans)
    BY <1>9, RecordedCounts DEF SumSpans
  <2>3. zcall' = [zcall EXCEPT ![c] = call]
    BY <1>0, <2>2 DEF TraceTypeOK
  <2> HIDE DEF n
  <2>4. call \in CloseCalls /\ call \notin SpanCalls
    BY <2>1, <2>2 DEF CloseCalls, SpanCalls
  <2>. QED  BY <1>c, <2>1, <2>3, <2>4, TraceCallMoves DEF TraceCalls
<1>10. ASSUME NEW c \in Callers, AppendClosed(c) PROVE TraceInv'
  <2>1. zcall[c] \in CloseCalls /\ ZEnd(c) /\ UNCHANGED <<spans, exported, granted>>
    BY <1>0, <1>a, <1>10 DEF AppendClosed, TraceCalls, SpanCalls
  <2>2. [rev |-> 0, status |-> zcall[c].status, counted |-> zcall[c].count] \in TraceHeads
    BY <2>1 DEF CloseCalls, TraceHeads
  <2>3. trace' \in TraceHeads
    BY <1>10, <1>c, <2>2, AppendedSpan DEF AppendClosed
  <2>. QED  BY <1>0, <1>c, <2>1, <2>3, TraceCallMoves DEF ZEnd
<1>11. ASSUME NEW c \in Callers, ExportTraces(c) PROVE TraceInv'
  <2>1. [step |-> "write", heads |-> Fingerprinted] \in TraceCalls /\ [step |-> "write", heads |-> Fingerprinted] \notin SpanCalls
    BY <1>e DEF TraceCalls, SpanCalls
  <2>. QED  BY <1>11, <1>c, <2>1, TraceCallMoves DEF ExportTraces, TraceCall
<1>12. ASSUME NEW c \in Callers, WriteExport(c) PROVE TraceInv'
  <2>1. zcall[c].heads \subseteq Spans \X Nat /\ ZEnd(c) /\ UNCHANGED <<trace, spans, granted>> /\ exported' = zcall[c].heads
    BY <1>0, <1>a, <1>12 DEF WriteExport, TraceCalls, SpanCalls, CloseCalls
  <2>. QED  BY <1>0, <1>c, <2>1, TraceCallMoves DEF ZEnd
<1>13. ASSUME NEW c \in Callers, TracerDies(c) PROVE TraceInv'
  BY <1>0, <1>13, <1>c, TraceCallMoves DEF TracerDies, ZEnd
<1>. QED  BY <1>1, <1>2, <1>3, <1>4, <1>5, <1>6, <1>7, <1>8, <1>9, <1>10, <1>11, <1>12, <1>13 DEF TraceNext

\* The spans of a trace stay one tree (TelemetryService.record_span).
THEOREM SpansStayRooted == Spec => []SpansRooted
<1>1. Init => TraceInv
  BY TraceInvInit DEF Init
<1>2. TraceInv /\ [Next]_vars => TraceInv'
  BY TraceInvStep, ServiceSteps
<1>3. TraceInv => SpansRooted
  BY DEF TraceInv
<1>. QED  BY <1>1, <1>2, <1>3, PTL DEF Spec

-----------------------------------------------------------------------------
(* Notifications                                                            *)

\* An emit more: one more to count, and the larger severity.
LEMMA OneMoreEmit ==
    ASSUME NEW notice \in NoticeHeads, NEW emits \in Seq(Severities), NEW s \in Severities, SumsUp(notice, emits),
           NEW new \in NoticeHeads, new.rev = notice.rev + 1, new.count = notice.count + 1,
           new.severity = IF s > notice.severity THEN s ELSE notice.severity
    PROVE  SumsUp(new, Append(emits, s))
<1> DEFINE more == Append(emits, s)
<1>1. /\ more \in Seq(Severities) /\ Len(more) = Len(emits) + 1 /\ Len(emits) \in Nat
      /\ DOMAIN more = 1..Len(more) /\ DOMAIN emits = 1..Len(emits)
      /\ more[Len(more)] = s /\ \A i \in DOMAIN emits : more[i] = emits[i]
  OBVIOUS
<1>2. notice.severity \in Nat /\ s \in Nat /\ notice.rev \in Nat /\ notice.count \in Nat
  <2>1. notice.severity \in Severities \cup {0} /\ notice.rev \in Nat /\ notice.count \in Nat
    BY DEF NoticeHeads
  <2>2. Severities \cup {0} \subseteq Nat
    BY NotificationAssumption
  <2>. QED  BY <2>1, <2>2, Zenon
<1> HIDE DEF more
<1>3. \A i \in DOMAIN more : i = Len(more) \/ i \in DOMAIN emits
  BY <1>1
<1>4. \A i \in DOMAIN more : more[i] <= new.severity
  <2>1. \A i \in DOMAIN emits : emits[i] \in Nat
    <3>1. \A i \in DOMAIN emits : emits[i] \in Severities
      OBVIOUS
    <3>. QED  BY <3>1, NotificationAssumption
  <2>. QED  BY <1>1, <1>2, <1>3, <2>1 DEF SumsUp
<1>5. \E i \in DOMAIN more : more[i] = new.severity
  <2>1. CASE s > notice.severity \/ Len(emits) = 0
    <3>1. more[Len(more)] = new.severity
      BY <1>1, <1>2, <2>1 DEF SumsUp
    <3>. QED  BY <1>1, <3>1
  <2>2. CASE ~(s > notice.severity) /\ Len(emits) # 0
    BY <1>1, <2>2 DEF SumsUp
  <2>. QED  BY <2>1, <2>2
<1>6. new.rev > 0 /\ Len(more) > 0 /\ new.count = Len(more)
  BY <1>1, <1>2 DEF SumsUp
<1>. QED  BY <1>1, <1>4, <1>5, <1>6 DEF SumsUp, more

\* An empty inbox.
LEMMA InboxInvInit == NotificationInit => InboxInv
<1> SUFFICES ASSUME NotificationInit PROVE InboxInv
  OBVIOUS
<1>1. Unmade \in NoticeHeads
  BY DEF Unmade, NoticeHeads
<1>2. NotificationTypeOK
  BY <1>1 DEF NotificationInit, NotificationTypeOK, DedupHeads
<1>3. SumsUp(Unmade, <<>>)
  BY DEF SumsUp, Unmade
<1>. QED  BY <1>2, <1>3 DEF NotificationInit, InboxInv

\* A step that lets the notices be keeps the invariant when the call it leaves stands.
LEMMA InboxCallMoves ==
    ASSUME InboxInv, NEW c \in Callers, NEW call \in EmitCalls \cup TransitionCalls \cup {Vacant},
           ncall' = [ncall EXCEPT ![c] = call], call # Vacant => InboxCallStands(call),
           pointer' \in DedupHeads, pointer'.state = "active" => pointer'.to \in Notices,
           UNCHANGED <<inbox, emitted>>
    PROVE  InboxInv'
BY DEF InboxInv, NotificationTypeOK, InboxCallStands

\* A step that writes a notice keeps it when the notice sums up its emits.
LEMMA NoticeMoves ==
    ASSUME InboxInv, NEW c \in Callers, NEW call \in EmitCalls \cup TransitionCalls \cup {Vacant},
           ncall' = [ncall EXCEPT ![c] = call], call # Vacant => call.step = "look",
           NEW n \in Notices, NEW new \in NoticeHeads, NEW emits \in Seq(Severities),
           inbox' = [inbox EXCEPT ![n] = new], new.rev = inbox[n].rev + 1,
           emitted' = [emitted EXCEPT ![n] = emits], SumsUp(new, emits),
           UNCHANGED pointer
    PROVE  InboxInv'
<1>0. NotificationTypeOK
  BY DEF InboxInv
<1>1. NotificationTypeOK'
  BY <1>0 DEF NotificationTypeOK
<1>2. inbox'[n] = new /\ emitted'[n] = emits /\ \A q \in Notices : q # n => inbox'[q] = inbox[q] /\ emitted'[q] = emitted[q]
  BY <1>0 DEF NotificationTypeOK
<1>3. \A q \in Notices : SumsUp(inbox'[q], emitted'[q])
  BY <1>2 DEF InboxInv
<1>4. \A prior \in NoticeHeads, q \in Notices : Remembers(prior, inbox[q]) => Remembers(prior, inbox'[q])
  <2> SUFFICES ASSUME NEW prior \in NoticeHeads, NEW q \in Notices, Remembers(prior, inbox[q]) PROVE Remembers(prior, inbox'[q])
    OBVIOUS
  <2>1. prior.rev \in Nat /\ inbox[q].rev \in Nat
    BY <1>0 DEF NotificationTypeOK, NoticeHeads
  <2>. QED  BY <1>2, <2>1 DEF Remembers
<1>5. ASSUME NEW d \in Callers, ncall'[d] # Vacant PROVE InboxCallStands(ncall[d])'
  <2>1. CASE d = c
    <3>1. ncall'[c] = call
      BY <1>0 DEF NotificationTypeOK
    <3>. QED  BY <1>5, <2>1, <3>1 DEF InboxCallStands
  <2>2. CASE d # c
    <3>1. ncall'[d] = ncall[d] /\ InboxCallStands(ncall[d]) /\ ncall[d] \in EmitCalls \cup TransitionCalls
      BY <1>0, <1>5, <2>2 DEF NotificationTypeOK, InboxInv
    <3>2. ncall[d].notice \in Notices /\ ncall[d].prior \in NoticeHeads
      BY <3>1 DEF EmitCalls, TransitionCalls
    <3>. QED  BY <1>4, <3>1, <3>2 DEF InboxCallStands
  <2>. QED  BY <2>1, <2>2
<1>. QED  BY <1>1, <1>3, <1>5 DEF InboxInv

\* What an append leaves of a notice, and of the pointer.
LEMMA AppendedNotice ==
    /\ \A head, new \in NoticeHeads : /\ Appended(head, new) \in NoticeHeads
                                      /\ Appended(head, new).rev = head.rev + 1
                                      /\ Appended(head, new).count = new.count
                                      /\ Appended(head, new).severity = new.severity
    /\ \A head, new \in DedupHeads : /\ Appended(head, new) \in DedupHeads
                                     /\ Appended(head, new).state = new.state
BY DEF Appended, NoticeHeads, DedupHeads

\* Every step of the inbox keeps the invariant.
LEMMA InboxInvStep == InboxInv /\ [InboxNext]_nvars => InboxInv'
<1> SUFFICES ASSUME InboxInv, [InboxNext]_nvars PROVE InboxInv'
  OBVIOUS
<1>0. NotificationTypeOK /\ Vacant \notin EmitCalls /\ Vacant \notin TransitionCalls
  BY DEF InboxInv, Vacant, EmitCalls, TransitionCalls
<1>a. \A c \in Callers : ncall[c] # Vacant => ncall[c] \in EmitCalls \cup TransitionCalls /\ InboxCallStands(ncall[c])
  BY DEF InboxInv, NotificationTypeOK
<1>b. \A c \in Callers : ncall[c] # Vacant =>
         /\ ncall[c].op = "emit" => ncall[c] \in EmitCalls
         /\ ncall[c].op # "emit" => ncall[c] \in TransitionCalls
         /\ ncall[c].notice \in Notices /\ ncall[c].prior \in NoticeHeads /\ ncall[c].pointer \in DedupHeads
  <2>1. \A call \in EmitCalls : call.op = "emit" /\ call.notice \in Notices /\ call.prior \in NoticeHeads /\ call.pointer \in DedupHeads
    BY DEF EmitCalls
  <2>2. \A call \in TransitionCalls : call.op # "emit" /\ call.notice \in Notices /\ call.prior \in NoticeHeads /\ call.pointer \in DedupHeads
    BY DEF TransitionCalls, NoticeStates
  <2>. QED  BY <1>a, <2>1, <2>2
<1>c. pointer \in DedupHeads /\ (pointer.state = "active" => pointer.to \in Notices)
  BY DEF InboxInv, NotificationTypeOK
<1>1. CASE UNCHANGED nvars
  BY <1>1 DEF nvars, InboxInv, NotificationTypeOK, InboxCallStands
<1>2. ASSUME NEW c \in Callers, NEW n \in Notices, NEW s \in Severities, Emit(c, n, s) PROVE InboxInv'
  <2> DEFINE step == IF pointer.state = "active" THEN "target" ELSE "create"
             call == [op |-> "emit", step |-> step, notice |-> n, severity |-> s, pointer |-> pointer, prior |-> Unmade]
  <2>1. Ask(c, call)
    BY <1>2 DEF Emit
  <2>2. step \in {"target", "create"} /\ (step = "target" => pointer.to \in Notices)
    BY <1>c
  <2>3. Unmade \in NoticeHeads
    BY DEF Unmade, NoticeHeads
  <2> HIDE DEF step
  <2>4. call \in EmitCalls /\ InboxCallStands(call)
    BY <1>c, <2>2, <2>3 DEF EmitCalls, InboxCallStands
  <2>. QED  BY <1>c, <2>1, <2>4, InboxCallMoves DEF Ask
<1>3. ASSUME NEW c \in Callers, NEW n \in Notices, NEW state \in NoticeStates, Transition(c, n, state) PROVE InboxInv'
  <2> DEFINE call == [op |-> state, step |-> "write", notice |-> n, prior |-> inbox[n], pointer |-> pointer]
  <2>1. Ask(c, call) /\ inbox[n] \in NoticeHeads
    BY <1>0, <1>3 DEF Transition, NotificationTypeOK
  <2>2. call \in TransitionCalls
    BY <1>c, <2>1 DEF TransitionCalls
  <2>3. InboxCallStands(call)
    BY <1>3, <2>1 DEF InboxCallStands, Remembers, NoticeHeads, Transition
  <2>. QED  BY <1>c, <2>1, <2>2, <2>3, InboxCallMoves DEF Ask
<1>4. ASSUME NEW c \in Callers, ReadTarget(c) PROVE InboxInv'
  <2> DEFINE prior == inbox[ncall[c].pointer.to]
             step == IF prior.state = "resolved" THEN "release" ELSE "bump"
             call == [ncall[c] EXCEPT !.prior = prior, !.step = step]
  <2>1. /\ ncall[c] \in EmitCalls /\ ncall[c].pointer.to \in Notices /\ UNCHANGED <<inbox, pointer, emitted>>
        /\ ncall' = [ncall EXCEPT ![c].prior = prior, ![c].step = step]
    BY <1>4, <1>a, <1>b DEF ReadTarget, InboxCallStands
  <2>2. step \in {"release", "bump"} /\ prior \in NoticeHeads /\ prior.rev \in Nat /\ prior = inbox[ncall[c].pointer.to]
    BY <1>0, <2>1 DEF NotificationTypeOK, NoticeHeads
  <2>3. ncall' = [ncall EXCEPT ![c] = call]
    BY <1>0, <2>1 DEF NotificationTypeOK
  <2> HIDE DEF step, prior
  <2>4. call \in EmitCalls /\ call.step = step /\ call.prior = prior /\ call.pointer = ncall[c].pointer
    BY <2>1, <2>2 DEF EmitCalls
  <2>5. InboxCallStands(call)
    BY <2>1, <2>2, <2>4 DEF InboxCallStands, Remembers
  <2>. QED  BY <1>c, <2>1, <2>3, <2>4, <2>5, InboxCallMoves
<1>5. ASSUME NEW c \in Callers, ReleaseStale(c) PROVE InboxInv'
  <2>1. ncall[c] \in EmitCalls /\ ncall[c].pointer \in DedupHeads /\ UNCHANGED <<inbox, emitted>>
    BY <1>5, <1>b DEF ReleaseStale
  <2>2. CASE Hang(c) /\ UNCHANGED pointer
    BY <1>c, <2>1, <2>2, InboxCallMoves DEF Hang
  <2>3. CASE /\ pointer' = Appended(pointer, [ncall[c].pointer EXCEPT !.state = "released"])
             /\ ncall' = [ncall EXCEPT ![c].step = "create"]
    <3> DEFINE call == [ncall[c] EXCEPT !.step = "create"]
    <3>1. [ncall[c].pointer EXCEPT !.state = "released"] \in DedupHeads
          /\ [ncall[c].pointer EXCEPT !.state = "released"].state = "released"
      BY <2>1 DEF DedupHeads
    <3>2. pointer' \in DedupHeads /\ pointer'.state = "released"
      BY <1>c, <2>3, <3>1, AppendedNotice
    <3>3. call \in EmitCalls /\ InboxCallStands(call)
      BY <2>1 DEF EmitCalls, InboxCallStands
    <3>4. ncall' = [ncall EXCEPT ![c] = call]
      BY <1>0, <2>3 DEF NotificationTypeOK
    <3>. QED  BY <2>1, <3>2, <3>3, <3>4, InboxCallMoves
  <2>. QED  BY <1>5, <2>2, <2>3 DEF ReleaseStale
<1>6. ASSUME NEW c \in Callers, Repeat(c) PROVE InboxInv'
  <2> DEFINE n == ncall[c].pointer.to
             prior == ncall[c].prior
             s == ncall[c].severity
             new == Appended(inbox[n], Repeated(prior, s))
  <2>1. /\ ncall[c] \in EmitCalls /\ n \in Notices /\ Remembers(prior, inbox[n]) /\ prior \in NoticeHeads
        /\ Hang(c) /\ UNCHANGED pointer
    BY <1>6, <1>a, <1>b DEF Repeat, InboxCallStands
  <2>2. s \in Severities /\ s \in Nat
    BY <2>1, NotificationAssumption DEF EmitCalls
  <2>3. CASE UNCHANGED <<inbox, emitted>>
    BY <1>c, <2>1, <2>3, InboxCallMoves DEF Hang
  <2>4. CASE /\ HeadUnmoved(inbox[n], prior.rev) /\ inbox' = [inbox EXCEPT ![n] = new]
             /\ emitted' = [emitted EXCEPT ![n] = Append(@, s)]
    <3>1. prior = inbox[n] /\ inbox[n] \in NoticeHeads /\ emitted[n] \in Seq(Severities) /\ SumsUp(inbox[n], emitted[n])
      BY <1>0, <2>1, <2>4 DEF Remembers, HeadUnmoved, NotificationTypeOK, InboxInv
    <3>2. PICK worst \in Severities \cup {0} : worst = IF s > prior.severity THEN s ELSE prior.severity
      BY <2>1, <2>2 DEF NoticeHeads
    <3>3. Repeated(prior, s) = [prior EXCEPT !.count = prior.count + 1, !.severity = worst]
      BY <3>2 DEF Repeated
    <3>4. Repeated(prior, s) \in NoticeHeads /\ Repeated(prior, s).count = prior.count + 1 /\ Repeated(prior, s).severity = worst
      <4>1. PICK more \in Nat : more = prior.count + 1
        BY <2>1 DEF NoticeHeads
      <4>2. /\ [prior EXCEPT !.count = more, !.severity = worst] \in NoticeHeads
            /\ [prior EXCEPT !.count = more, !.severity = worst].count = more
            /\ [prior EXCEPT !.count = more, !.severity = worst].severity = worst
        BY <2>1 DEF NoticeHeads
      <4>. QED  BY <3>3, <4>1, <4>2
    <3>5. new \in NoticeHeads /\ new.rev = inbox[n].rev + 1 /\ new.count = inbox[n].count + 1 /\ new.severity = worst
      BY <3>1, <3>4, AppendedNotice
    <3> HIDE DEF new
    <3>6. SumsUp(new, Append(emitted[n], s)) /\ Append(emitted[n], s) \in Seq(Severities)
      BY <2>2, <3>1, <3>2, <3>5, OneMoreEmit
    <3>7. emitted' = [emitted EXCEPT ![n] = Append(emitted[n], s)]
      BY <2>4
    <3>. QED  BY <2>1, <2>4, <3>5, <3>6, <3>7, NoticeMoves DEF Hang
  <2>. QED  BY <1>6, <2>3, <2>4 DEF Repeat
<1>7. ASSUME NEW c \in Callers, Make(c) PROVE InboxInv'
  <2> DEFINE n == ncall[c].notice
             s == ncall[c].severity
             new == [rev |-> 1, state |-> "unread", count |-> 1, severity |-> s]
  <2>1. ncall[c] \in EmitCalls /\ n \in Notices /\ s \in Severities /\ UNCHANGED pointer
    BY <1>7, <1>b DEF Make, EmitCalls
  <2>0. s \in Nat
    BY <2>1, NotificationAssumption, Zenon
  <2>2. CASE Hang(c) /\ UNCHANGED <<inbox, emitted>>
    BY <1>c, <2>1, <2>2, InboxCallMoves DEF Hang
  <2>3. CASE /\ inbox[n].rev = 0 /\ inbox' = [inbox EXCEPT ![n] = new]
             /\ emitted' = [emitted EXCEPT ![n] = <<s>>] /\ ncall' = [ncall EXCEPT ![c].step = "look"]
    <3> DEFINE call == [ncall[c] EXCEPT !.step = "look"]
    <3>1. new \in NoticeHeads /\ new.rev = inbox[n].rev + 1
      BY <2>1, <2>3 DEF NoticeHeads, NoticeStates
    <3>2. SumsUp(new, <<s>>) /\ <<s>> \in Seq(Severities)
      <4>1. /\ <<s>> \in Seq(Severities) /\ Len(<<s>>) = 1 /\ DOMAIN <<s>> = {1} /\ <<s>>[1] = s /\ s \in Nat
            /\ new.rev = 1 /\ new.count = 1 /\ new.severity = s
        BY <2>1, <2>0
      <4>. QED  BY <4>1 DEF SumsUp
    <3>3. call \in EmitCalls /\ call.step = "look" /\ ncall' = [ncall EXCEPT ![c] = call]
      BY <1>0, <2>1, <2>3 DEF EmitCalls, NotificationTypeOK
    <3>. QED  BY <2>1, <2>3, <3>1, <3>2, <3>3, NoticeMoves
  <2>. QED  BY <1>7, <2>2, <2>3 DEF Make
<1>8. ASSUME NEW c \in Callers, LookAtPointer(c) PROVE InboxInv'
  <2> DEFINE call == [ncall[c] EXCEPT !.step = "point", !.pointer = pointer]
  <2>1. ncall[c] \in EmitCalls \cup TransitionCalls /\ UNCHANGED <<inbox, pointer, emitted>>
    BY <1>8, <1>a DEF LookAtPointer
  <2>2. CASE Hang(c)
    BY <1>c, <2>1, <2>2, InboxCallMoves DEF Hang
  <2>3. CASE ncall' = [ncall EXCEPT ![c].step = "point", ![c].pointer = pointer]
    <3>1. call \in EmitCalls \cup TransitionCalls /\ call.step = "point"
      <4>1. CASE ncall[c] \in EmitCalls
        BY <1>c, <4>1 DEF EmitCalls
      <4>2. CASE ncall[c] \in TransitionCalls
        BY <1>c, <4>2 DEF TransitionCalls
      <4>. QED  BY <2>1, <4>1, <4>2
    <3>2. ncall' = [ncall EXCEPT ![c] = call]
      BY <1>0, <2>3 DEF NotificationTypeOK
    <3>. QED  BY <1>c, <2>1, <3>1, <3>2, InboxCallMoves DEF InboxCallStands
  <2>. QED  BY <1>8, <2>2, <2>3 DEF LookAtPointer
<1>9. ASSUME NEW c \in Callers, Point(c) PROVE InboxInv'
  <2>1. ncall[c].notice \in Notices /\ Hang(c) /\ UNCHANGED <<inbox, emitted>>
    BY <1>9, <1>b DEF Point
  <2>2. PICK state \in {"active", "released"} :
           pointer' = pointer \/ pointer' = [rev |-> pointer.rev + 1, to |-> ncall[c].notice, state |-> state]
    BY <1>9 DEF Point
  <2>3. pointer' \in DedupHeads /\ (pointer'.state = "active" => pointer'.to \in Notices)
    BY <1>c, <2>1, <2>2 DEF DedupHeads
  <2>. QED  BY <2>1, <2>3, InboxCallMoves DEF Hang
<1>10. ASSUME NEW c \in Callers, WriteTransition(c) PROVE InboxInv'
  <2> DEFINE n == ncall[c].notice
             mid == [ncall[c].prior EXCEPT !.state = ncall[c].op]
             new == Appended(inbox[n], mid)
  <2>1. /\ ncall[c] \in TransitionCalls /\ n \in Notices /\ ncall[c].prior \in NoticeHeads
        /\ ncall[c].prior.rev > 0 /\ Remembers(ncall[c].prior, inbox[n]) /\ ncall[c].op \in NoticeStates /\ UNCHANGED <<pointer, emitted>>
    BY <1>10, <1>a, <1>b DEF WriteTransition, InboxCallStands, NoticeStates
  <2>2. CASE Hang(c) /\ UNCHANGED inbox
    BY <1>c, <2>1, <2>2, InboxCallMoves DEF Hang
  <2>3. CASE HeadUnmoved(inbox[n], ncall[c].prior.rev) /\ inbox' = [inbox EXCEPT ![n] = new]
    <3>1. ncall[c].prior = inbox[n] /\ inbox[n] \in NoticeHeads /\ emitted[n] \in Seq(Severities)
          /\ SumsUp(inbox[n], emitted[n]) /\ emitted' = [emitted EXCEPT ![n] = emitted[n]]
      BY <1>0, <2>1, <2>3 DEF Remembers, HeadUnmoved, NotificationTypeOK, InboxInv
    <3>2. mid \in NoticeHeads /\ mid.count = inbox[n].count /\ mid.severity = inbox[n].severity
      BY <2>1, <3>1 DEF NoticeHeads
    <3> HIDE DEF mid
    <3>3. new \in NoticeHeads /\ new.rev = inbox[n].rev + 1 /\ new.count = inbox[n].count /\ new.severity = inbox[n].severity
      BY <3>1, <3>2, AppendedNotice
    <3> HIDE DEF new
    <3>4. inbox[n].rev > 0
      BY <2>1, <3>1
    <3>5. SumsUp(new, emitted[n])
      BY <3>1, <3>3, <3>4 DEF SumsUp, NoticeHeads
    <3>6. PICK call \in TransitionCalls \cup {Vacant} :
             ncall' = [ncall EXCEPT ![c] = call] /\ (call # Vacant => call.step = "look")
      <4>1. CASE Hang(c)
        BY <4>1 DEF Hang
      <4>2. CASE ncall' = [ncall EXCEPT ![c].step = "look"]
        <5>1. [ncall[c] EXCEPT !.step = "look"] \in TransitionCalls /\ [ncall[c] EXCEPT !.step = "look"].step = "look"
          BY <2>1 DEF TransitionCalls
        <5>2. ncall' = [ncall EXCEPT ![c] = [ncall[c] EXCEPT !.step = "look"]]
          BY <1>0, <4>2 DEF NotificationTypeOK
        <5>. QED  BY <5>1, <5>2
      <4>. QED  BY <1>10, <2>3, <4>1, <4>2 DEF WriteTransition
    <3>. QED  BY <2>1, <2>3, <3>1, <3>3, <3>5, <3>6, NoticeMoves
  <2>. QED  BY <1>10, <2>2, <2>3 DEF WriteTransition
<1>11. ASSUME NEW c \in Callers, ProducerDies(c) PROVE InboxInv'
  BY <1>11, <1>c, InboxCallMoves DEF ProducerDies, Hang
<1>. QED  BY <1>1, <1>2, <1>3, <1>4, <1>5, <1>6, <1>7, <1>8, <1>9, <1>10, <1>11 DEF InboxNext

\* A notice's count and severity are those of its recorded emits
\* (NotificationService.emit, _bump_unresolved, transition).
THEOREM EmitsStayCounted == Spec => []EmitsCounted
<1>1. Init => InboxInv
  BY InboxInvInit DEF Init
<1>2. InboxInv /\ [Next]_vars => InboxInv'
  BY InboxInvStep, ServiceSteps
<1>3. InboxInv => EmitsCounted
  <2> SUFFICES ASSUME InboxInv, NEW n \in Notices, inbox[n].rev > 0
               PROVE  /\ inbox[n].count = Len(emitted[n])
                      /\ inbox[n].severity = Max({emitted[n][i] : i \in DOMAIN emitted[n]})
    BY DEF EmitsCounted
  <2> DEFINE all == {emitted[n][i] : i \in DOMAIN emitted[n]}
             worst == inbox[n].severity
  <2>1. SumsUp(inbox[n], emitted[n]) /\ emitted[n] \in Seq(Severities)
    BY DEF InboxInv, NotificationTypeOK
  <2>2. \A i \in DOMAIN emitted[n] : emitted[n][i] \in Nat
    <3>1. \A i \in DOMAIN emitted[n] : emitted[n][i] \in Severities
      BY <2>1
    <3>. QED  BY <3>1, NotificationAssumption
  <2>3. worst \in all /\ \A y \in all : y \in Nat /\ y <= worst
    BY <2>1, <2>2 DEF SumsUp
  <2> HIDE DEF all, worst
  <2>4. Max(all) = worst
    BY <2>3 DEF Max
  <2>. QED  BY <2>1, <2>4 DEF SumsUp, all, worst
<1>. QED  BY <1>1, <1>2, <1>3, PTL DEF Spec

-----------------------------------------------------------------------------
(* Outbox                                                                   *)

\* The empty outbox satisfies the invariant.
LEMMA OutboxInvInit == OutboxInit => OutboxInv
<1> SUFFICES ASSUME OutboxInit PROVE OutboxInv
  OBVIOUS
<1>1. /\ outbox.rev = 0 /\ outbox.attempts = 0 /\ outbox.state = "none"
      /\ outbox \in Entry
  BY DEF OutboxInit, Entry, OutboxStates
<1>2. ocall \in [Callers -> Calls]
  BY DEF OutboxInit, Calls
<1>3. obudget \in [calls : Nat, deaths : Nat] /\ sends = 0
      /\ receipt \in BOOLEAN /\ approved \in BOOLEAN
  BY DEF OutboxInit
<1>4. OutboxTypeOK
  BY <1>1, <1>2, <1>3, OutboxAssumption DEF OutboxTypeOK
<1>5. CallsRemember
  BY DEF OutboxInit, CallsRemember, Quiet
<1>6. NoEntryYet /\ AttemptsLeft /\ SendsReported
  BY <1>1, <1>3, OutboxAssumption DEF NoEntryYet, AttemptsLeft, SendsReported
<1>. QED  BY <1>4, <1>5, <1>6 DEF OutboxInv

\* Calls that leave the entry and its sends alone, and add no call that is
\* about to write, keep the invariant.
LEMMA EntryKept ==
    ASSUME OutboxInv, OutboxTypeOK', UNCHANGED <<outbox, sends>>,
           \A c \in Callers : ocall'[c] = ocall[c] \/ ocall'[c].step # "advance"
    PROVE  OutboxInv'
BY DEF OutboxInv, NoEntryYet, CallsRemember, AttemptsLeft, SendsReported

\* _advance_outbox keeps the invariant: what it writes follows the head.
LEMMA AdvanceInv ==
    ASSUME OutboxInv, NEW c \in Callers, Advance(c)
    PROVE  OutboxInv'
<1> DEFINE call == ocall[c]
<1>0. OutboxTypeOK /\ CallsRemember /\ AttemptsLeft /\ SendsReported
  BY DEF OutboxInv
<1>1. call \in [step : {"advance"}, prior : Entry, next : OutboxStates]
  BY <1>0 DEF OutboxTypeOK, Calls, Advance, Quiet
<1>2. CASE ~HeadUnmoved(outbox, call.prior.rev)
  <2>1. outbox' = outbox /\ sends' = sends /\ ocall' = [ocall EXCEPT ![c] = Quiet]
        /\ UNCHANGED <<receipt, approved, obudget>>
    BY <1>2 DEF Advance, Finish
  <2>2. OutboxTypeOK'
    BY <2>1, <1>0 DEF OutboxTypeOK, Calls
  <2>3. \A d \in Callers : ocall'[d] = ocall[d] \/ ocall'[d].step # "advance"
    BY <2>1, <1>0 DEF OutboxTypeOK, Quiet
  <2>. QED  BY <2>1, <2>2, <2>3, EntryKept
<1>3. CASE HeadUnmoved(outbox, call.prior.rev)
  <2>1. call.prior = outbox
    BY <1>0, <1>1, <1>3 DEF HeadUnmoved, CallsRemember
  <2>2. outbox \in Entry /\ outbox.attempts \in Nat /\ outbox.rev \in Nat
    BY <1>0 DEF OutboxTypeOK, Entry
  <2>3. /\ outbox' = Appended(outbox, Attempted(outbox, call.next))
        /\ sends' = IF call.next = "sending" THEN sends + 1 ELSE sends
        /\ ocall' \in {[ocall EXCEPT ![c] = Quiet], [ocall EXCEPT ![c] = [step |-> "receipt"]]}
        /\ UNCHANGED <<receipt, approved, obudget>>
    BY <1>3, <2>1 DEF Advance, Finish
  <2>4. \/ call.next = "draft" /\ outbox.state = "none"
        \/ call.next = "approved" /\ outbox.state = "draft"
        \/ call.next = "sending" /\ outbox.state \in {"approved", "failed"}
        \/ call.next \in {"sent", "failed"} /\ outbox.state = "sending"
    BY <1>0, <1>1, <2>1, <2>2 DEF CallsRemember, Advances, Entry, OutboxStates
  <2>5. /\ outbox' \in Entry
        /\ outbox'.rev = outbox.rev + 1
        /\ call.next # "failed" => outbox'.state = call.next /\ outbox'.attempts = outbox.attempts
        /\ call.next = "failed" => /\ outbox'.attempts = outbox.attempts + 1
                                   /\ outbox'.state = IF outbox.attempts + 1 >= RetryLimit
                                                      THEN "dead_letter" ELSE "failed"
    <3> DEFINE new == Attempted(outbox, call.next)
    <3>1. new \in Entry
      <4>1. CASE call.next # "failed"
        BY <1>1, <2>2, <4>1 DEF Attempted, Entry
      <4>2. CASE call.next = "failed"
        <5> DEFINE last == IF outbox.attempts + 1 >= RetryLimit THEN "dead_letter" ELSE "failed"
        <5>1. new = [outbox EXCEPT !.attempts = @ + 1, !.state = last]
          BY <4>2 DEF Attempted
        <5>2. last \in OutboxStates
          BY DEF OutboxStates
        <5> HIDE DEF last, new
        <5>3. outbox.attempts + 1 \in Nat
          BY <2>2
        <5>4. [outbox EXCEPT !.attempts = outbox.attempts + 1] \in Entry
          BY <2>2, <5>3 DEF Entry
        <5>5. new = [[outbox EXCEPT !.attempts = outbox.attempts + 1] EXCEPT !.state = last]
          BY <2>2, <5>1 DEF Entry
        <5>. QED  BY <5>2, <5>4, <5>5 DEF Entry
      <4>. QED  BY <4>1, <4>2
    <3>2. /\ call.next # "failed" => new.state = call.next /\ new.attempts = outbox.attempts
          /\ call.next = "failed" => /\ new.attempts = outbox.attempts + 1
                                     /\ new.state = IF outbox.attempts + 1 >= RetryLimit
                                                    THEN "dead_letter" ELSE "failed"
      <4>1. CASE call.next # "failed"
        BY <2>2, <4>1 DEF Attempted, Entry
      <4>2. CASE call.next = "failed"
        BY <2>2, <4>2 DEF Attempted, Entry
      <4>. QED  BY <4>1, <4>2
    <3>3. outbox' = [new EXCEPT !.rev = outbox.rev + 1]
      BY <2>3 DEF Appended
    <3> HIDE DEF new
    <3>4. /\ outbox' \in Entry
          /\ outbox'.rev = outbox.rev + 1
          /\ outbox'.state = new.state /\ outbox'.attempts = new.attempts
      BY <2>2, <3>1, <3>3 DEF Entry
    <3>. QED  BY <3>2, <3>4
  <2>6. SendsReported' /\ AttemptsLeft' /\ outbox'.attempts <= RetryLimit /\ sends' \in Nat
    BY <1>0, <2>2, <2>3, <2>4, <2>5, OutboxAssumption
    DEF SendsReported, AttemptsLeft, OutboxTypeOK
  <2>7. OutboxTypeOK'
    BY <1>0, <2>3, <2>5, <2>6 DEF OutboxTypeOK, Calls
  <2>8. CallsRemember'
    <3> SUFFICES ASSUME NEW d \in Callers, ocall'[d].step = "advance"
                 PROVE  /\ ocall'[d].prior.rev \in Nat
                        /\ ocall'[d].prior.rev < outbox'.rev
                        /\ ocall'[d] = ocall[d]
      BY <1>0, <2>2, <2>5 DEF CallsRemember, OutboxTypeOK
    <3>1. ocall'[d] = ocall[d]
      BY <1>0, <2>3 DEF OutboxTypeOK, Quiet
    <3>2. ocall[d] \in [step : {"advance"}, prior : Entry, next : OutboxStates]
      BY <1>0, <3>1 DEF OutboxTypeOK, Calls, Quiet
    <3>. QED  BY <1>0, <2>2, <2>5, <3>1, <3>2 DEF CallsRemember, Entry
  <2>9. NoEntryYet'
    BY <2>2, <2>5 DEF NoEntryYet
  <2>. QED  BY <2>6, <2>7, <2>8, <2>9 DEF OutboxInv
<1>. QED  BY <1>2, <1>3

\* Entering a call that is about to write: it remembers the head.
LEMMA MarkInv ==
    ASSUME OutboxInv, NEW c \in Callers, NEW next \in OutboxStates, Mark(c, next)
    PROVE  OutboxInv'
<1>0. OutboxTypeOK /\ CallsRemember
  BY DEF OutboxInv
<1>1. /\ ocall' = [ocall EXCEPT ![c] = [step |-> "advance", prior |-> outbox, next |-> next]]
      /\ obudget' = [obudget EXCEPT !.calls = @ + 1]
      /\ UNCHANGED <<outbox, receipt, approved, sends>>
      /\ next \in Advances[outbox.state]
  BY DEF Mark, OutboxCall
<1>2. next # "draft"
  BY <1>0, <1>1 DEF Advances, OutboxTypeOK, Entry, OutboxStates
<1>3. OutboxTypeOK'
  BY <1>0, <1>1 DEF OutboxTypeOK, Calls
<1>4. CallsRemember'
  BY <1>0, <1>1, <1>2 DEF CallsRemember, OutboxTypeOK, Entry
<1>. QED  BY <1>1, <1>3, <1>4 DEF OutboxInv, NoEntryYet, AttemptsLeft, SendsReported

\* prepare_outbox finds no entry and is about to write the draft.
LEMMA LookInv ==
    ASSUME OutboxInv, NEW c \in Callers, LookAtEntry(c)
    PROVE  OutboxInv'
<1>0. OutboxTypeOK /\ CallsRemember /\ NoEntryYet
  BY DEF OutboxInv
<1>1. /\ UNCHANGED <<outbox, receipt, approved, obudget, sends>>
      /\ ocall' = [ocall EXCEPT ![c] =
            IF outbox.rev = 0 THEN [step |-> "advance", prior |-> outbox, next |-> "draft"]
            ELSE [step |-> "receipt"]]
  BY DEF LookAtEntry
<1>2. OutboxTypeOK'
  BY <1>0, <1>1 DEF OutboxTypeOK, Calls, OutboxStates
<1>3. CASE outbox.rev # 0
  <2>1. \A d \in Callers : ocall'[d] = ocall[d] \/ ocall'[d].step # "advance"
    BY <1>0, <1>1, <1>3 DEF OutboxTypeOK
  <2>. QED  BY <1>1, <1>2, <2>1, EntryKept
<1>4. CASE outbox.rev = 0
  <2>1. CallsRemember'
    BY <1>0, <1>1, <1>4 DEF CallsRemember, OutboxTypeOK, Entry, NoEntryYet
  <2>. QED  BY <1>1, <1>2, <2>1 DEF OutboxInv, NoEntryYet, AttemptsLeft, SendsReported
<1>. QED  BY <1>3, <1>4

\* Every step of the outbox keeps the invariant.
LEMMA OutboxInvStep == OutboxInv /\ [OutboxNext]_ovars => OutboxInv'
<1> SUFFICES ASSUME OutboxInv, [OutboxNext]_ovars PROVE OutboxInv'
  OBVIOUS
<1>0. OutboxTypeOK
  BY DEF OutboxInv
<1>1. ASSUME NEW c \in Callers, Prepare(c) PROVE OutboxInv'
  <2>1. /\ ocall' = [ocall EXCEPT ![c] = [step |-> "look"]]
        /\ obudget' = [obudget EXCEPT !.calls = @ + 1]
        /\ UNCHANGED <<outbox, receipt, approved, sends>>
    BY <1>1 DEF Prepare, OutboxCall
  <2>2. OutboxTypeOK'
    BY <1>0, <2>1 DEF OutboxTypeOK, Calls
  <2>3. \A d \in Callers : ocall'[d] = ocall[d] \/ ocall'[d].step # "advance"
    BY <1>0, <2>1 DEF OutboxTypeOK
  <2>. QED  BY <2>1, <2>2, <2>3, EntryKept
<1>2. ASSUME NEW c \in Callers, StoreOutboxReceipt(c) \/ SenderDies(c) PROVE OutboxInv'
  <2>1. /\ ocall' = [ocall EXCEPT ![c] = Quiet]
        /\ obudget' = obudget \/ obudget' = [obudget EXCEPT !.deaths = @ + 1]
        /\ receipt' \in {receipt, TRUE}
        /\ UNCHANGED <<outbox, approved, sends>>
    BY <1>2 DEF StoreOutboxReceipt, SenderDies, Finish
  <2>2. OutboxTypeOK'
    <3>1. ocall' \in [Callers -> Calls]
      BY <1>0, <2>1 DEF OutboxTypeOK, Calls
    <3>2. obudget' \in [calls : Nat, deaths : Nat]
      BY <1>0, <2>1 DEF OutboxTypeOK
    <3>3. receipt' \in BOOLEAN
      BY <1>0, <2>1 DEF OutboxTypeOK
    <3>. QED  BY <1>0, <2>1, <3>1, <3>2, <3>3 DEF OutboxTypeOK
  <2>3. \A d \in Callers : ocall'[d] = ocall[d] \/ ocall'[d].step # "advance"
    BY <1>0, <2>1 DEF OutboxTypeOK, Quiet
  <2>. QED  BY <2>1, <2>2, <2>3, EntryKept
<1>3. CASE ApprovalEnds \/ UNCHANGED ovars
  <2>1. UNCHANGED <<outbox, receipt, ocall, obudget, sends>> /\ approved' \in {approved, FALSE}
    BY <1>3 DEF ApprovalEnds, ovars
  <2>2. OutboxTypeOK'
    BY <1>0, <2>1 DEF OutboxTypeOK
  <2>. QED  BY <2>1, <2>2, EntryKept
<1>. QED  BY <1>1, <1>2, <1>3, AdvanceInv, MarkInv, LookInv DEF OutboxNext

\* The inductive invariant holds in every reachable state.
THEOREM OutboxInvariant == OutboxSpec => []OutboxInv
BY OutboxInvInit, OutboxInvStep, PTL DEF OutboxSpec

\* Types of the outbox entry and of the calls at work on it.
THEOREM OutboxTypeCorrect == OutboxSpec => []OutboxTypeOK
<1>1. OutboxInv => OutboxTypeOK
  BY DEF OutboxInv
<1>. QED  BY <1>1, OutboxInvariant, PTL

\* Every hand-over to a worker is reported once and the retry limit bounds
\* them (mark_sending, mark_sent, mark_failed), for any number of workers.
THEOREM EverySendReported == OutboxSpec => []SendsReported
<1>1. OutboxInv => SendsReported
  BY DEF OutboxInv
<1>. QED  BY <1>1, OutboxInvariant, PTL

-----------------------------------------------------------------------------
(* Gateways                                                                 *)

\* An entry more at the end of a stream.
LEMMA OneMoreEntry ==
    ASSUME NEW stream \in Seq(Entries), NEW entry \in Entries
    PROVE  LET more == Append(stream, entry)
               k == Len(stream) + 1 IN
           /\ more \in Seq(Entries) /\ Len(more) = k /\ more # << >> /\ more[k] = entry
           /\ k \in Nat /\ k > 0 /\ \A i \in DOMAIN stream : more[i] = stream[i] /\ i \in Nat /\ i < k
           /\ \A words : Saying(more, words) = Saying(stream, words) \cup (IF entry.says \in words THEN {k} ELSE {})
           /\ stream # << >> => k > 1
<1> DEFINE more == Append(stream, entry)
           k == Len(stream) + 1
<1>1. /\ more \in Seq(Entries) /\ Len(more) = k /\ more # << >> /\ more[k] = entry /\ k \in Nat /\ k > 0
      /\ stream # << >> => k > 1
  <2>1. more \in Seq(Entries) /\ Len(more) = k /\ more[k] = entry /\ Len(stream) \in Nat
    OBVIOUS
  <2>2. stream # << >> => Len(stream) # 0
    OBVIOUS
  <2>3. more # << >>
    BY <2>1
  <2>. QED  BY <2>1, <2>2, <2>3
<1>2. DOMAIN more = DOMAIN stream \cup {k} /\ \A i \in DOMAIN stream : more[i] = stream[i] /\ i \in Nat /\ i < k
  <2>1. DOMAIN stream = 1..Len(stream) /\ DOMAIN more = 1..k /\ Len(stream) \in Nat
    BY <1>1
  <2>2. \A i \in 1..Len(stream) : more[i] = stream[i]
    OBVIOUS
  <2>3. 1..k = 1..Len(stream) \cup {k}
    BY <2>1
  <2>. QED  BY <2>1, <2>2, <2>3
<1> HIDE DEF more, k
<1>3. \A words : Saying(more, words) = Saying(stream, words) \cup (IF entry.says \in words THEN {k} ELSE {})
  BY <1>1, <1>2 DEF Saying
<1>. QED  BY <1>1, <1>2, <1>3 DEF more, k

\* One entry more, with the next number.
LEMMA OneMoreCounted ==
    ASSUME NEW old, NEW new, NEW last \in Nat, NEW k \in Nat, \A i \in DOMAIN old : i \in Nat /\ i < k /\ new[i] = old[i],
           DOMAIN new = DOMAIN old \cup {k}, new[k] = last + 1, CountedTo(old, last)
    PROVE  CountedTo(new, last + 1)
<1>1. \A i \in DOMAIN old : new[i] \in 1..last
  BY DEF CountedTo
<1>2. \A i \in DOMAIN new : new[i] \in 1..(last + 1)
  BY <1>1
<1>3. \A n \in 1..(last + 1) : \E i \in DOMAIN new : new[i] = n
  <2> SUFFICES ASSUME NEW n \in 1..(last + 1) PROVE \E i \in DOMAIN new : new[i] = n
    OBVIOUS
  <2>1. CASE n = last + 1
    BY <2>1
  <2>2. CASE n \in 1..last
    BY <2>2 DEF CountedTo
  <2>. QED  BY <2>1, <2>2
<1>4. \A i, j \in DOMAIN new : i < j => new[i] < new[j]
  BY <1>1 DEF CountedTo
<1>. QED  BY <1>2, <1>3, <1>4 DEF CountedTo

\* The stream of an active session has said something and not its end.
LEMMA NotOver ==
    ASSUME NEW session \in Sessions, NEW stream \in Seq(Entries), SessionTold(session, stream), session.state \in ActiveStates
    PROVE  stream # << >> /\ Saying(stream, OverStates) = {}
<1>1. stream # << >>
  BY DEF SessionTold, ActiveStates
<1>2. Len(stream) \in Nat /\ DOMAIN stream = 1..Len(stream)
  OBVIOUS
<1> SUFFICES ASSUME NEW i \in Saying(stream, OverStates) PROVE FALSE
  BY <1>1
<1>3. i = Len(stream) /\ i \in Saying(stream, {"streaming"} \cup OverStates)
  BY <1>1 DEF SessionTold, Saying
<1>4. PICK j \in Saying(stream, {"streaming"} \cup OverStates) : stream[j].says = session.state /\ i <= j
  BY <1>1, <1>3 DEF SessionTold
<1>5. j = i
  BY <1>2, <1>3, <1>4 DEF Saying
<1>. QED  BY <1>4, <1>5 DEF Saying, OverStates, ActiveStates

\* An entry in the transaction of accept_event.
LEMMA EventTold ==
    ASSUME NEW session \in Sessions, NEW stream \in Seq(Entries), SessionTold(session, stream), session.state \in ActiveStates,
           NEW new \in Sessions, new.state = session.state, new.token = session.token, new.last = session.last + 1
    PROVE  SessionTold(new, Append(stream, [says |-> "event", number |-> new.last]))
<1> DEFINE entry == [says |-> "event", number |-> new.last]
           more == Append(stream, entry)
           k == Len(stream) + 1
<1>0. entry \in Entries /\ entry.says = "event" /\ entry.number = new.last /\ session.last \in Nat /\ new.last \in Nat
  BY DEF Entries, Sessions
<1>1. stream # << >> /\ session.state # "none"
  BY DEF SessionTold, ActiveStates
<1> HIDE DEF entry
<1>2. /\ more \in Seq(Entries) /\ Len(more) = k /\ more # << >> /\ more[k] = entry
      /\ k \in Nat /\ k > 1 /\ \A i \in DOMAIN stream : more[i] = stream[i] /\ i \in Nat /\ i < k
      /\ \A words : Saying(more, words) = Saying(stream, words) \cup (IF entry.says \in words THEN {k} ELSE {})
  BY <1>0, <1>1, OneMoreEntry
<1>3. \A words : Saying(stream, words) \subseteq DOMAIN stream
  BY DEF Saying
<1>4. Len(stream) \in DOMAIN stream /\ Len(stream) \in Nat
  BY <1>1
<1> HIDE DEF more, k
<1>5. /\ Saying(more, {"initialized"}) = Saying(stream, {"initialized"})
      /\ Saying(more, {"resumed"}) = Saying(stream, {"resumed"})
      /\ Saying(more, OverStates) = Saying(stream, OverStates)
      /\ Saying(more, {"streaming"} \cup OverStates) = Saying(stream, {"streaming"} \cup OverStates)
      /\ Saying(more, {"event"}) = Saying(stream, {"event"}) \cup {k}
  BY <1>0, <1>2 DEF OverStates
<1>6. Saying(stream, OverStates) = {}
  BY NotOver
<1>7. CountedTo([i \in Saying(more, {"event"}) |-> more[i].number], new.last)
  <2> DEFINE old == [i \in Saying(stream, {"event"}) |-> stream[i].number]
             now == [i \in Saying(more, {"event"}) |-> more[i].number]
  <2>1. CountedTo(old, session.last)
    BY <1>1 DEF SessionTold
  <2>2. /\ \A i \in DOMAIN old : i \in Nat /\ i < k /\ now[i] = old[i]
        /\ DOMAIN now = DOMAIN old \cup {k} /\ now[k] = session.last + 1
    BY <1>0, <1>2, <1>3, <1>5
  <2> HIDE DEF old, now
  <2>3. CountedTo(now, session.last + 1)
    <3>1. session.last \in Nat /\ k \in Nat
      BY <1>0, <1>2
    <3>. QED  BY <2>1, <2>2, <3>1, OneMoreCounted, Zenon
  <2>. QED  BY <2>3 DEF now
<1>8. new.token > 0 /\ CountedTo([i \in Saying(more, {"resumed"}) |-> more[i].token], new.token - 1)
  <2>1. session.token > 0 /\ CountedTo([i \in Saying(stream, {"resumed"}) |-> stream[i].token], session.token - 1)
    BY <1>1 DEF SessionTold
  <2>2. [i \in Saying(more, {"resumed"}) |-> more[i].token] = [i \in Saying(stream, {"resumed"}) |-> stream[i].token]
    BY <1>2, <1>3, <1>5
  <2>. QED  BY <2>1, <2>2
<1>9. IF Saying(more, {"streaming"} \cup OverStates) = {} THEN new.state = "ready"
      ELSE \E i \in Saying(more, {"streaming"} \cup OverStates) :
              more[i].says = new.state /\ \A j \in Saying(more, {"streaming"} \cup OverStates) : j <= i
  BY <1>1, <1>2, <1>3, <1>5 DEF SessionTold
<1>. QED  BY <1>1, <1>2, <1>5, <1>6, <1>7, <1>8, <1>9 DEF SessionTold, more, entry

\* The entry of a resume.
LEMMA ResumeTold ==
    ASSUME NEW session \in Sessions, NEW stream \in Seq(Entries), SessionTold(session, stream), session.state \in ActiveStates,
           NEW new \in Sessions, new.state = session.state, new.token = session.token + 1, new.last = session.last
    PROVE  SessionTold(new, Append(stream, [says |-> "resumed", token |-> session.token]))
<1> DEFINE entry == [says |-> "resumed", token |-> session.token]
           more == Append(stream, entry)
           k == Len(stream) + 1
<1>0. entry \in Entries /\ entry.says = "resumed" /\ entry.token = session.token /\ session.token \in Nat
  BY DEF Entries, Sessions
<1>1. stream # << >> /\ Saying(stream, OverStates) = {} /\ session.state # "none"
  BY NotOver DEF ActiveStates
<1> HIDE DEF entry
<1>2. /\ more \in Seq(Entries) /\ Len(more) = k /\ more # << >> /\ more[k] = entry
      /\ k \in Nat /\ k > 1 /\ \A i \in DOMAIN stream : more[i] = stream[i] /\ i \in Nat /\ i < k
      /\ \A words : Saying(more, words) = Saying(stream, words) \cup (IF entry.says \in words THEN {k} ELSE {})
  BY <1>0, <1>1, OneMoreEntry
<1>3. \A words : Saying(stream, words) \subseteq DOMAIN stream
  BY DEF Saying
<1> HIDE DEF more, k
<1>4. /\ Saying(more, {"initialized"}) = Saying(stream, {"initialized"})
      /\ Saying(more, {"event"}) = Saying(stream, {"event"})
      /\ Saying(more, OverStates) = Saying(stream, OverStates)
      /\ Saying(more, {"streaming"} \cup OverStates) = Saying(stream, {"streaming"} \cup OverStates)
      /\ Saying(more, {"resumed"}) = Saying(stream, {"resumed"}) \cup {k}
  BY <1>0, <1>2 DEF OverStates
<1>5. CountedTo([i \in Saying(more, {"event"}) |-> more[i].number], new.last)
  <2>1. CountedTo([i \in Saying(stream, {"event"}) |-> stream[i].number], session.last)
    BY <1>1 DEF SessionTold
  <2>2. [i \in Saying(more, {"event"}) |-> more[i].number] = [i \in Saying(stream, {"event"}) |-> stream[i].number]
    BY <1>2, <1>3, <1>4
  <2>. QED  BY <2>1, <2>2
<1>6. new.token > 0 /\ CountedTo([i \in Saying(more, {"resumed"}) |-> more[i].token], new.token - 1)
  <2> DEFINE old == [i \in Saying(stream, {"resumed"}) |-> stream[i].token]
             now == [i \in Saying(more, {"resumed"}) |-> more[i].token]
  <2>1. session.token > 0 /\ CountedTo(old, session.token - 1)
    BY <1>1 DEF SessionTold
  <2>2. PICK last \in Nat : last = session.token - 1
    BY <1>0, <2>1
  <2>3. /\ \A i \in DOMAIN old : i \in Nat /\ i < k /\ now[i] = old[i]
        /\ DOMAIN now = DOMAIN old \cup {k} /\ now[k] = last + 1
    BY <1>0, <1>2, <1>3, <1>4, <2>2
  <2> HIDE DEF old, now
  <2>4. CountedTo(now, last + 1)
    <3>1. CountedTo(old, last) /\ k \in Nat
      BY <1>2, <2>1, <2>2
    <3>. QED  BY <2>3, <3>1, OneMoreCounted, Zenon
  <2>5. last + 1 = new.token - 1 /\ new.token > 0
    BY <1>0, <2>2
  <2>. QED  BY <2>4, <2>5 DEF now
<1>7. IF Saying(more, {"streaming"} \cup OverStates) = {} THEN new.state = "ready"
      ELSE \E i \in Saying(more, {"streaming"} \cup OverStates) :
              more[i].says = new.state /\ \A j \in Saying(more, {"streaming"} \cup OverStates) : j <= i
  BY <1>1, <1>2, <1>3, <1>4 DEF SessionTold
<1>. QED  BY <1>1, <1>2, <1>4, <1>5, <1>6, <1>7 DEF SessionTold, more, entry

\* The entry of a change of state.
LEMMA ChangeTold ==
    ASSUME NEW session \in Sessions, NEW stream \in Seq(Entries), SessionTold(session, stream), session.state \in ActiveStates,
           NEW to \in {"streaming"} \cup OverStates,
           NEW new \in Sessions, new.state = to, new.token = session.token, new.last = session.last
    PROVE  SessionTold(new, Append(stream, [says |-> to]))
<1> DEFINE entry == [says |-> to]
           more == Append(stream, entry)
           k == Len(stream) + 1
<1>0. entry \in Entries /\ entry.says = to /\ to \notin {"initialized", "event", "resumed", "none"}
  BY DEF Entries, ActiveStates, OverStates
<1>1. stream # << >> /\ Saying(stream, OverStates) = {}
  BY NotOver
<1> HIDE DEF entry
<1>2. /\ more \in Seq(Entries) /\ Len(more) = k /\ more # << >> /\ more[k] = entry
      /\ k \in Nat /\ k > 1 /\ \A i \in DOMAIN stream : more[i] = stream[i] /\ i \in Nat /\ i < k
      /\ \A words : Saying(more, words) = Saying(stream, words) \cup (IF entry.says \in words THEN {k} ELSE {})
  BY <1>0, <1>1, OneMoreEntry
<1>3. \A words : Saying(stream, words) \subseteq DOMAIN stream
  BY DEF Saying
<1> HIDE DEF more, k
<1>4. /\ Saying(more, {"initialized"}) = Saying(stream, {"initialized"})
      /\ Saying(more, {"event"}) = Saying(stream, {"event"})
      /\ Saying(more, {"resumed"}) = Saying(stream, {"resumed"})
      /\ Saying(more, OverStates) \subseteq {Len(more)}
      /\ Saying(more, {"streaming"} \cup OverStates) = Saying(stream, {"streaming"} \cup OverStates) \cup {k}
  <2>1. /\ to \notin {"initialized"} /\ to \notin {"event"} /\ to \notin {"resumed"}
    BY <1>0
  <2>2. Saying(more, OverStates) \subseteq {k}
    BY <1>1, <1>2
  <2>3. Saying(more, {"streaming"} \cup OverStates) = Saying(stream, {"streaming"} \cup OverStates) \cup {k}
    BY <1>0, <1>2
  <2>4. /\ Saying(more, {"initialized"}) = Saying(stream, {"initialized"})
        /\ Saying(more, {"event"}) = Saying(stream, {"event"})
        /\ Saying(more, {"resumed"}) = Saying(stream, {"resumed"})
    <3>1. ASSUME NEW words, to \notin words PROVE Saying(more, words) = Saying(stream, words)
      <4>1. Saying(more, words) = Saying(stream, words) \cup (IF entry.says \in words THEN {k} ELSE {})
        BY <1>2, Zenon
      <4>. QED  BY <1>0, <3>1, <4>1
    <3>. QED  BY <2>1, <3>1
  <2>. QED  BY <1>2, <2>2, <2>3, <2>4
<1>5. /\ [i \in Saying(more, {"event"}) |-> more[i].number] = [i \in Saying(stream, {"event"}) |-> stream[i].number]
      /\ [i \in Saying(more, {"resumed"}) |-> more[i].token] = [i \in Saying(stream, {"resumed"}) |-> stream[i].token]
  BY <1>2, <1>3, <1>4
<1>6. CountedTo([i \in Saying(more, {"event"}) |-> more[i].number], new.last)
      /\ new.token > 0 /\ CountedTo([i \in Saying(more, {"resumed"}) |-> more[i].token], new.token - 1)
  BY <1>1, <1>5 DEF SessionTold
<1>7. /\ Saying(more, {"streaming"} \cup OverStates) # {}
      /\ \E i \in Saying(more, {"streaming"} \cup OverStates) :
              more[i].says = new.state /\ \A j \in Saying(more, {"streaming"} \cup OverStates) : j <= i
  <2>1. k \in Saying(more, {"streaming"} \cup OverStates) /\ more[k].says = new.state
        /\ \A j \in Saying(more, {"streaming"} \cup OverStates) : j <= k
    BY <1>0, <1>2, <1>3, <1>4
  <2>. QED  BY <2>1
<1>8. Saying(more, {"initialized"}) = {1} /\ new.state # "none"
  BY <1>0, <1>1, <1>4 DEF SessionTold
<1>. QED  BY <1>2, <1>4, <1>6, <1>7, <1>8 DEF SessionTold, more, entry

\* The first entry of a session.
LEMMA OpenTold == SessionTold([state |-> "ready", token |-> 1, last |-> 0], <<[says |-> "initialized"]>>)
<1> DEFINE entry == [says |-> "initialized"]
           stream == <<entry>>
<1>0. entry \in Entries /\ entry.says = "initialized"
  BY DEF Entries
<1> HIDE DEF entry
<1>1. DOMAIN stream = {1} /\ stream[1] = entry /\ Len(stream) = 1 /\ stream # << >>
  OBVIOUS
<1> HIDE DEF stream
<1>2. /\ Saying(stream, {"initialized"}) = {1} /\ Saying(stream, {"event"}) = {} /\ Saying(stream, {"resumed"}) = {}
      /\ Saying(stream, OverStates) = {} /\ Saying(stream, {"streaming"} \cup OverStates) = {}
  BY <1>0, <1>1 DEF Saying, OverStates
<1>3. \A f : DOMAIN f = {} => CountedTo(f, 0)
  BY DEF CountedTo
<1>. QED  BY <1>1, <1>2, <1>3 DEF SessionTold, stream, entry

\* Nothing was opened, submitted or said.
LEMMA GatewayInvInit == GatewayInit => GatewayInv
<1> SUFFICES ASSUME GatewayInit PROVE GatewayInv
  OBVIOUS
<1>1. NoSession \in Sessions /\ NoSession.state = "none" /\ NoRequest.state = "none" /\ NoRequest.proposed = FALSE
  BY DEF NoSession, Sessions, NoRequest
<1>2. << >> \in Seq(Entries)
  OBVIOUS
<1>3. GatewayTypeOK
  BY <1>1, <1>2 DEF GatewayInit, GatewayTypeOK, NoRequest
<1>4. SessionTold(NoSession, << >>) /\ RequestTold(NoRequest, << >>)
  BY <1>1 DEF SessionTold, RequestTold
<1>5. StreamsTellAll
  BY <1>4 DEF GatewayInit, StreamsTellAll
<1>. QED  BY <1>3, <1>5 DEF GatewayInit, GatewayInv

\* A step that changes no record and no stream keeps the invariant.
LEMMA GatewayCallMoves ==
    ASSUME GatewayInv, NEW c \in Callers, NEW call \in GatewayCalls \cup {GwIdle}, ycall' = [ycall EXCEPT ![c] = call],
           known' \in [Offers -> SUBSET Nat], UNCHANGED <<runtime, allowed, sessions, card, requests, audit>>
    PROVE  GatewayInv'
BY DEF GatewayInv, GatewayTypeOK, StreamsTellAll

\* A transaction that writes a session and says so.
LEMMA SessionMoves ==
    ASSUME GatewayInv, NEW c \in Callers, NEW call \in GatewayCalls \cup {GwIdle}, ycall' = [ycall EXCEPT ![c] = call],
           NEW o \in Offers, NEW new \in Sessions, NEW stream \in Seq(Entries), new.state # "none",
           sessions' = [sessions EXCEPT ![o] = new], audit' = [audit EXCEPT ![o] = stream], SessionTold(new, stream),
           UNCHANGED <<runtime, allowed, card, requests, known>>
    PROVE  GatewayInv'
<1>0. GatewayTypeOK
  BY DEF GatewayInv
<1>1. GatewayTypeOK'
  BY <1>0 DEF GatewayTypeOK
<1>2. sessions'[o] = new /\ audit'[o] = stream /\ \A q \in Offers : q # o => sessions'[q] = sessions[q] /\ audit'[q] = audit[q]
  BY <1>0 DEF GatewayTypeOK
<1>3. \A r \in RequestIds : audit'[r] = audit[r]
  BY <1>0, GatewayAssumption DEF GatewayTypeOK
<1>4. StreamsTellAll'
  BY <1>2, <1>3 DEF GatewayInv, StreamsTellAll
<1>. QED  BY <1>1, <1>2, <1>4 DEF GatewayInv

\* A transaction that writes a request and says so.
LEMMA RequestMoves ==
    ASSUME GatewayInv, NEW c \in Callers, GwEnd(c), NEW r \in RequestIds,
           NEW new \in [state : {"none", "quarantined", "cancelled"}, proposed : BOOLEAN], NEW stream \in Seq(Entries),
           requests' = [requests EXCEPT ![r] = new], audit' = [audit EXCEPT ![r] = stream], RequestTold(new, stream),
           UNCHANGED <<runtime, allowed, card, sessions, known>>
    PROVE  GatewayInv'
<1>0. GatewayTypeOK
  BY DEF GatewayInv
<1>1. GatewayTypeOK'
  BY <1>0 DEF GatewayTypeOK, GwEnd
<1>2. requests'[r] = new /\ audit'[r] = stream /\ \A q \in RequestIds : q # r => requests'[q] = requests[q] /\ audit'[q] = audit[q]
  BY <1>0 DEF GatewayTypeOK
<1>3. \A o \in Offers : audit'[o] = audit[o]
  BY <1>0, GatewayAssumption DEF GatewayTypeOK
<1>4. StreamsTellAll'
  BY <1>2, <1>3 DEF GatewayInv, StreamsTellAll
<1>. QED  BY <1>1, <1>4 DEF GatewayInv

\* append_event adds its entries one after the other.
LEMMA ToldInTurn ==
    ASSUME NEW stream \in Seq(Entries), NEW a \in Entries, NEW b \in Entries
    PROVE  /\ stream \o <<a>> = Append(stream, a)
           /\ stream \o (<<a>> \o << >>) = Append(stream, a)
           /\ stream \o (<<a>> \o <<b>>) = Append(Append(stream, a), b)
<1>1. stream \o <<a>> = Append(stream, a)
  OBVIOUS
<1>2. <<a>> \o << >> = <<a>>
  OBVIOUS
<1>3. stream \o (<<a>> \o <<b>>) = Append(Append(stream, a), b)
  <2>1. <<a>> \in Seq(Entries) /\ <<b>> \in Seq(Entries) /\ Append(stream, a) \in Seq(Entries)
    OBVIOUS
  <2>2. stream \o (<<a>> \o <<b>>) = (stream \o <<a>>) \o <<b>>
    BY <2>1, ConcatAssociative
  <2>3. Append(stream, a) \o <<b>> = Append(Append(stream, a), b)
    BY <2>1
  <2>. QED  BY <1>1, <2>2, <2>3
<1>. QED  BY <1>1, <1>2, <1>3

\* Every step of the gateways keeps the invariant.
LEMMA GatewayInvStep == GatewayInv /\ [GatewayNext]_yvars => GatewayInv'
<1> SUFFICES ASSUME GatewayInv, [GatewayNext]_yvars PROVE GatewayInv'
  OBVIOUS
<1>0. GatewayTypeOK /\ StreamsTellAll /\ GwIdle.step = "idle"
  BY DEF GatewayInv, GwIdle
<1>1. \A c \in Callers : ycall[c].step # "idle" => ycall[c] \in GatewayCalls
  BY <1>0 DEF GatewayTypeOK
<1>2. /\ \A call \in GatewayCalls : call.step \in {"initialize", "reply", "resume", "event", "terminate"} => call.at \in Offers
      /\ \A call \in GatewayCalls : call.step \in {"submit", "cancel"} => call.at \in RequestIds
      /\ \A call \in GatewayCalls : call.step \in {"reply", "resume"} => call.token \in Nat
      /\ \A call \in GatewayCalls : call.step = "event" => call.number \in Nat
      /\ \A call \in GatewayCalls : call.step = "terminate" => call.target \in OverStates
  BY DEF GatewayCalls
<1>3. \A o \in Offers : sessions[o] \in Sessions /\ audit[o] \in Seq(Entries) /\ SessionTold(sessions[o], audit[o])
  BY <1>0 DEF GatewayTypeOK, StreamsTellAll
<1>4. \A r \in RequestIds : requests[r] \in [state : {"none", "quarantined", "cancelled"}, proposed : BOOLEAN]
                            /\ RequestTold(requests[r], audit[r])
  BY <1>0 DEF GatewayTypeOK, StreamsTellAll
<1>5. \A c \in Callers : GwEnd(c) /\ UNCHANGED <<runtime, allowed, sessions, card, requests, audit, known>> => GatewayInv'
  BY <1>0, GatewayCallMoves DEF GwEnd, GatewayTypeOK
<1>6. CASE UNCHANGED yvars \/ RuntimeEnds \/ AuthorityRevoked
  BY <1>6 DEF yvars, RuntimeEnds, AuthorityRevoked, GatewayInv, GatewayTypeOK, StreamsTellAll
<1>7. ASSUME NEW c \in Callers, NEW call \in GatewayCalls, GwCall(c, call) PROVE GatewayInv'
  BY <1>0, <1>7, GatewayCallMoves DEF GwCall, GatewayTypeOK
<1>8. ASSUME NEW c \in Callers, NEW o \in Offers, Initialize(c, o) PROVE GatewayInv'
  BY <1>7, <1>8 DEF Initialize, GatewayCalls
<1>9. ASSUME NEW c \in Callers, NEW o \in Offers, NEW type \in EventTypes, NEW n \in 1..(sessions[o].last + 2), Arrives(c, o, type, n)
      PROVE  GatewayInv'
  <2>1. sessions[o].last \in Nat
    BY <1>3 DEF Sessions
  <2>2. n \in Nat
    BY <2>1
  <2>3. [step |-> "event", at |-> o, type |-> type, number |-> n] \in GatewayCalls
    BY <2>2 DEF GatewayCalls
  <2>. QED  BY <1>7, <1>9, <2>3 DEF Arrives
<1>10. ASSUME NEW c \in Callers, NEW o \in Offers, NEW t \in known[o], ResumeSession(c, o, t) PROVE GatewayInv'
  <2>1. t \in Nat
    BY <1>0 DEF GatewayTypeOK
  <2>2. [step |-> "resume", at |-> o, token |-> t] \in GatewayCalls
    BY <2>1 DEF GatewayCalls
  <2>. QED  BY <1>7, <1>10, <2>2 DEF ResumeSession
<1>11. ASSUME NEW c \in Callers, NEW o \in Offers, NEW target \in OverStates, Terminate(c, o, target) PROVE GatewayInv'
  BY <1>7, <1>11 DEF Terminate, GatewayCalls
<1>12. ASSUME NEW c \in Callers, NEW t \in Tokens, ProjectCard(c, t) PROVE GatewayInv'
  BY <1>12 DEF ProjectCard, GatewayInv, GatewayTypeOK, StreamsTellAll
<1>13. ASSUME NEW c \in Callers, NEW t \in Tokens, NEW r \in RequestIds, Submit(c, t, r) PROVE GatewayInv'
  BY <1>7, <1>13 DEF Submit, GatewayCalls
<1>14. ASSUME NEW c \in Callers, NEW r \in RequestIds, CancelTask(c, r) PROVE GatewayInv'
  BY <1>7, <1>14 DEF CancelTask, GatewayCalls
<1>15. ASSUME NEW c \in Callers, OpenSession(c) PROVE GatewayInv'
  <2> DEFINE o == ycall[c].at
             new == [state |-> "ready", token |-> 1, last |-> 0]
             call == [step |-> "reply", at |-> o, token |-> 1]
             stream == <<[says |-> "initialized"]>>
  <2>1. o \in Offers /\ UNCHANGED <<runtime, allowed, card, requests, known>>
    BY <1>1, <1>2, <1>15 DEF OpenSession
  <2>2. CASE First(o)
    <3>1. audit[o] = << >>
      <4>1. SessionTold(sessions[o], audit[o]) /\ sessions[o].state = "none"
        BY <1>3, <2>1, <2>2 DEF First, NoSession
      <4>. QED  BY <4>1 DEF SessionTold
    <3>2. sessions' = [sessions EXCEPT ![o] = new] /\ Told(o, stream) /\ ycall' = [ycall EXCEPT ![c] = call]
      BY <1>15, <2>2 DEF OpenSession
    <3>3. [says |-> "initialized"] \in Entries
      BY DEF Entries
    <3>4. stream \in Seq(Entries) /\ << >> \o stream = stream
      BY <3>3
    <3>5. audit' = [audit EXCEPT ![o] = stream]
      BY <3>1, <3>2, <3>4 DEF Told
    <3>6. call \in GatewayCalls /\ new \in Sessions /\ new.state # "none"
      BY <2>1 DEF GatewayCalls, Sessions, ActiveStates
    <3>7. SessionTold(new, stream)
      BY OpenTold
    <3> HIDE DEF new, call, stream
    <3>. QED  BY <2>1, <3>2, <3>4, <3>5, <3>6, <3>7, SessionMoves
  <2>3. CASE ~First(o)
    BY <1>5, <1>15, <2>1, <2>3 DEF OpenSession
  <2>. QED  BY <2>2, <2>3
<1>16. ASSUME NEW c \in Callers, Reply(c) PROVE GatewayInv'
  <2>1. ycall[c].at \in Offers /\ ycall[c].token \in Nat
    BY <1>1, <1>2, <1>16 DEF Reply
  <2>2. known' \in [Offers -> SUBSET Nat]
    BY <1>0, <1>16, <2>1 DEF Reply, GatewayTypeOK
  <2>. QED  BY <1>16, <2>2, GatewayCallMoves DEF Reply, GwEnd
<1>17. ASSUME NEW c \in Callers, AcceptEvent(c) PROVE GatewayInv'
  <2> DEFINE o == ycall[c].at
             s == sessions[o]
             n == ycall[c].number
             to == StateAfter(ycall[c].type)
             heard == [says |-> "event", number |-> n]
  <2>1. o \in Offers /\ n \in Nat /\ GwEnd(c) /\ UNCHANGED <<runtime, allowed, card, requests, known>>
    BY <1>1, <1>2, <1>17 DEF AcceptEvent
  <2>2. CASE ~Acceptable(o, ycall[c].type, n)
    BY <1>5, <1>17, <2>1, <2>2 DEF AcceptEvent
  <2>3. CASE Acceptable(o, ycall[c].type, n)
    <3>1. /\ sessions' = [sessions EXCEPT ![o].last = n, ![o].state = to]
          /\ Told(o, <<heard>> \o (IF to # s.state THEN <<[says |-> to]>> ELSE << >>))
      BY <1>17, <2>3 DEF AcceptEvent
    <3>2. s.state \in ActiveStates /\ n = s.last + 1
      BY <2>3 DEF Acceptable, InSequence
    <3>3. to \in {"streaming"} \cup OverStates
      BY DEF StateAfter, Ending, OverStates
    <3>4. s \in Sessions /\ audit[o] \in Seq(Entries) /\ SessionTold(s, audit[o])
      BY <1>3, <2>1
    <3> DEFINE mid == [s EXCEPT !.last = n]
               new == [s EXCEPT !.last = n, !.state = to]
               said == [says |-> to]
    <3> HIDE DEF to
    <3>5. /\ mid \in Sessions /\ mid.last = s.last + 1 /\ mid.state = s.state /\ mid.token = s.token
          /\ new \in Sessions /\ new.last = mid.last /\ new.state = to /\ new.token = mid.token
          /\ (to = s.state => new = mid)
      BY <2>1, <3>2, <3>3, <3>4 DEF Sessions, ActiveStates
    <3>6. sessions' = [sessions EXCEPT ![o] = new]
      BY <1>0, <2>1, <3>1 DEF GatewayTypeOK
    <3>7. heard \in Entries /\ said \in Entries
      BY <2>1, <3>3 DEF Entries, ActiveStates
    <3>8. heard = [says |-> "event", number |-> mid.last]
      BY <3>2, <3>5
    <3> HIDE DEF mid, new
    <3>9. SessionTold(mid, Append(audit[o], heard)) /\ Append(audit[o], heard) \in Seq(Entries)
      <4>1. SessionTold(mid, Append(audit[o], [says |-> "event", number |-> mid.last]))
        BY <3>2, <3>4, <3>5, EventTold
      <4>. QED  BY <3>4, <3>7, <3>8, <4>1
    <3>10. new.state # "none"
      BY <3>3, <3>5 DEF OverStates
    <3>11. CASE to = s.state
      <4>1. audit' = [audit EXCEPT ![o] = Append(audit[o], heard)]
        BY <3>1, <3>4, <3>7, <3>11, ToldInTurn DEF Told
      <4>. QED  BY <2>1, <3>5, <3>6, <3>9, <3>10, <3>11, <4>1, SessionMoves DEF GwEnd
    <3>12. CASE to # s.state
      <4> DEFINE stream == Append(Append(audit[o], heard), said)
      <4>1. audit' = [audit EXCEPT ![o] = stream]
        BY <3>1, <3>4, <3>7, <3>12, ToldInTurn DEF Told
      <4>2. SessionTold(new, stream) /\ stream \in Seq(Entries)
        <5>1. SessionTold(new, Append(Append(audit[o], heard), [says |-> to]))
          BY <3>2, <3>3, <3>5, <3>9, ChangeTold
        <5>. QED  BY <3>7, <3>9, <5>1
      <4> HIDE DEF stream
      <4>. QED  BY <2>1, <3>5, <3>6, <3>10, <4>1, <4>2, SessionMoves DEF GwEnd
    <3>. QED  BY <3>11, <3>12
  <2>. QED  BY <2>2, <2>3
<1>18. ASSUME NEW c \in Callers, Resumes(c) PROVE GatewayInv'
  <2> DEFINE o == ycall[c].at
             s == sessions[o]
             entry == [says |-> "resumed", token |-> ycall[c].token]
             call == [step |-> "reply", at |-> o, token |-> s.token + 1]
             new == [s EXCEPT !.token = s.token + 1]
             stream == Append(audit[o], entry)
  <2>1. o \in Offers /\ ycall[c].token \in Nat /\ UNCHANGED <<runtime, allowed, card, requests, known>>
    BY <1>1, <1>2, <1>18 DEF Resumes
  <2>2. s \in Sessions /\ audit[o] \in Seq(Entries) /\ SessionTold(s, audit[o])
    BY <1>3, <2>1
  <2>3. CASE GwEnd(c) /\ UNCHANGED <<sessions, audit>>
    BY <1>5, <2>1, <2>3
  <2>4. CASE /\ s.state \in ActiveStates /\ TokenCurrent(s, ycall[c].token)
             /\ sessions' = [sessions EXCEPT ![o].token = @ + 1] /\ Told(o, <<entry>>) /\ ycall' = [ycall EXCEPT ![c] = call]
    <3>1. new \in Sessions /\ new.token = s.token + 1 /\ new.state = s.state /\ new.last = s.last
      BY <2>2 DEF Sessions
    <3>2. sessions' = [sessions EXCEPT ![o] = new]
      BY <1>0, <2>1, <2>4 DEF GatewayTypeOK
    <3>3. entry \in Entries /\ entry = [says |-> "resumed", token |-> s.token]
      BY <2>1, <2>4 DEF Entries, TokenCurrent
    <3>4. call \in GatewayCalls
      BY <2>1, <2>2 DEF GatewayCalls, Sessions
    <3> HIDE DEF new, entry, call
    <3>5. audit' = [audit EXCEPT ![o] = stream] /\ stream \in Seq(Entries)
      <4>1. audit[o] \o <<entry>> = stream /\ stream \in Seq(Entries)
        BY <2>2, <3>3, ToldInTurn
      <4>. QED  BY <2>4, <4>1 DEF Told
    <3>6. SessionTold(new, stream)
      BY <2>2, <2>4, <3>1, <3>3, ResumeTold
    <3>7. new.state # "none"
      BY <2>4, <3>1 DEF ActiveStates
    <3> HIDE DEF stream
    <3>. QED  BY <2>1, <2>4, <3>1, <3>2, <3>4, <3>5, <3>6, <3>7, SessionMoves
  <2>. QED  BY <1>18, <2>3, <2>4 DEF Resumes
<1>19. ASSUME NEW c \in Callers, Terminates(c) PROVE GatewayInv'
  <2> DEFINE o == ycall[c].at
             s == sessions[o]
             to == ycall[c].target
             entry == [says |-> to]
             new == [s EXCEPT !.state = to]
             stream == Append(audit[o], entry)
  <2>1. o \in Offers /\ to \in OverStates /\ GwEnd(c) /\ UNCHANGED <<runtime, allowed, card, requests, known>>
    BY <1>1, <1>2, <1>19 DEF Terminates
  <2>2. s \in Sessions /\ audit[o] \in Seq(Entries) /\ SessionTold(s, audit[o])
    BY <1>3, <2>1
  <2>3. CASE UNCHANGED <<sessions, audit>>
    BY <1>5, <2>1, <2>3
  <2>4. CASE s.state \in ActiveStates /\ sessions' = [sessions EXCEPT ![o].state = to] /\ Told(o, <<entry>>)
    <3>1. new \in Sessions /\ new.token = s.token /\ new.state = to /\ new.last = s.last /\ to # "none"
      BY <2>1, <2>2 DEF Sessions, OverStates
    <3>2. sessions' = [sessions EXCEPT ![o] = new]
      BY <1>0, <2>1, <2>4 DEF GatewayTypeOK
    <3>3. entry \in Entries
      BY <2>1 DEF Entries
    <3> HIDE DEF new
    <3>4. audit' = [audit EXCEPT ![o] = stream] /\ stream \in Seq(Entries)
      <4>1. audit[o] \o <<entry>> = stream /\ stream \in Seq(Entries)
        BY <2>2, <3>3, ToldInTurn
      <4>. QED  BY <2>4, <4>1 DEF Told
    <3>5. SessionTold(new, stream)
      BY <2>1, <2>2, <2>4, <3>1, ChangeTold
    <3> HIDE DEF stream
    <3>. QED  BY <2>1, <3>1, <3>2, <3>4, <3>5, SessionMoves DEF GwEnd
  <2>. QED  BY <1>19, <2>3, <2>4 DEF Terminates
<1>20. ASSUME NEW c \in Callers, Quarantine(c) PROVE GatewayInv'
  <2> DEFINE r == ycall[c].at
             new == [state |-> "quarantined", proposed |-> TRUE]
             stream == <<[says |-> "quarantined"]>>
  <2>1. r \in RequestIds /\ GwEnd(c) /\ UNCHANGED <<runtime, allowed, sessions, card, known>>
    BY <1>1, <1>2, <1>20 DEF Quarantine
  <2>2. CASE UNCHANGED <<requests, audit>>
    BY <1>5, <2>1, <2>2
  <2>3. CASE requests[r] = NoRequest /\ requests' = [requests EXCEPT ![r] = new] /\ Told(r, stream)
    <3>1. audit[r] = << >>
      BY <1>4, <2>1, <2>3 DEF RequestTold, NoRequest
    <3>2. [says |-> "quarantined"] \in Entries
      BY DEF Entries
    <3>3. stream \in Seq(Entries) /\ << >> \o stream = stream
      BY <3>2
    <3>4. audit' = [audit EXCEPT ![r] = stream]
      BY <2>3, <3>1, <3>3 DEF Told
    <3>5. new \in [state : {"none", "quarantined", "cancelled"}, proposed : BOOLEAN] /\ RequestTold(new, stream)
      BY DEF RequestTold, NoRequest
    <3> HIDE DEF new, stream
    <3>. QED  BY <2>1, <2>3, <3>3, <3>4, <3>5, RequestMoves
  <2>. QED  BY <1>20, <2>2, <2>3 DEF Quarantine
<1>21. ASSUME NEW c \in Callers, Cancels(c) PROVE GatewayInv'
  <2> DEFINE r == ycall[c].at
             new == [requests[r] EXCEPT !.state = "cancelled"]
             a == [says |-> "quarantined"]
             b == [says |-> "cancelled"]
  <2>1. r \in RequestIds /\ GwEnd(c) /\ UNCHANGED <<runtime, allowed, sessions, card, known>>
    BY <1>1, <1>2, <1>21 DEF Cancels
  <2>2. CASE UNCHANGED <<requests, audit>>
    BY <1>5, <2>1, <2>2
  <2>3. CASE requests[r].state = "quarantined" /\ requests' = [requests EXCEPT ![r].state = "cancelled"] /\ Told(r, <<b>>)
    <3>1. audit[r] = <<a>> /\ requests[r].proposed = TRUE
      BY <1>4, <2>1, <2>3 DEF RequestTold, NoRequest
    <3>2. a \in Entries /\ b \in Entries
      BY DEF Entries, OverStates
    <3>3. <<a>> \o <<b>> = <<a, b>> /\ <<a, b>> \in Seq(Entries)
      <4> HIDE DEF a, b
      <4>1. <<a>> \in Seq(Entries) /\ <<b>> \in Seq(Entries) /\ <<a, b>> \in Seq(Entries)
        BY <3>2
      <4>2. /\ Len(<<a>> \o <<b>>) = 2 /\ (<<a>> \o <<b>>)[1] = a /\ (<<a>> \o <<b>>)[2] = b
            /\ <<a>> \o <<b>> \in Seq(Entries)
        BY <4>1
      <4>3. \A j \in 1..Len(<<a>> \o <<b>>) : j = 1 \/ j = 2
        BY <4>2
      <4>4. PICK both \in Seq(Entries) : both = <<a>> \o <<b>>
        BY <4>2
      <4>5. PICK pair \in Seq(Entries) : pair = <<a, b>>
        BY <4>1
      <4>6. Len(pair) = 2 /\ pair[1] = a /\ pair[2] = b
        BY <4>5
      <4>7. Len(both) = Len(pair) /\ \A j \in 1..Len(both) : both[j] = pair[j]
        BY <4>2, <4>3, <4>4, <4>6
      <4>8. both = pair
        BY <4>7, SeqEqual
      <4>. QED  BY <4>4, <4>5, <4>8
    <3>4. audit' = [audit EXCEPT ![r] = <<a, b>>]
      BY <2>3, <3>1, <3>3 DEF Told
    <3>5. /\ new \in [state : {"none", "quarantined", "cancelled"}, proposed : BOOLEAN]
          /\ new.state = "cancelled" /\ new.proposed = TRUE /\ requests' = [requests EXCEPT ![r] = new]
      BY <1>0, <1>4, <2>1, <2>3, <3>1 DEF GatewayTypeOK
    <3> HIDE DEF new
    <3>6. RequestTold(new, <<a, b>>)
      BY <3>5 DEF RequestTold, NoRequest
    <3>. QED  BY <2>1, <3>3, <3>4, <3>5, <3>6, RequestMoves
  <2>. QED  BY <1>21, <2>2, <2>3 DEF Cancels
<1>22. ASSUME NEW c \in Callers, GatewayDies(c) PROVE GatewayInv'
  BY <1>5, <1>22 DEF GatewayDies
<1>. QED  BY <1>6, <1>8, <1>9, <1>10, <1>11, <1>12, <1>13, <1>14, <1>15, <1>16, <1>17, <1>18, <1>19, <1>20, <1>21, <1>22
          DEF GatewayNext

\* The audit streams tell all that happened to sessions and requests
\* (AcpAdapter and A2aGateway).
THEOREM StreamsAlwaysTellAll == Spec => []StreamsTellAll
<1>1. Init => GatewayInv
  BY GatewayInvInit DEF Init
<1>2. GatewayInv /\ [Next]_vars => GatewayInv'
  BY GatewayInvStep, ServiceSteps
<1>3. GatewayInv => StreamsTellAll
  BY DEF GatewayInv
<1>. QED  BY <1>1, <1>2, <1>3, PTL DEF Spec
=============================================================================
