-------------------------- MODULE PromotionProofs --------------------------
(***************************************************************************)
(* Proofs about the promotion of ingested sources (Promotion), for any     *)
(* number of operations, sources, workers, calls and leases that run out.  *)
(*                                                                         *)
(* The argument: only Swap moves ledger/CURRENT, and a worker gets there   *)
(* through Plan, which found the active generation reconciled, and through *)
(* PublishGeneration.  What Plan found cannot be undone while CURRENT      *)
(* stays (Calm below), and once CURRENT has moved it is longer than the    *)
(* parent that every other worker planned on, so that parent never becomes *)
(* current again.  PromotionInv says this of every worker at work.         *)
(***************************************************************************)
EXTENDS Promotion, TLAPS

\* Every move but the commit: the pointer stays, published generations and
\* events stay, the views stay or catch up, and rows that reached their last
\* state keep it.
Calm ==
    /\ sourceOf' = sourceOf /\ current' = current
    /\ gens \subseteq gens' /\ events \subseteq events'
    /\ marker' \in {marker, current}
    /\ \A t \in DOMAIN wal : wal[t].state = "completed" => t \in DOMAIN wal' /\ wal'[t].state = "completed"
    /\ \A t \in DOMAIN outbox : outbox[t] = "appended" => t \in DOMAIN outbox' /\ outbox'[t] = "appended"

\* Success is newly reported only where the claim is in the ledger.
ReportsHonestly ==
    \A o \in Ops : oper'[o].state = "succeeded" => oper[o].state = "succeeded" \/ ClaimActive(o)

-----------------------------------------------------------------------------
(* The model's operators                                                    *)

\* A worker that is not idle has a complete work record (IngestPipeline's
\* locals between two durable writes).
LEMMA AtWork ==
    ASSUME PromotionTypeOK, NEW w \in Pipelines, work[w].step # "idle"
    PROVE  /\ work[w] \in Works /\ work[w] # NoWork
           /\ work[w].step \in Steps \ {"idle"} /\ work[w].op \in Ops /\ work[w].txn \in Txns
           /\ work[w].recovery \in BOOLEAN /\ work[w].prep \in Nat /\ work[w].src \in Nat /\ work[w].glob \in Nat
           /\ work[w].old \subseteq Txns
<1>1. work[w] \in Works /\ work[w] # NoWork
  BY DEF PromotionTypeOK, NoWork
<1>. QED  BY <1>1 DEF Works

\* An idle worker has no work record.
LEMMA WorksAreNotIdle ==
    \A x \in Works : x # NoWork /\ x.step # "idle"
BY DEF Works, NoWork

\* A transaction is an operation on top of a generation; its generation is one
\* longer than its parent (_generation_id over the parent and the operation).
LEMMA TxnShape ==
    ASSUME NEW t \in Txns
    PROVE  /\ t[1] \in Ops /\ t[2] \in Seq(Ops)
           /\ NextGen(t) \in Seq(Ops) /\ NextGen(t) = Append(t[2], t[1])
           /\ Len(t[2]) \in Nat /\ Len(NextGen(t)) = Len(t[2]) + 1 /\ NextGen(t) # t[2]
<1>1. t[1] \in Ops /\ t[2] \in Seq(Ops)
  BY DEF Txns
<1>2. Len(t[2]) \in Nat /\ Len(Append(t[2], t[1])) = Len(t[2]) + 1 /\ Append(t[2], t[1]) \in Seq(Ops)
  BY <1>1
<1>3. Append(t[2], t[1]) # t[2]
  BY <1>2
<1>. QED  BY <1>1, <1>2, <1>3 DEF NextGen

\* Goto changes nothing of a worker but its step.
LEMMA GotoMoves ==
    ASSUME PromotionTypeOK, NEW w \in Pipelines, work[w].step # "idle", NEW s \in Steps \ {"idle"}, Goto(w, s)
    PROVE  \E y \in Works : /\ y.step = s /\ y.op = work[w].op /\ y.txn = work[w].txn
                            /\ work' = [work EXCEPT ![w] = y]
<1> DEFINE y == [work[w] EXCEPT !.step = s]
<1>1. work[w] \in Works
  BY AtWork
<1>2. y \in Works /\ y.step = s /\ y.op = work[w].op /\ y.txn = work[w].txn
  BY <1>1 DEF Works
<1>3. work' = [work EXCEPT ![w] = y]
  BY DEF Goto
<1>. QED  BY <1>2, <1>3

\* Releasing leases keeps the lease table whole (the finally blocks of
\* _promote and _recover_committed).
LEMMA ReleasedType ==
    ASSUME PromotionTypeOK, NEW w \in Pipelines
    PROVE  Released(w) \in [LeaseKeys -> [fence : Nat, live : BOOLEAN]]
<1>1. lease \in [LeaseKeys -> [fence : Nat, live : BOOLEAN]]
  BY DEF PromotionTypeOK
<1>2. \A p \in LeaseKeys : [lease[p] EXCEPT !.live = FALSE] \in [fence : Nat, live : BOOLEAN]
  BY <1>1
<1>. QED  BY <1>1, <1>2 DEF Released

\* A call that ends leaves an idle worker and a whole lease table.
LEMMA EndMoves ==
    ASSUME PromotionTypeOK, NEW w \in Pipelines, End(w)
    PROVE  /\ work' = [work EXCEPT ![w] = NoWork]
           /\ lease' \in [LeaseKeys -> [fence : Nat, live : BOOLEAN]]
BY ReleasedType DEF End

\* Taking a lease that is free keeps the lease table whole (acquire_lease).
LEMMA AcquireType ==
    ASSUME PromotionTypeOK, NEW p \in LeaseKeys,
           lease' = [lease EXCEPT ![p] = [fence |-> @.fence + 1, live |-> TRUE]]
    PROVE  /\ lease[p].fence + 1 \in Nat
           /\ lease' \in [LeaseKeys -> [fence : Nat, live : BOOLEAN]]
BY DEF PromotionTypeOK

\* The leases of an operation are among the partitions.
LEMMA OpLeases ==
    ASSUME NEW o \in Ops
    PROVE  PrepareLease(o) \in LeaseKeys /\ SourceLease(o) \in LeaseKeys /\ LedgerCurrent \in LeaseKeys
BY DEF LeaseKeys

\* A transaction's state only moves forward, so that a completed transaction
\* stays completed (_advance_promotion_state, update_promotion_state).
LEMMA AdvancedKeeps ==
    ASSUME PromotionTypeOK, NEW t \in Txns, NEW s \in {"committing", "committed", "reconciling", "completed"}
    PROVE  /\ DOMAIN Advanced(t, s) = DOMAIN wal
           /\ Advanced(t, s) \in [DOMAIN wal -> [state : WalStates, stamp : Nat]]
           /\ \A u \in DOMAIN wal : wal[u].state = "completed" => Advanced(t, s)[u].state = "completed"
<1>1. wal \in [DOMAIN wal -> [state : WalStates, stamp : Nat]]
  BY DEF PromotionTypeOK
<1>2. s \in WalStates
  BY DEF WalStates
<1>3. CASE Order[wal[t].state] >= Order[s]
  BY <1>1, <1>3 DEF Advanced
<1>4. CASE ~(Order[wal[t].state] >= Order[s])
  <2>1. Advanced(t, s) = [wal EXCEPT ![t].state = s]
    BY <1>4 DEF Advanced
  <2>2. wal[t].state # "completed"
    BY <1>4 DEF Order
  <2>3. [wal EXCEPT ![t].state = s] \in [DOMAIN wal -> [state : WalStates, stamp : Nat]]
    BY <1>1, <1>2
  <2>4. \A u \in DOMAIN wal : wal[u].state = "completed" => [wal EXCEPT ![t].state = s][u].state = "completed"
    BY <1>1, <2>2
  <2>. QED  BY <1>1, <2>1, <2>3, <2>4
<1>. QED  BY <1>3, <1>4

\* After its commit an operation's claim is in the ledger.
LEMMA CommitCarriesClaim ==
    ASSUME PromotionTypeOK, NEW t \in Txns, current = NextGen(t)
    PROVE  ClaimActive(t[1])
<1>1. /\ t[1] \in Ops /\ t[2] \in Seq(Ops) /\ current = Append(t[2], t[1])
  BY TxnShape
<1>2. Len(current) \in DOMAIN current /\ current[Len(current)] = t[1]
  BY <1>1
<1>. QED  BY <1>2 DEF ClaimActive

-----------------------------------------------------------------------------
(* What stays true while the pointer stays                                  *)

\* A reconciled generation stays reconciled, and what holds of a worker goes on
\* holding, until the pointer moves.
LEMMA StandsLater ==
    ASSUME PromotionTypeOK, Calm
    PROVE  /\ Reconciled(current) => Reconciled(current)'
           /\ \A o : ClaimActive(o)' <=> ClaimActive(o)
           /\ \A x : WorkStands(x) => WorkStands(x)'
<1>1. Reconciled(current) => Reconciled(current)'
  <2>1. current' = current /\ events \subseteq events' /\ marker' \in {marker, current}
    BY DEF Calm
  <2>2. SUFFICES ASSUME current # <<>>, Reconciled(current)
                 PROVE  /\ TxnOf(current) \in events' /\ marker' = current
                        /\ TxnOf(current) \in DOMAIN wal' /\ wal'[TxnOf(current)].state = "completed"
                        /\ TxnOf(current) \in DOMAIN outbox' /\ outbox'[TxnOf(current)] = "appended"
    BY <2>1 DEF Reconciled, TxnOf
  <2> DEFINE t == TxnOf(current)
  <2>3. /\ t \in events /\ marker = current
        /\ t \in DOMAIN wal /\ wal[t].state = "completed"
        /\ t \in DOMAIN outbox /\ outbox[t] = "appended"
    BY <2>2 DEF Reconciled
  <2>. HIDE DEF t
  <2>4. /\ t \in events' /\ marker' = current
        /\ t \in DOMAIN wal' /\ wal'[t].state = "completed"
        /\ t \in DOMAIN outbox' /\ outbox'[t] = "appended"
    BY <2>1, <2>3 DEF Calm
  <2>. QED  BY <2>4 DEF t
<1>2. \A o : ClaimActive(o)' <=> ClaimActive(o)
  BY DEF Calm, ClaimActive
<1>3. ASSUME NEW x, WorkStands(x)
      PROVE  WorkStands(x)'
  BY <1>1, <1>2, <1>3 DEF Calm, WorkStands
<1>. QED  BY <1>1, <1>2, <1>3

\* One worker moves, or none, and the pointer stays.
LEMMA CalmStep ==
    ASSUME PromotionInv, PromotionTypeOK', Calm, ReportsHonestly,
           \/ work' = work
           \/ \E w \in Pipelines, y \in {NoWork} \cup Works :
                 /\ work' = [work EXCEPT ![w] = y]
                 /\ y = NoWork \/ WorkStands(y) \/ WorkStands(y)'
    PROVE  PromotionInv'
<1>1. PromotionTypeOK /\ SuccessIsCommitted
  BY DEF PromotionInv
<1>2. SuccessIsCommitted'
  <2>1. \A o : ClaimActive(o)' <=> ClaimActive(o)
    BY <1>1, StandsLater
  <2>2. ASSUME NEW o \in Ops, oper'[o].state = "succeeded"
        PROVE  ClaimActive(o)'
    <3>1. ClaimActive(o)
      BY <1>1, <2>2 DEF SuccessIsCommitted, ReportsHonestly
    <3>. QED  BY <2>1, <3>1
  <2>. QED  BY <2>2 DEF SuccessIsCommitted
<1>3. Len(marker') <= Len(current') /\ (Len(marker') = Len(current') => marker' = current')
  <2>1. Len(marker) <= Len(current) /\ (Len(marker) = Len(current) => marker = current)
    BY DEF PromotionInv
  <2>2. Len(current) \in Nat
    BY <1>1 DEF PromotionTypeOK
  <2>. QED  BY <2>1, <2>2 DEF Calm
<1>4. ASSUME NEW c \in Pipelines, work'[c] # NoWork
      PROVE  WorkStands(work[c])'
  <2>1. work \in [Pipelines -> {NoWork} \cup Works]
    BY <1>1 DEF PromotionTypeOK
  <2>2. \A x : WorkStands(x) => WorkStands(x)'
    BY <1>1, StandsLater
  <2>3. work[c] # NoWork => WorkStands(work[c])
    BY DEF PromotionInv
  <2>4. PICK z : z = work'[c]
    OBVIOUS
  <2>5. z = work[c] \/ WorkStands(z) \/ WorkStands(z)'
    BY <1>4, <2>1, <2>4
  <2>6. WorkStands(z) \/ WorkStands(z)'
    BY <1>4, <2>3, <2>4, <2>5
  <2>7. WorkStands(z)'
    BY <2>2, <2>6
  <2>. QED  BY <2>4, <2>7
<1>5. (\A c \in Pipelines : work[c] # NoWork => WorkStands(work[c]))'
  BY <1>4
<1>. QED  BY <1>2, <1>3, <1>5, Zenon DEF PromotionInv

\* The state after a step is well-formed when each part that moved is.
LEMMA TypeStep ==
    ASSUME PromotionTypeOK, sourceOf' = sourceOf,
           current' \in Seq(Ops), gens' \subseteq Seq(Ops), staged' \in [Ops -> Seq(Ops) \cup {NoGen}],
           wal' = wal \/ (wal' \in [DOMAIN wal' -> [state : WalStates, stamp : Nat]] /\ DOMAIN wal' \subseteq Txns),
           outbox' = outbox \/ (outbox' \in [DOMAIN outbox' -> {"pending", "appended"}] /\ DOMAIN outbox' \subseteq Txns),
           events' \subseteq Txns, marker' \in Seq(Ops),
           oper' \in [Ops -> [state : OpStates, result : BOOLEAN]],
           manifest' \in [Ops -> RunStates], approved' \subseteq Txns,
           lease' \in [LeaseKeys -> [fence : Nat, live : BOOLEAN]],
           work' \in [Pipelines -> {NoWork} \cup Works],
           starts' \in Nat, expiries' \in Nat
    PROVE  PromotionTypeOK'
<1>1. LeaseKeys' = LeaseKeys
  BY DEF LeaseKeys, LedgerCurrent, SourceLease, PrepareLease
<1>2. (lease \in [LeaseKeys -> [fence : Nat, live : BOOLEAN]])'
  BY <1>1
<1>3. /\ (wal \in [DOMAIN wal -> [state : WalStates, stamp : Nat]])' /\ (DOMAIN wal \subseteq Txns)'
      /\ (outbox \in [DOMAIN outbox -> {"pending", "appended"}])' /\ (DOMAIN outbox \subseteq Txns)'
  BY DEF PromotionTypeOK
<1>4. (sourceOf \in SourceMaps)'
  BY DEF PromotionTypeOK
<1>. QED  BY <1>2, <1>3, <1>4 DEF PromotionTypeOK

\* Before the plan: the preparation, the gate and the two leases.  Nothing that
\* the ledger depends on moves (ingest, _prepare, recover_run, _promote up to
\* its guard).
LEMMA EntrySteps ==
    ASSUME PromotionInv, sourceOf' = sourceOf, NEW w \in Pipelines,
           \/ \E o \in Ops : StartIngest(w, o) \/ StartRecover(w, o)
           \/ Stage(w) \/ RunPrepared(w) \/ Gate(w) \/ AwaitApproval(w) \/ AcquireSource(w) \/ AcquireGlobal(w)
           \/ Crash(w)
    PROVE  PromotionInv' /\ Calm
<1>1. PromotionTypeOK
  BY DEF PromotionInv
<1>0. ASSUME NEW o \in Ops
      PROVE  /\ \A t \in WalOf(o) : t \in Txns /\ t[1] = o
             /\ \A t \in Bundle(o) : t \in Txns /\ t[1] = o
  <2>1. \A t \in WalOf(o) : t \in Txns /\ t[1] = o
    BY <1>1 DEF WalOf, PromotionTypeOK
  <2>2. CASE staged[o] # NoGen
    BY <1>1, <2>1, <2>2 DEF Bundle, PromotionTypeOK, Txns
  <2>3. CASE staged[o] = NoGen
    BY <2>1, <2>3 DEF Bundle, FromWal
  <2>. QED  BY <2>1, <2>2, <2>3
<1>2. ASSUME NEW o \in Ops, StartIngest(w, o)
      PROVE  PromotionInv' /\ Calm
  <2>1. current \in Seq(Ops) /\ lease[PrepareLease(o)].fence + 1 \in Nat
        /\ lease' \in [LeaseKeys -> [fence : Nat, live : BOOLEAN]]
    BY <1>1, <1>2, OpLeases, AcquireType DEF PromotionTypeOK, StartIngest
  <2>2. PICK n \in Nat : n = lease[PrepareLease(o)].fence + 1
    BY <2>1
  <2>3. PICK y \in Works : /\ y.step \in {"stage", "gate"} /\ y.txn[1] = y.op
                           /\ work' = [work EXCEPT ![w] = y]
    <3>0. PICK s \in {"stage", "gate"}, t \in Txns : t[1] = o /\ Begin(w, o, s, t, FALSE, n)
      <4>1. CASE Begin(w, o, "stage", <<o, current>>, FALSE, n)
        BY <2>1, <4>1 DEF Txns
      <4>2. CASE \E t \in Bundle(o) : Begin(w, o, "gate", t, FALSE, n)
        BY <1>0, <4>2
      <4>. QED  BY <1>2, <2>2, <4>1, <4>2 DEF StartIngest
    <3> DEFINE y == [step |-> s, op |-> o, txn |-> t, recovery |-> FALSE,
                     prep |-> n, src |-> 0, glob |-> 0, old |-> {}]
    <3>1. y \in Works
      BY DEF Works, Steps
    <3>2. work' = [work EXCEPT ![w] = y]
      BY <3>0 DEF Begin
    <3>3. y.step \in {"stage", "gate"} /\ y.txn[1] = y.op
      BY <3>0
    <3>. HIDE DEF y
    <3>. QED  BY <3>1, <3>2, <3>3
  <2>4. WorkStands(y)
    BY <2>3 DEF WorkStands, Published, Planned, AfterCommit
  <2>5. Calm
    BY <1>1, <1>2 DEF StartIngest, Calm
  <2>6. oper' \in [Ops -> [state : OpStates, result : BOOLEAN]] /\ ReportsHonestly
    BY <1>1, <1>2 DEF StartIngest, PromotionTypeOK, OpStates, ReportsHonestly
  <2>7. manifest' \in [Ops -> RunStates]
    BY <1>1, <1>2 DEF StartIngest, PromotionTypeOK, RunStates
  <2>8. work' \in [Pipelines -> {NoWork} \cup Works]
    BY <1>1, <2>3 DEF PromotionTypeOK
  <2>9. PromotionTypeOK'
    <3>1. /\ UNCHANGED <<current, gens, staged, events, marker, wal, outbox, approved, expiries>>
          /\ starts' = starts + 1
      BY <1>2, Zenon DEF StartIngest
    <3>. QED  BY <1>1, <2>1, <2>6, <2>7, <2>8, <3>1, TypeStep DEF PromotionTypeOK
  <2>. QED  BY <2>3, <2>4, <2>5, <2>6, <2>9, CalmStep
<1>3. ASSUME NEW o \in Ops, StartRecover(w, o)
      PROVE  PromotionInv' /\ Calm
  <2>1. PICK t \in Txns, b \in BOOLEAN : t[1] = o /\ Begin(w, o, "source", t, b, 0)
    <3>3. CASE \E t \in WalOf(o) : Begin(w, o, "source", t, TRUE, 0)
      BY <1>0, <3>3
    <3>4. CASE \E t \in Bundle(o) : Begin(w, o, "source", t, FALSE, 0)
      BY <1>0, <3>4
    <3>. QED  BY <1>3, <3>3, <3>4, Zenon DEF StartRecover
  <2>2. PICK y \in Works : /\ y.step = "source" /\ y.op = o /\ y.txn = t
                           /\ work' = [work EXCEPT ![w] = y]
    <3> DEFINE y == [step |-> "source", op |-> o, txn |-> t, recovery |-> b,
                     prep |-> 0, src |-> 0, glob |-> 0, old |-> {}]
    <3>1. y \in Works
      BY DEF Works, Steps
    <3>2. work' = [work EXCEPT ![w] = y]
      BY <2>1 DEF Begin
    <3>. QED  BY <3>1, <3>2
  <2>3. WorkStands(y)
    BY <2>1, <2>2 DEF WorkStands, Published, Planned, AfterCommit
  <2>4. UNCHANGED <<current, gens, staged, events, marker, manifest, wal, outbox, oper, approved, lease, expiries>>
        /\ starts' = starts + 1
    BY <1>3, Zenon DEF StartRecover, files, tables
  <2>5. Calm /\ ReportsHonestly
    BY <2>4 DEF Calm, ReportsHonestly
  <2>6. work' \in [Pipelines -> {NoWork} \cup Works]
    BY <1>1, <2>2 DEF PromotionTypeOK
  <2>7. PromotionTypeOK'
    BY <1>1, <2>4, <2>6, TypeStep DEF PromotionTypeOK
  <2>. QED  BY <2>2, <2>3, <2>5, <2>7, CalmStep
<1>4. CASE Stage(w) \/ RunPrepared(w)
  <2>1. work[w].step \in {"stage", "staged"} /\ work[w].step # "idle"
    BY <1>4 DEF Stage, RunPrepared
  <2>2. work[w].op \in Ops /\ work[w].txn \in Txns /\ work[w] # NoWork
    BY <1>1, <2>1, AtWork
  <2>3. PICK y \in Works : /\ y.step \in {"staged", "gate"} /\ y.op = work[w].op /\ y.txn = work[w].txn
                           /\ work' = [work EXCEPT ![w] = y]
    BY <1>1, <1>4, <2>1, GotoMoves DEF Stage, RunPrepared, Steps
  <2>4. WorkStands(y)
    BY <2>2, <2>3 DEF PromotionInv, WorkStands, Published, Planned, AfterCommit
  <2>5. Calm /\ ReportsHonestly
    BY <1>4 DEF Stage, RunPrepared, Calm, ReportsHonestly, tables
  <2>6. work' \in [Pipelines -> {NoWork} \cup Works]
    BY <1>1, <2>3 DEF PromotionTypeOK
  <2>7. staged' \in [Ops -> Seq(Ops) \cup {NoGen}] /\ manifest' \in [Ops -> RunStates]
    BY <1>1, <1>4, <2>2, TxnShape DEF Stage, RunPrepared, PromotionTypeOK, RunStates
  <2>8. PromotionTypeOK'
    BY <1>1, <1>4, <2>6, <2>7, TypeStep DEF Stage, RunPrepared, PromotionTypeOK, tables
  <2>. QED  BY <2>3, <2>4, <2>5, <2>8, CalmStep
<1>5. CASE Gate(w) \/ AwaitApproval(w)
  <2>1. work[w].step \in {"gate", "await"} /\ work[w].step # "idle"
    BY <1>5 DEF Gate, AwaitApproval
  <2>2. work[w].op \in Ops /\ work[w].txn \in Txns /\ work[w] # NoWork
    BY <1>1, <2>1, AtWork
  <2>3. Calm
    BY <1>5 DEF Gate, AwaitApproval, Calm, files, tables
  <2>0. UNCHANGED <<current, gens, staged, events, marker, wal, outbox, approved, starts, expiries>>
    BY <1>5 DEF Gate, AwaitApproval, files, tables
  <2>4. /\ manifest' \in [Ops -> RunStates]
        /\ oper' \in [Ops -> [state : OpStates, result : BOOLEAN]]
        /\ ReportsHonestly
    <3>1. CASE UNCHANGED <<oper, manifest>>
      BY <1>1, <3>1 DEF PromotionTypeOK, ReportsHonestly
    <3>2. CASE manifest' = [manifest EXCEPT ![work[w].op] = Awaiting] /\ oper' = oper
      BY <1>1, <3>2 DEF PromotionTypeOK, ReportsHonestly, Awaiting, RunStates
    <3>3. CASE /\ oper' = [oper EXCEPT ![work[w].op] = [state |-> Awaiting, result |-> FALSE]]
               /\ manifest' = manifest
      BY <1>1, <3>3 DEF PromotionTypeOK, ReportsHonestly, Awaiting, OpStates
    <3>. QED  BY <1>5, <3>1, <3>2, <3>3 DEF Gate, AwaitApproval, files, tables
  <2>5. CASE End(w)
    <3>1. /\ work' = [work EXCEPT ![w] = NoWork]
          /\ lease' \in [LeaseKeys -> [fence : Nat, live : BOOLEAN]]
      BY <1>1, <2>5, EndMoves
    <3>2. work' \in [Pipelines -> {NoWork} \cup Works]
      BY <1>1, <3>1 DEF PromotionTypeOK
    <3>3. PromotionTypeOK'
      BY <1>1, <2>0, <2>4, <3>1, <3>2, TypeStep DEF PromotionTypeOK
    <3>. QED  BY <2>3, <2>4, <3>1, <3>3, CalmStep
  <2>6. CASE (Goto(w, "source") \/ Goto(w, "await")) /\ UNCHANGED lease
    <3>1. PICK y \in Works : /\ y.step \in {"source", "await"} /\ y.op = work[w].op /\ y.txn = work[w].txn
                             /\ work' = [work EXCEPT ![w] = y]
      BY <1>1, <2>1, <2>6, GotoMoves DEF Steps
    <3>2. WorkStands(y)
      BY <2>2, <3>1 DEF PromotionInv, WorkStands, Published, Planned, AfterCommit
    <3>3. work' \in [Pipelines -> {NoWork} \cup Works]
      BY <1>1, <3>1 DEF PromotionTypeOK
    <3>4. PromotionTypeOK'
      BY <1>1, <2>0, <2>4, <2>6, <3>3, TypeStep DEF PromotionTypeOK
    <3>. QED  BY <2>3, <2>4, <3>1, <3>2, <3>4, CalmStep
  <2>. QED  BY <1>5, <2>5, <2>6 DEF Gate, AwaitApproval
<1>6. CASE AcquireSource(w) \/ AcquireGlobal(w)
  <2>1. work[w].step \in {"source", "global"} /\ work[w].step # "idle"
    BY <1>6 DEF AcquireSource, AcquireGlobal
  <2>2. work[w] \in Works /\ work[w].op \in Ops /\ work[w].txn \in Txns /\ work[w] # NoWork
    BY <1>1, <2>1, AtWork
  <2>3. UNCHANGED <<current, gens, staged, events, marker, manifest, wal, outbox, oper, approved, starts, expiries>>
    BY <1>6 DEF AcquireSource, AcquireGlobal, files, tables
  <2>4. Calm /\ ReportsHonestly
    BY <2>3 DEF Calm, ReportsHonestly
  <2>5. CASE End(w)
    <3>1. /\ work' = [work EXCEPT ![w] = NoWork]
          /\ lease' \in [LeaseKeys -> [fence : Nat, live : BOOLEAN]]
      BY <1>1, <2>5, EndMoves
    <3>2. work' \in [Pipelines -> {NoWork} \cup Works]
      BY <1>1, <3>1 DEF PromotionTypeOK
    <3>3. PromotionTypeOK'
      BY <1>1, <2>3, <3>1, <3>2, TypeStep DEF PromotionTypeOK
    <3>. QED  BY <2>4, <3>1, <3>3, CalmStep
  <2>6. CASE ~End(w)
    <3>1. PICK p \in LeaseKeys, s \in {"global", "check", "plan"}, n \in Nat :
              /\ lease' = [lease EXCEPT ![p] = [fence |-> @.fence + 1, live |-> TRUE]]
              /\ n = lease[p].fence + 1
              /\ \/ work' = [work EXCEPT ![w].src = n, ![w].step = s]
                 \/ work' = [work EXCEPT ![w].glob = n, ![w].step = s]
      <4>1. CASE AcquireSource(w)
        <5> DEFINE p == SourceLease(work[w].op)
        <5>1. p \in LeaseKeys
          BY <2>2, OpLeases
        <5>2. /\ lease' = [lease EXCEPT ![p] = [fence |-> @.fence + 1, live |-> TRUE]]
              /\ work' = [work EXCEPT ![w].src = lease[p].fence + 1, ![w].step = "global"]
          BY <2>6, <4>1 DEF AcquireSource
        <5>3. lease[p].fence + 1 \in Nat
          BY <1>1, <5>1, <5>2, AcquireType
        <5>. QED  BY <5>1, <5>2, <5>3
      <4>2. CASE AcquireGlobal(w)
        <5> DEFINE p == LedgerCurrent
                   s == IF work[w].recovery THEN "check" ELSE "plan"
        <5>1. p \in LeaseKeys
          BY <2>2, OpLeases
        <5>2. /\ lease' = [lease EXCEPT ![p] = [fence |-> @.fence + 1, live |-> TRUE]]
              /\ work' = [work EXCEPT ![w].glob = lease[p].fence + 1, ![w].step = s]
          BY <2>6, <4>2 DEF AcquireGlobal
        <5>3. lease[p].fence + 1 \in Nat
          BY <1>1, <5>1, <5>2, AcquireType
        <5>4. s \in {"global", "check", "plan"}
          OBVIOUS
        <5>. QED  BY <5>1, <5>2, <5>3, <5>4
      <4>. QED  BY <1>6, <4>1, <4>2
    <3>2. PICK y \in Works : /\ y.step = s /\ y.op = work[w].op /\ y.txn = work[w].txn
                             /\ work' = [work EXCEPT ![w] = y]
      <4>1. s \in Steps \ {"idle"}
        BY DEF Steps
      <4>2. CASE work' = [work EXCEPT ![w].src = n, ![w].step = s]
        <5> DEFINE y == [work[w] EXCEPT !.src = n, !.step = s]
        <5>1. y \in Works /\ y.step = s /\ y.op = work[w].op /\ y.txn = work[w].txn
          BY <2>2, <4>1 DEF Works
        <5>2. work' = [work EXCEPT ![w] = y]
          BY <1>1, <4>2 DEF PromotionTypeOK
        <5>. QED  BY <5>1, <5>2
      <4>3. CASE work' = [work EXCEPT ![w].glob = n, ![w].step = s]
        <5> DEFINE y == [work[w] EXCEPT !.glob = n, !.step = s]
        <5>1. y \in Works /\ y.step = s /\ y.op = work[w].op /\ y.txn = work[w].txn
          BY <2>2, <4>1 DEF Works
        <5>2. work' = [work EXCEPT ![w] = y]
          BY <1>1, <4>3 DEF PromotionTypeOK
        <5>. QED  BY <5>1, <5>2
      <4>. QED  BY <3>1, <4>2, <4>3
    <3>3. WorkStands(y)
      BY <2>2, <3>2 DEF PromotionInv, WorkStands, Published, Planned, AfterCommit
    <3>4. work' \in [Pipelines -> {NoWork} \cup Works]
      BY <1>1, <3>2 DEF PromotionTypeOK
    <3>5. lease' \in [LeaseKeys -> [fence : Nat, live : BOOLEAN]]
      BY <1>1, <3>1, AcquireType
    <3>6. PromotionTypeOK'
      BY <1>1, <2>3, <3>4, <3>5, TypeStep DEF PromotionTypeOK
    <3>. QED  BY <2>4, <3>2, <3>3, <3>6, CalmStep
  <2>. QED  BY <2>5, <2>6
<1>7. CASE Crash(w)
  <2>1. Calm /\ ReportsHonestly
    BY <1>7 DEF Crash, files, tables, Calm, ReportsHonestly
  <2>2. work' = [work EXCEPT ![w] = NoWork] /\ work' \in [Pipelines -> {NoWork} \cup Works]
    BY <1>1, <1>7 DEF Crash, PromotionTypeOK
  <2>3. PromotionTypeOK'
    BY <1>1, <1>7, <2>2, TypeStep DEF Crash, files, tables, PromotionTypeOK
  <2>. QED  BY <2>1, <2>2, <2>3, CalmStep
<1>. QED  BY <1>2, <1>3, <1>4, <1>5, <1>6, <1>7

\* The steps of _promote and _reconcile: the call ends, or the worker goes on to
\* a step for which it has what that step needs.
LEMMA WorkerStep ==
    ASSUME PromotionInv, Calm, ReportsHonestly, NEW w \in Pipelines, work[w].step # "idle",
           gens' \subseteq Seq(Ops), staged' \in [Ops -> Seq(Ops) \cup {NoGen}],
           wal' = wal \/ (wal' \in [DOMAIN wal' -> [state : WalStates, stamp : Nat]] /\ DOMAIN wal' \subseteq Txns),
           outbox' = outbox \/ (outbox' \in [DOMAIN outbox' -> {"pending", "appended"}] /\ DOMAIN outbox' \subseteq Txns),
           events' \subseteq Txns,
           oper' \in [Ops -> [state : OpStates, result : BOOLEAN]], manifest' \in [Ops -> RunStates],
           UNCHANGED <<approved, starts, expiries>>,
           \/ End(w)
           \/ /\ lease' = lease
              /\ \E y \in Works :
                    /\ work' = [work EXCEPT ![w] = y]
                    /\ y.txn[1] = y.op
                    /\ y.step \in Published => NextGen(y.txn) \in gens'
                    /\ y.step \in Planned => /\ Len(y.txn[2]) <= Len(current)
                                             /\ y.txn[2] = current => Reconciled(current)
                    /\ y.step \in AfterCommit \cup {"noop"} => ClaimActive(y.op)
    PROVE  PromotionInv'
<1>1. PromotionTypeOK
  BY DEF PromotionInv
<1>2. sourceOf' = sourceOf /\ current' \in Seq(Ops) /\ marker' \in Seq(Ops)
  BY <1>1 DEF Calm, PromotionTypeOK
<1>3. CASE End(w)
  <2>1. /\ work' = [work EXCEPT ![w] = NoWork]
        /\ lease' \in [LeaseKeys -> [fence : Nat, live : BOOLEAN]]
    BY <1>1, <1>3, EndMoves
  <2>2. work' \in [Pipelines -> {NoWork} \cup Works]
    BY <1>1, <2>1 DEF PromotionTypeOK
  <2>3. PromotionTypeOK'
    BY <1>1, <1>2, <2>1, <2>2, TypeStep DEF PromotionTypeOK
  <2>. QED  BY <2>1, <2>3, CalmStep
<1>4. CASE ~End(w)
  <2>1. PICK y \in Works :
            /\ work' = [work EXCEPT ![w] = y]
            /\ y.txn[1] = y.op
            /\ y.step \in Published => NextGen(y.txn) \in gens'
            /\ y.step \in Planned => /\ Len(y.txn[2]) <= Len(current)
                                     /\ y.txn[2] = current => Reconciled(current)
            /\ y.step \in AfterCommit \cup {"noop"} => ClaimActive(y.op)
    BY <1>4
  <2>2. lease' = lease
    BY <1>4
  <2>3. /\ current' = current
        /\ Reconciled(current) => Reconciled(current)'
        /\ \A o : ClaimActive(o)' <=> ClaimActive(o)
    BY <1>1, StandsLater DEF Calm
  <2>4. WorkStands(y)'
    <3>1. (y.step \in Published => NextGen(y.txn) \in gens)'
      BY <2>1 DEF NextGen, Published
    <3>2. (y.step \in Planned => /\ Len(y.txn[2]) <= Len(current)
                                 /\ y.txn[2] = current => Reconciled(current))'
      BY <2>1, <2>3 DEF Planned, Published
    <3>3. (y.step \in AfterCommit \cup {"noop"} => ClaimActive(y.op))'
      BY <2>1, <2>3 DEF AfterCommit
    <3>. QED  BY <2>1, <3>1, <3>2, <3>3 DEF WorkStands
  <2>5. work' \in [Pipelines -> {NoWork} \cup Works]
    BY <1>1, <2>1 DEF PromotionTypeOK
  <2>6. PromotionTypeOK'
    BY <1>1, <1>2, <2>2, <2>5, TypeStep DEF PromotionTypeOK
  <2>. QED  BY <2>1, <2>4, <2>6, CalmStep
<1>. QED  BY <1>3, <1>4

\* From the plan to the WAL's committing row: the plan looks at the active
\* generation, and every later step has what the commit will need (_promote,
\* _rebase_prepared, store_promotion, update_promotion_state).
LEMMA PlannedSteps ==
    ASSUME PromotionInv, sourceOf' = sourceOf, NEW w \in Pipelines,
           \/ Plan(w) \/ Noop(w) \/ RebaseUnlink(w) \/ RebaseBundle(w) \/ RebaseManifest(w) \/ PublishGeneration(w)
           \/ StoreWal(w) \/ StoreOutbox(w) \/ Supersede(w) \/ Committing(w)
    PROVE  PromotionInv' /\ Calm
<1>1. /\ PromotionTypeOK
      /\ gens \subseteq Seq(Ops) /\ staged \in [Ops -> Seq(Ops) \cup {NoGen}] /\ events \subseteq Txns
      /\ oper \in [Ops -> [state : OpStates, result : BOOLEAN]] /\ manifest \in [Ops -> RunStates]
      /\ current \in Seq(Ops)
  BY DEF PromotionInv, PromotionTypeOK
<1>2. work[w].step # "idle"
  BY DEF Plan, Noop, RebaseUnlink, RebaseBundle, RebaseManifest, PublishGeneration, StoreWal, StoreOutbox, Supersede, Committing
<1>3. /\ work[w] \in Works /\ work[w] # NoWork /\ work[w].op \in Ops /\ work[w].txn \in Txns
      /\ work[w].glob \in Nat /\ work[w].old \subseteq Txns
  BY <1>1, <1>2, AtWork
<1>4. WorkStands(work[w])
  BY <1>3 DEF PromotionInv
<1>5. /\ work[w].txn[1] \in Ops /\ work[w].txn[2] \in Seq(Ops) /\ NextGen(work[w].txn) \in Seq(Ops)
      /\ Len(work[w].txn[2]) \in Nat /\ Len(NextGen(work[w].txn)) = Len(work[w].txn[2]) + 1
      /\ NextGen(work[w].txn) # work[w].txn[2]
  BY <1>3, TxnShape
<1>6. CASE Plan(w)
  <2> DEFINE t == work[w].txn
             o == work[w].op
             own == t \in WalOf(o) /\ current = NextGen(t)
             early == {u \in WalOf(o) : wal[u].state \in {"prepared", "committing"}}
  <2>1. UNCHANGED <<current, gens, staged, events, marker, manifest, wal, outbox, oper, approved, starts, expiries>>
    BY <1>6 DEF Plan, files, tables
  <2>2. Calm /\ ReportsHonestly
    BY <2>1 DEF Calm, ReportsHonestly
  <2>3. early \subseteq Txns
    BY <1>1 DEF WalOf, PromotionTypeOK
  <2>4. \/ End(w)
        \/ /\ lease' = lease
           /\ \E y \in Works :
                 /\ work' = [work EXCEPT ![w] = y]
                 /\ y.txn[1] = y.op
                 /\ y.step \in Published => NextGen(y.txn) \in gens'
                 /\ y.step \in Planned => /\ Len(y.txn[2]) <= Len(current)
                                          /\ y.txn[2] = current => Reconciled(current)
                 /\ y.step \in AfterCommit \cup {"noop"} => ClaimActive(y.op)
    <3>1. t[1] = o
      BY <1>4 DEF WorkStands
    <3>2. CASE AlreadyActive(o) /\ Goto(w, "noop") /\ UNCHANGED lease
      <4>1. PICK y \in Works : /\ y.step = "noop" /\ y.op = o /\ y.txn = t
                               /\ work' = [work EXCEPT ![w] = y]
        BY <1>1, <1>2, <3>2, GotoMoves DEF Steps
      <4>. QED  BY <3>1, <3>2, <4>1 DEF AlreadyActive, Published, Planned, AfterCommit
    <3>3. CASE /\ own \/ Terminal(current)
               /\ current \in {t[2], NextGen(t)}
               /\ work' = [work EXCEPT ![w].step = "generation", ![w].old = early \ {t}]
               /\ UNCHANGED lease
      <4> DEFINE y == [work[w] EXCEPT !.step = "generation", !.old = early \ {t}]
      <4>1. y \in Works /\ y.step = "generation" /\ y.op = o /\ y.txn = t
        BY <1>3, <2>3 DEF Works, Steps
      <4>2. work' = [work EXCEPT ![w] = y]
        BY <1>1, <3>3 DEF PromotionTypeOK
      <4>3. Len(t[2]) <= Len(current)
        BY <1>5, <3>3
      <4>4. t[2] = current => Reconciled(current)
        BY <1>5, <3>3 DEF Terminal
      <4>. QED  BY <3>1, <3>3, <4>1, <4>2, <4>3, <4>4 DEF Published, Planned, AfterCommit
    <3>4. CASE /\ own \/ Terminal(current)
               /\ current \notin {t[2], NextGen(t)}
               /\ work' = [work EXCEPT ![w].step = "rebase", ![w].txn = <<o, current>>,
                                       ![w].old = IF t \in early THEN {t} ELSE {}]
               /\ UNCHANGED lease
      <4> DEFINE old == IF t \in early THEN {t} ELSE {}
                 y == [work[w] EXCEPT !.step = "rebase", !.txn = <<o, current>>, !.old = old]
      <4>1. old \subseteq Txns /\ <<o, current>> \in Txns
        BY <1>1, <1>3, <2>3 DEF Txns
      <4>2. y \in Works /\ y.step = "rebase" /\ y.op = o /\ y.txn = <<o, current>>
        BY <1>3, <4>1 DEF Works, Steps
      <4>3. work' = [work EXCEPT ![w] = y]
        BY <1>1, <3>4 DEF PromotionTypeOK
      <4>4. Reconciled(current) /\ Len(current) <= Len(current)
        BY <1>1, <3>4 DEF Terminal
      <4>5. y.txn[1] = o /\ y.txn[2] = current
        BY <4>2
      <4>6. y.step \notin Published /\ y.step \notin AfterCommit \cup {"noop"}
        BY <4>2 DEF Published, AfterCommit
      <4>. HIDE DEF y
      <4>. QED  BY <3>4, <4>2, <4>3, <4>4, <4>5, <4>6
    <3>. QED  BY <1>6, <3>2, <3>3, <3>4 DEF Plan
  <2>. QED  BY <1>1, <1>2, <2>1, <2>2, <2>4, WorkerStep
<1>7. CASE Noop(w)
  <2>1. work[w].step = "noop"
        /\ UNCHANGED <<current, gens, staged, events, marker, manifest, wal, outbox, approved, lease, starts, expiries>>
    BY <1>7 DEF Noop, files
  <2>2. ClaimActive(work[w].op) /\ work[w].txn[1] = work[w].op
    BY <1>4, <2>1 DEF WorkStands
  <2>3. oper' \in [Ops -> [state : OpStates, result : BOOLEAN]] /\ ReportsHonestly
    BY <1>1, <1>7, <2>2 DEF Noop, OpStates, ReportsHonestly
  <2>4. Calm
    BY <2>1 DEF Calm
  <2>5. PICK y \in Works : /\ y.step = "manifest" /\ y.op = work[w].op /\ y.txn = work[w].txn
                           /\ work' = [work EXCEPT ![w] = y]
    BY <1>1, <1>2, <1>7, GotoMoves DEF Noop, Steps
  <2>6. y.step \notin Published /\ y.step \notin Planned
    BY <2>5 DEF Published, Planned
  <2>. QED  BY <1>1, <1>2, <2>1, <2>2, <2>3, <2>4, <2>5, <2>6, WorkerStep
<1>8. CASE RebaseUnlink(w) \/ RebaseBundle(w)
  <2>1. /\ work[w].step \in {"rebase", "bundle"}
        /\ UNCHANGED <<current, gens, events, marker, manifest, wal, outbox, oper, approved, lease, starts, expiries>>
    BY <1>8 DEF RebaseUnlink, RebaseBundle, tables
  <2>2. staged' \in [Ops -> Seq(Ops) \cup {NoGen}]
    BY <1>1, <1>5, <1>8 DEF RebaseUnlink, RebaseBundle
  <2>3. Calm /\ ReportsHonestly
    BY <2>1 DEF Calm, ReportsHonestly
  <2>4. PICK y \in Works : /\ y.step \in {"bundle", "rebased"} /\ y.op = work[w].op /\ y.txn = work[w].txn
                           /\ work' = [work EXCEPT ![w] = y]
    <3>1. PICK s \in {"bundle", "rebased"} : Goto(w, s)
      BY <1>8 DEF RebaseUnlink, RebaseBundle
    <3>2. s \in Steps \ {"idle"}
      BY DEF Steps
    <3>. QED  BY <1>1, <1>2, <3>1, <3>2, GotoMoves
  <2>5. y.step \notin Published /\ y.step \notin AfterCommit \cup {"noop"}
    BY <2>4 DEF Published, AfterCommit
  <2>6. /\ work[w].txn[1] = work[w].op /\ Len(work[w].txn[2]) <= Len(current)
        /\ work[w].txn[2] = current => Reconciled(current)
    BY <1>4, <2>1 DEF WorkStands, Planned
  <2>. QED  BY <1>1, <1>2, <2>1, <2>2, <2>3, <2>4, <2>5, <2>6, WorkerStep
<1>9. CASE RebaseManifest(w)
  <2>1. /\ work[w].step = "rebased"
        /\ UNCHANGED <<current, gens, staged, events, marker, wal, outbox, oper, approved, starts, expiries>>
    BY <1>9 DEF RebaseManifest, tables
  <2>2. manifest' \in [Ops -> RunStates]
    BY <1>1, <1>5, <1>9 DEF RebaseManifest, RunStates
  <2>3. Calm /\ ReportsHonestly
    BY <2>1 DEF Calm, ReportsHonestly
  <2>4. CASE End(w)
    BY <1>1, <1>2, <2>1, <2>2, <2>3, <2>4, WorkerStep
  <2>5. CASE Goto(w, "generation") /\ UNCHANGED lease
    <3>1. PICK y \in Works : /\ y.step = "generation" /\ y.op = work[w].op /\ y.txn = work[w].txn
                             /\ work' = [work EXCEPT ![w] = y]
      BY <1>1, <1>2, <2>5, GotoMoves DEF Steps
    <3>2. y.step \notin Published /\ y.step \notin AfterCommit \cup {"noop"}
      BY <3>1 DEF Published, AfterCommit
    <3>3. /\ work[w].txn[1] = work[w].op /\ Len(work[w].txn[2]) <= Len(current)
          /\ work[w].txn[2] = current => Reconciled(current)
      BY <1>4, <2>1 DEF WorkStands, Planned
    <3>. QED  BY <1>1, <1>2, <2>1, <2>2, <2>3, <2>5, <3>1, <3>2, <3>3, WorkerStep
  <2>. QED  BY <1>9, <2>4, <2>5 DEF RebaseManifest
<1>10. CASE PublishGeneration(w)
  <2>1. /\ work[w].step = "generation" /\ gens' = gens \cup {NextGen(work[w].txn)}
        /\ UNCHANGED <<current, staged, events, marker, manifest, wal, outbox, oper, approved, lease, starts, expiries>>
    BY <1>10 DEF PublishGeneration, tables
  <2>2. gens' \subseteq Seq(Ops)
    BY <1>1, <1>5, <2>1
  <2>3. Calm /\ ReportsHonestly
    BY <2>1 DEF Calm, ReportsHonestly
  <2>4. PICK y \in Works : /\ y.step = "wal" /\ y.op = work[w].op /\ y.txn = work[w].txn
                           /\ work' = [work EXCEPT ![w] = y]
    BY <1>1, <1>2, <1>10, GotoMoves DEF PublishGeneration, Steps
  <2>5. y.step \notin AfterCommit \cup {"noop"} /\ NextGen(y.txn) \in gens'
    BY <2>1, <2>4 DEF AfterCommit
  <2>6. /\ work[w].txn[1] = work[w].op /\ Len(work[w].txn[2]) <= Len(current)
        /\ work[w].txn[2] = current => Reconciled(current)
    BY <1>4, <2>1 DEF WorkStands, Planned
  <2>. QED  BY <1>1, <1>2, <2>1, <2>2, <2>3, <2>4, <2>5, <2>6, WorkerStep
<1>11. CASE StoreWal(w)
  <2>1. /\ work[w].step = "wal"
        /\ UNCHANGED <<current, gens, staged, events, marker, manifest, outbox, oper, approved, lease, starts, expiries>>
    BY <1>11 DEF StoreWal, files
  <2> DEFINE row == [state |-> "prepared", stamp |-> work[w].glob]
  <2>2. /\ wal \in [DOMAIN wal -> [state : WalStates, stamp : Nat]] /\ DOMAIN wal \subseteq Txns
        /\ row \in [state : WalStates, stamp : Nat]
    BY <1>1, <1>3 DEF PromotionTypeOK, WalStates
  <2>3. \/ wal' = wal
        \/ /\ DOMAIN wal' = DOMAIN wal \cup {work[w].txn} /\ wal' \in [DOMAIN wal' -> [state : WalStates, stamp : Nat]]
           /\ \A u \in DOMAIN wal : wal'[u] = wal[u]
    <3>1. \/ wal' = wal
          \/ work[w].txn \notin DOMAIN wal /\ wal' = Put(wal, work[w].txn, row)
      BY <1>11 DEF StoreWal
    <3>. HIDE DEF row
    <3>. QED  BY <2>2, <3>1 DEF Put
  <2>4. Calm /\ ReportsHonestly
    BY <2>1, <2>3 DEF Calm, ReportsHonestly
  <2>5. PICK y \in Works : /\ y.step = "outbox" /\ y.op = work[w].op /\ y.txn = work[w].txn
                           /\ work' = [work EXCEPT ![w] = y]
    BY <1>1, <1>2, <1>11, GotoMoves DEF StoreWal, Steps
  <2>6. y.step \notin AfterCommit \cup {"noop"}
    BY <2>5 DEF AfterCommit
  <2>7. /\ work[w].txn[1] = work[w].op /\ Len(work[w].txn[2]) <= Len(current)
        /\ work[w].txn[2] = current => Reconciled(current)
        /\ NextGen(work[w].txn) \in gens
    BY <1>4, <2>1 DEF WorkStands, Planned, Published
  <2>8. wal' = wal \/ (wal' \in [DOMAIN wal' -> [state : WalStates, stamp : Nat]] /\ DOMAIN wal' \subseteq Txns)
    BY <1>3, <2>2, <2>3
  <2>. QED  BY <1>1, <1>2, <2>1, <2>4, <2>5, <2>6, <2>7, <2>8, WorkerStep
<1>12. CASE StoreOutbox(w)
  <2>1. /\ work[w].step = "outbox"
        /\ UNCHANGED <<current, gens, staged, events, marker, manifest, wal, oper, approved, lease, starts, expiries>>
    BY <1>12 DEF StoreOutbox, files
  <2>2. outbox \in [DOMAIN outbox -> {"pending", "appended"}] /\ DOMAIN outbox \subseteq Txns
    BY <1>1 DEF PromotionTypeOK
  <2>3. \/ outbox' = outbox
        \/ /\ DOMAIN outbox' = DOMAIN outbox \cup {work[w].txn} /\ outbox' \in [DOMAIN outbox' -> {"pending", "appended"}]
           /\ \A u \in DOMAIN outbox : outbox'[u] = outbox[u]
    <3>1. \/ outbox' = outbox
          \/ work[w].txn \notin DOMAIN outbox /\ outbox' = Put(outbox, work[w].txn, "pending")
      BY <1>12 DEF StoreOutbox
    <3>. QED  BY <2>2, <3>1 DEF Put
  <2>4. Calm /\ ReportsHonestly
    BY <2>1, <2>3 DEF Calm, ReportsHonestly
  <2>5. PICK y \in Works : /\ y.step = "supersede" /\ y.op = work[w].op /\ y.txn = work[w].txn
                           /\ work' = [work EXCEPT ![w] = y]
    BY <1>1, <1>2, <1>12, GotoMoves DEF StoreOutbox, Steps
  <2>6. y.step \notin AfterCommit \cup {"noop"}
    BY <2>5 DEF AfterCommit
  <2>7. /\ work[w].txn[1] = work[w].op /\ Len(work[w].txn[2]) <= Len(current)
        /\ work[w].txn[2] = current => Reconciled(current)
        /\ NextGen(work[w].txn) \in gens
    BY <1>4, <2>1 DEF WorkStands, Planned, Published
  <2>8. outbox' = outbox \/ (outbox' \in [DOMAIN outbox' -> {"pending", "appended"}] /\ DOMAIN outbox' \subseteq Txns)
    BY <1>3, <2>2, <2>3
  <2>. QED  BY <1>1, <1>2, <2>1, <2>4, <2>5, <2>6, <2>7, <2>8, WorkerStep
<1>13. CASE Supersede(w)
  <2>1. /\ work[w].step = "supersede"
        /\ UNCHANGED <<current, gens, staged, events, marker, manifest, outbox, oper, approved, starts, expiries>>
    BY <1>13 DEF Supersede, files
  <2>2. wal \in [DOMAIN wal -> [state : WalStates, stamp : Nat]] /\ DOMAIN wal \subseteq Txns
    BY <1>1 DEF PromotionTypeOK
  <2>3. CASE End(w) /\ UNCHANGED wal
    <3>1. Calm /\ ReportsHonestly
      BY <2>1, <2>3 DEF Calm, ReportsHonestly
    <3>. QED  BY <1>1, <1>2, <2>1, <2>3, <3>1, WorkerStep
  <2>4. CASE /\ \A u \in work[w].old : wal[u].state \in {"prepared", "committing", "aborted"}
             /\ wal' = [u \in DOMAIN wal |->
                           IF u \in work[w].old THEN [wal[u] EXCEPT !.state = "aborted"] ELSE wal[u]]
             /\ Goto(w, "committing") /\ UNCHANGED lease
    <3>1. \A u \in DOMAIN wal : [wal[u] EXCEPT !.state = "aborted"] \in [state : WalStates, stamp : Nat]
      BY <2>2 DEF WalStates
    <3>2. /\ DOMAIN wal' = DOMAIN wal /\ wal' \in [DOMAIN wal -> [state : WalStates, stamp : Nat]]
          /\ \A u \in DOMAIN wal : wal[u].state = "completed" => wal'[u] = wal[u]
      BY <2>2, <2>4, <3>1
    <3>3. Calm /\ ReportsHonestly
      BY <2>1, <3>2 DEF Calm, ReportsHonestly
    <3>4. PICK y \in Works : /\ y.step = "committing" /\ y.op = work[w].op /\ y.txn = work[w].txn
                             /\ work' = [work EXCEPT ![w] = y]
      BY <1>1, <1>2, <2>4, GotoMoves DEF Steps
    <3>5. y.step \notin AfterCommit \cup {"noop"}
      BY <3>4 DEF AfterCommit
    <3>6. /\ work[w].txn[1] = work[w].op /\ Len(work[w].txn[2]) <= Len(current)
          /\ work[w].txn[2] = current => Reconciled(current)
          /\ NextGen(work[w].txn) \in gens
      BY <1>4, <2>1 DEF WorkStands, Planned, Published
    <3>7. lease' = lease
      BY <2>4
    <3>8. wal' \in [DOMAIN wal' -> [state : WalStates, stamp : Nat]] /\ DOMAIN wal' \subseteq Txns
      BY <2>2, <3>2
    <3>. QED  BY <1>1, <1>2, <2>1, <3>3, <3>4, <3>5, <3>6, <3>7, <3>8, WorkerStep
  <2>. QED  BY <1>13, <2>3, <2>4, Zenon DEF Supersede
<1>14. CASE Committing(w)
  <2> DEFINE t == work[w].txn
  <2>1. /\ work[w].step = "committing"
        /\ UNCHANGED <<current, gens, staged, events, marker, manifest, outbox, oper, approved, starts, expiries>>
    BY <1>14 DEF Committing, files
  <2>2. /\ t[1] = work[w].op /\ Len(t[2]) <= Len(current)
        /\ t[2] = current => Reconciled(current)
        /\ NextGen(t) \in gens
    BY <1>4, <2>1 DEF WorkStands, Planned, Published
  <2>3. CASE End(w) /\ UNCHANGED wal
    <3>1. Calm /\ ReportsHonestly
      BY <2>1, <2>3 DEF Calm, ReportsHonestly
    <3>. QED  BY <1>1, <1>2, <2>1, <2>3, <3>1, WorkerStep
  <2>4. CASE wal' = Advanced(t, "committing") /\ Goto(w, "swap") /\ UNCHANGED lease
    <3>1. /\ DOMAIN wal' = DOMAIN wal /\ wal' \in [DOMAIN wal -> [state : WalStates, stamp : Nat]]
          /\ \A u \in DOMAIN wal : wal[u].state = "completed" => wal'[u].state = "completed"
      BY <1>1, <1>3, <2>4, AdvancedKeeps
    <3>2. Calm /\ ReportsHonestly
      BY <2>1, <3>1 DEF Calm, ReportsHonestly
    <3>3. PICK y \in Works : /\ y.step = "swap" /\ y.op = work[w].op /\ y.txn = t
                             /\ work' = [work EXCEPT ![w] = y]
      BY <1>1, <1>2, <2>4, GotoMoves DEF Steps
    <3>4. y.step \notin AfterCommit \cup {"noop"}
      BY <3>3 DEF AfterCommit
    <3>5. lease' = lease
      BY <2>4
    <3>6. wal' \in [DOMAIN wal' -> [state : WalStates, stamp : Nat]] /\ DOMAIN wal' \subseteq Txns
      BY <1>1, <3>1 DEF PromotionTypeOK
    <3>. QED  BY <1>1, <1>2, <2>1, <2>2, <3>2, <3>3, <3>4, <3>5, <3>6, WorkerStep
  <2>5. CASE current = NextGen(t) /\ Goto(w, "committed") /\ UNCHANGED <<wal, lease>>
    <3>1. Calm /\ ReportsHonestly
      BY <2>1, <2>5 DEF Calm, ReportsHonestly
    <3>2. ClaimActive(work[w].op)
      BY <1>1, <1>3, <2>2, <2>5, CommitCarriesClaim
    <3>3. PICK y \in Works : /\ y.step = "committed" /\ y.op = work[w].op /\ y.txn = t
                             /\ work' = [work EXCEPT ![w] = y]
      BY <1>1, <1>2, <2>5, GotoMoves DEF Steps
    <3>4. y.step \notin Published /\ y.step \notin Planned
      BY <3>3 DEF Published, Planned
    <3>. QED  BY <1>1, <1>2, <2>1, <2>2, <2>5, <3>1, <3>2, <3>3, <3>4, WorkerStep
  <2>. QED  BY <1>14, <2>3, <2>4, <2>5, Zenon DEF Committing
<1>. QED  BY <1>6, <1>7, <1>8, <1>9, <1>10, <1>11, <1>12, <1>13, <1>14

\* The canonical commit.  The new generation is published, its parent is the
\* active generation and reconciled, and no worker's parent becomes active.
LEMMA SwapStep ==
    ASSUME PromotionInv, sourceOf' = sourceOf, NEW w \in Pipelines, Swap(w)
    PROVE  /\ PromotionInv' /\ marker' = marker
           /\ current' # current => /\ current' \in gens /\ Reconciled(current)
                                    /\ \E o \in Ops : current' = Append(current, o)
<1> DEFINE t == work[w].txn
<1>1. PromotionTypeOK /\ current \in Seq(Ops) /\ SuccessIsCommitted
  BY DEF PromotionInv, PromotionTypeOK
<1>2. work[w].step = "swap" /\ work[w].step # "idle"
  BY DEF Swap
<1>3. UNCHANGED <<gens, staged, events, marker, manifest, wal, outbox, oper, approved, starts, expiries>>
  BY DEF Swap, files, tables
<1>4. work[w] \in Works /\ work[w] # NoWork /\ work[w].op \in Ops /\ t \in Txns
  BY <1>1, <1>2, AtWork
<1>5. WorkStands(work[w])
  BY <1>4 DEF PromotionInv
<1>6. /\ t[1] = work[w].op /\ Len(t[2]) <= Len(current)
      /\ t[2] = current => Reconciled(current)
      /\ NextGen(t) \in gens
  BY <1>2, <1>5 DEF WorkStands, Planned, Published
<1>7. CASE End(w) /\ UNCHANGED current
  <2>1. Calm /\ ReportsHonestly
    BY <1>3, <1>7 DEF Calm, ReportsHonestly
  <2>2. PromotionInv'
    BY <1>1, <1>2, <1>3, <1>7, <2>1, WorkerStep DEF PromotionTypeOK
  <2>. QED  BY <1>3, <1>7, <2>2
<1>8. CASE current = t[2] /\ current' = NextGen(t) /\ Goto(w, "committed") /\ UNCHANGED lease
  <2>1. /\ t[1] \in Ops /\ current' = Append(current, t[1]) /\ current' \in gens /\ Reconciled(current)
    BY <1>4, <1>6, <1>8, TxnShape
  <2>2. /\ current' \in Seq(Ops) /\ Len(current) \in Nat /\ Len(current') = Len(current) + 1
        /\ DOMAIN current \subseteq DOMAIN current' /\ \A i \in DOMAIN current : current'[i] = current[i]
        /\ Len(current') \in DOMAIN current' /\ current'[Len(current')] = t[1]
    BY <1>1, <2>1
  <2>3. ASSUME NEW o, ClaimActive(o)
        PROVE  ClaimActive(o)'
    <3>1. PICK i \in DOMAIN current : sourceOf[current[i]] = sourceOf[o]
      BY <2>3 DEF ClaimActive
    <3>2. i \in DOMAIN current' /\ sourceOf'[current'[i]] = sourceOf'[o]
      BY <2>2, <3>1
    <3>. QED  BY <3>2 DEF ClaimActive
  <2>4. PICK m \in Ops : m = t[1] /\ ClaimActive(m)'
    <3>1. PICK m \in Ops : m = t[1]
      BY <2>1
    <3>2. ClaimActive(m)'
      BY <2>2, <3>1 DEF ClaimActive
    <3>. QED  BY <3>1, <3>2
  <2>5. PICK y \in Works : /\ y.step = "committed" /\ y.op = work[w].op /\ y.txn = t
                           /\ work' = [work EXCEPT ![w] = y]
    BY <1>1, <1>2, <1>8, GotoMoves DEF Steps
  <2>6. WorkStands(y)'
    BY <1>6, <2>4, <2>5 DEF WorkStands, Published, Planned, AfterCommit
  <2>7. ASSUME NEW x \in Works, WorkStands(x)
        PROVE  WorkStands(x)'
    <3>1. x.txn[1] = x.op /\ x.txn \in Txns
      BY <2>7 DEF WorkStands, Works
    <3>2. (x.step \in Published => NextGen(x.txn) \in gens)'
      BY <1>3, <2>7 DEF WorkStands, Published, NextGen
    <3>3. Len(x.txn[2]) \in Nat
      BY <3>1, TxnShape
    <3>4. x.step \in Planned => Len(x.txn[2]) <= Len(current') /\ x.txn[2] # current'
      BY <2>2, <2>7, <3>3 DEF WorkStands
    <3>5. x.step \in AfterCommit \cup {"noop"} => ClaimActive(x.op)'
      BY <2>3, <2>7 DEF WorkStands
    <3>. QED  BY <3>1, <3>2, <3>4, <3>5 DEF WorkStands, Planned, AfterCommit
  <2>8. work' \in [Pipelines -> {NoWork} \cup Works]
    BY <1>1, <2>5 DEF PromotionTypeOK
  <2>9. PromotionTypeOK'
    BY <1>1, <1>3, <1>8, <2>2, <2>8, TypeStep DEF PromotionTypeOK
  <2>10. SuccessIsCommitted'
    BY <1>1, <1>3, <2>3 DEF SuccessIsCommitted
  <2>11. Len(marker') <= Len(current') /\ (Len(marker') = Len(current') => marker' = current')
    <3>1. Len(marker) <= Len(current) /\ Len(marker) \in Nat
      BY <1>1 DEF PromotionInv, PromotionTypeOK
    <3>. QED  BY <1>3, <2>2, <3>1
  <2>12. ASSUME NEW c \in Pipelines, work'[c] # NoWork
         PROVE  WorkStands(work[c])'
    <3>1. PICK z : z = work'[c]
      OBVIOUS
    <3>2. z = y \/ (z = work[c] /\ z \in Works /\ WorkStands(z))
      BY <1>1, <2>5, <2>12, <3>1 DEF PromotionInv, PromotionTypeOK
    <3>3. WorkStands(z)'
      BY <2>6, <2>7, <3>2
    <3>. QED  BY <3>1, <3>3
  <2>13. (\A c \in Pipelines : work[c] # NoWork => WorkStands(work[c]))'
    BY <2>12
  <2>14. PromotionInv'
    BY <2>9, <2>10, <2>11, <2>13, Zenon DEF PromotionInv
  <2>. QED  BY <1>3, <2>1, <2>14
<1>. QED  BY <1>7, <1>8 DEF Swap

\* After the commit: the transaction, the event, the views, the operation and
\* the run are brought in line with the ledger (_recover_committed, _reconcile).
LEMMA ReconcileSteps ==
    ASSUME PromotionInv, sourceOf' = sourceOf, NEW w \in Pipelines,
           \/ CheckCommitted(w) \/ Committed(w) \/ OperReconciling(w) \/ PublishEvent(w) \/ MarkAppended(w)
           \/ WalReconciling(w) \/ Materialize(w) \/ OperSucceeded(w) \/ WalCompleted(w) \/ RunSucceeded(w)
    PROVE  PromotionInv' /\ Calm
<1> DEFINE t == work[w].txn
           Rows == [state : WalStates, stamp : Nat]
<1>1. /\ PromotionTypeOK
      /\ gens \subseteq Seq(Ops) /\ staged \in [Ops -> Seq(Ops) \cup {NoGen}] /\ events \subseteq Txns
      /\ oper \in [Ops -> [state : OpStates, result : BOOLEAN]] /\ manifest \in [Ops -> RunStates]
      /\ wal \in [DOMAIN wal -> Rows] /\ DOMAIN wal \subseteq Txns
      /\ outbox \in [DOMAIN outbox -> {"pending", "appended"}] /\ DOMAIN outbox \subseteq Txns
  BY DEF PromotionInv, PromotionTypeOK
<1>2. work[w].step # "idle"
  BY DEF CheckCommitted, Committed, OperReconciling, PublishEvent, MarkAppended, WalReconciling, Materialize,
         OperSucceeded, WalCompleted, RunSucceeded
<1>3. work[w] \in Works /\ work[w] # NoWork /\ work[w].op \in Ops /\ t \in Txns
  BY <1>1, <1>2, AtWork
<1>4. /\ t[1] = work[w].op
      /\ work[w].step \in AfterCommit => ClaimActive(work[w].op)
  BY <1>3 DEF PromotionInv, WorkStands
\* A worker that reaches one of these steps has its claim in the ledger.
<1>5. ASSUME NEW s \in AfterCommit, Goto(w, s), lease' = lease, ClaimActive(work[w].op)
      PROVE  /\ lease' = lease
             /\ \E y \in Works :
                   /\ work' = [work EXCEPT ![w] = y]
                   /\ y.txn[1] = y.op
                   /\ y.step \in Published => NextGen(y.txn) \in gens'
                   /\ y.step \in Planned => /\ Len(y.txn[2]) <= Len(current)
                                            /\ y.txn[2] = current => Reconciled(current)
                   /\ y.step \in AfterCommit \cup {"noop"} => ClaimActive(y.op)
  <2>1. s \in Steps \ {"idle"} /\ s \notin Published /\ s \notin Planned
    BY DEF AfterCommit, Steps, Published, Planned
  <2>2. PICK y \in Works : /\ y.step = s /\ y.op = work[w].op /\ y.txn = t
                           /\ work' = [work EXCEPT ![w] = y]
    BY <1>1, <1>2, <1>5, <2>1, GotoMoves
  <2>. QED  BY <1>4, <1>5, <2>1, <2>2
<1>6. CASE CheckCommitted(w)
  <2>1. UNCHANGED <<current, gens, staged, events, marker, manifest, wal, outbox, oper, approved, starts, expiries>>
    BY <1>6 DEF CheckCommitted, files, tables
  <2>2. Calm /\ ReportsHonestly
    BY <2>1 DEF Calm, ReportsHonestly
  <2>3. CASE End(w)
    BY <1>1, <1>2, <2>1, <2>2, <2>3, WorkerStep
  <2>4. CASE CommittedWhole(work[w].op, t) /\ Goto(w, "committed") /\ UNCHANGED lease
    <3>1. ClaimActive(work[w].op)
      BY <1>1, <1>3, <1>4, <2>4, CommitCarriesClaim DEF CommittedWhole
    <3>. QED  BY <1>1, <1>2, <1>5, <2>1, <2>2, <2>4, <3>1, WorkerStep DEF AfterCommit
  <2>. QED  BY <1>6, <2>3, <2>4 DEF CheckCommitted
<1>7. CASE Committed(w) \/ WalReconciling(w) \/ WalCompleted(w)
  <2>1. /\ UNCHANGED <<current, gens, staged, events, marker, manifest, outbox, oper, approved, starts, expiries>>
        /\ work[w].step \in AfterCommit
    BY <1>7 DEF Committed, WalReconciling, WalCompleted, files, AfterCommit
  <2>2. CASE End(w) /\ UNCHANGED wal
    <3>1. Calm /\ ReportsHonestly
      BY <2>1, <2>2 DEF Calm, ReportsHonestly
    <3>. QED  BY <1>1, <1>2, <2>1, <2>2, <3>1, WorkerStep
  <2>3. CASE \E s \in {"committed", "reconciling", "completed"}, n \in AfterCommit :
                wal' = Advanced(t, s) /\ Goto(w, n) /\ lease' = lease
    <3>1. PICK s \in {"committed", "reconciling", "completed"}, n \in AfterCommit :
              wal' = Advanced(t, s) /\ Goto(w, n) /\ lease' = lease
      BY <2>3
    <3>2. /\ DOMAIN wal' = DOMAIN wal /\ wal' \in [DOMAIN wal -> Rows]
          /\ \A u \in DOMAIN wal : wal[u].state = "completed" => wal'[u].state = "completed"
      BY <1>1, <1>3, <3>1, AdvancedKeeps
    <3>3. Calm /\ ReportsHonestly
      BY <2>1, <3>2 DEF Calm, ReportsHonestly
    <3>4. wal' \in [DOMAIN wal' -> Rows] /\ DOMAIN wal' \subseteq Txns
      BY <1>1, <3>2
    <3>. QED  BY <1>1, <1>2, <1>4, <1>5, <2>1, <3>1, <3>3, <3>4, WorkerStep
  <2>4. \/ End(w) /\ UNCHANGED wal
        \/ \E s \in {"committed", "reconciling", "completed"}, n \in AfterCommit :
              wal' = Advanced(t, s) /\ Goto(w, n) /\ lease' = lease
    BY <1>7 DEF Committed, WalReconciling, WalCompleted, AfterCommit
  <2>. QED  BY <2>2, <2>3, <2>4
<1>8. CASE OperReconciling(w) \/ OperSucceeded(w)
  <2>1. /\ UNCHANGED <<current, gens, staged, events, marker, manifest, wal, outbox, approved, lease, starts, expiries>>
        /\ work[w].step \in AfterCommit
    BY <1>8 DEF OperReconciling, OperSucceeded, files, AfterCommit
  <2>2. PICK s \in {"reconciling", "succeeded"}, b \in BOOLEAN, n \in AfterCommit :
            oper' = [oper EXCEPT ![work[w].op] = [state |-> s, result |-> b]] /\ Goto(w, n)
    BY <1>8 DEF OperReconciling, OperSucceeded, AfterCommit
  <2>3. oper' \in [Ops -> [state : OpStates, result : BOOLEAN]] /\ ReportsHonestly
    BY <1>1, <1>4, <2>1, <2>2 DEF OpStates, ReportsHonestly
  <2>4. Calm
    BY <2>1 DEF Calm
  <2>. QED  BY <1>1, <1>2, <1>4, <1>5, <2>1, <2>2, <2>3, <2>4, WorkerStep
<1>9. CASE PublishEvent(w)
  <2>1. /\ UNCHANGED <<current, gens, staged, marker, manifest, wal, outbox, oper, approved, lease, starts, expiries>>
        /\ work[w].step \in AfterCommit /\ events' = events \cup {t} /\ Goto(w, "appended")
    BY <1>9 DEF PublishEvent, tables, AfterCommit
  <2>2. Calm /\ ReportsHonestly /\ events' \subseteq Txns
    BY <1>1, <1>3, <2>1 DEF Calm, ReportsHonestly
  <2>3. "appended" \in AfterCommit
    BY DEF AfterCommit
  <2>. QED  BY <1>1, <1>2, <1>4, <1>5, <2>1, <2>2, <2>3, WorkerStep
<1>10. CASE MarkAppended(w)
  <2>1. /\ UNCHANGED <<current, gens, staged, events, marker, manifest, wal, oper, approved, lease, starts, expiries>>
        /\ work[w].step \in AfterCommit /\ outbox' = [outbox EXCEPT ![t] = "appended"] /\ Goto(w, "walrec")
    BY <1>10 DEF MarkAppended, files, AfterCommit
  <2>2. /\ DOMAIN outbox' = DOMAIN outbox /\ outbox' \in [DOMAIN outbox' -> {"pending", "appended"}]
        /\ \A u \in DOMAIN outbox : outbox[u] = "appended" => outbox'[u] = "appended"
    BY <1>1, <2>1
  <2>3. Calm /\ ReportsHonestly
    BY <2>1, <2>2 DEF Calm, ReportsHonestly
  <2>4. "walrec" \in AfterCommit
    BY DEF AfterCommit
  <2>. QED  BY <1>1, <1>2, <1>4, <1>5, <2>1, <2>2, <2>3, <2>4, WorkerStep
<1>11. CASE Materialize(w)
  <2>1. /\ UNCHANGED <<current, gens, staged, events, manifest, wal, outbox, oper, approved, starts, expiries>>
        /\ work[w].step \in AfterCommit /\ marker' \in {marker, current}
    BY <1>11 DEF Materialize, tables, AfterCommit
  <2>2. Calm /\ ReportsHonestly
    BY <2>1 DEF Calm, ReportsHonestly
  <2>3. End(w) \/ (Goto(w, "succeeded") /\ lease' = lease)
    BY <1>11 DEF Materialize
  <2>4. "succeeded" \in AfterCommit
    BY DEF AfterCommit
  <2>. QED  BY <1>1, <1>2, <1>4, <1>5, <2>1, <2>2, <2>3, <2>4, WorkerStep
<1>12. CASE RunSucceeded(w)
  <2>1. /\ UNCHANGED <<current, gens, staged, events, marker, wal, outbox, oper, approved, starts, expiries>>
        /\ End(w) /\ manifest' \in [Ops -> RunStates]
    BY <1>1, <1>12 DEF RunSucceeded, tables, RunStates
  <2>2. Calm /\ ReportsHonestly
    BY <2>1 DEF Calm, ReportsHonestly
  <2>. QED  BY <1>1, <1>2, <2>1, <2>2, WorkerStep
<1>. QED  BY <1>6, <1>7, <1>8, <1>9, <1>10, <1>11, <1>12

\* Approvals come and go and leases run out; the ledger notices neither.
LEMMA WorldSteps ==
    ASSUME PromotionInv, sourceOf' = sourceOf,
           \/ \E p \in LeaseKeys : Expire(p)
           \/ \E o \in Ops : Approve(o) \/ ApprovalExpires(o)
    PROVE  PromotionInv' /\ Calm
<1>1. PromotionTypeOK
  BY DEF PromotionInv
<1>2. /\ UNCHANGED <<current, gens, staged, events, marker, manifest, wal, outbox, oper, work, starts>>
      /\ \/ /\ approved' = approved /\ expiries' = expiries + 1
            /\ \E p \in LeaseKeys : lease' = [lease EXCEPT ![p].live = FALSE]
         \/ /\ approved' \subseteq Txns /\ lease' = lease /\ expiries' = expiries
  <2>1. CASE \E p \in LeaseKeys : Expire(p)
    BY <2>1 DEF Expire, files, tables
  <2>2. ASSUME NEW o \in Ops, Approve(o)
        PROVE  approved' \subseteq Txns
    <3>1. <<o, staged[o]>> \in Txns /\ approved \subseteq Txns
      BY <1>1, <2>2 DEF Approve, PromotionTypeOK, Txns
    <3>. QED  BY <2>2, <3>1 DEF Approve
  <2>3. ASSUME NEW o \in Ops, ApprovalExpires(o)
        PROVE  approved' \subseteq Txns
    BY <1>1, <2>3 DEF ApprovalExpires, PromotionTypeOK
  <2>4. ASSUME NEW o \in Ops, Approve(o) \/ ApprovalExpires(o)
        PROVE  UNCHANGED <<current, gens, staged, events, marker, manifest, wal, outbox, oper, work, starts,
                           lease, expiries>>
    BY <2>4 DEF Approve, ApprovalExpires, files, tables
  <2>. QED  BY <2>1, <2>2, <2>3, <2>4
<1>3. lease' \in [LeaseKeys -> [fence : Nat, live : BOOLEAN]] /\ expiries' \in Nat /\ approved' \subseteq Txns
  <2>1. /\ lease \in [LeaseKeys -> [fence : Nat, live : BOOLEAN]] /\ expiries \in Nat /\ approved \subseteq Txns
    BY <1>1 DEF PromotionTypeOK
  <2>2. ASSUME NEW p \in LeaseKeys
        PROVE  [lease EXCEPT ![p].live = FALSE] \in [LeaseKeys -> [fence : Nat, live : BOOLEAN]]
    BY <2>1
  <2>. QED  BY <1>2, <2>1, <2>2
<1>4. Calm /\ ReportsHonestly
  BY <1>2 DEF Calm, ReportsHonestly
<1>5. PromotionTypeOK'
  BY <1>1, <1>2, <1>3, TypeStep DEF PromotionTypeOK
<1>. QED  BY <1>2, <1>4, <1>5, CalmStep

-----------------------------------------------------------------------------
(* The theorems                                                             *)

\* At first nothing is committed and nobody is at work.
LEMMA PromotionInvInit == PromotionInit => PromotionInv
<1> SUFFICES ASSUME PromotionInit PROVE PromotionInv
  OBVIOUS
<1>1. PromotionTypeOK
  <2>1. <<>> \in Seq(Ops) /\ sourceOf \in SourceMaps
    BY DEF PromotionInit
  <2>2. wal \in [DOMAIN wal -> [state : WalStates, stamp : Nat]] /\ DOMAIN wal \subseteq Txns
        /\ outbox \in [DOMAIN outbox -> {"pending", "appended"}] /\ DOMAIN outbox \subseteq Txns
    BY DEF PromotionInit
  <2>3. oper \in [Ops -> [state : OpStates, result : BOOLEAN]] /\ manifest \in [Ops -> RunStates]
    BY DEF PromotionInit, OpStates, RunStates
  <2>4. lease \in [LeaseKeys -> [fence : Nat, live : BOOLEAN]] /\ work \in [Pipelines -> {NoWork} \cup Works]
    BY DEF PromotionInit
  <2>5. staged \in [Ops -> Seq(Ops) \cup {NoGen}]
    BY DEF PromotionInit
  <2>. QED  BY <2>1, <2>2, <2>3, <2>4, <2>5 DEF PromotionInit, PromotionTypeOK
<1>2. SuccessIsCommitted
  BY DEF PromotionInit, SuccessIsCommitted
<1>3. marker = current /\ Len(marker) <= Len(current)
  BY DEF PromotionInit
<1>4. \A w \in Pipelines : work[w] = NoWork
  BY DEF PromotionInit
<1>. QED  BY <1>1, <1>2, <1>3, <1>4 DEF PromotionInv

\* Every step keeps the invariant, and every step but the commit is calm.
LEMMA PromotionInvStep ==
    ASSUME PromotionInv, [PromotionNext]_promotionVars
    PROVE  /\ PromotionInv'
           /\ \/ Calm
              \/ /\ marker' = marker
                 /\ current' # current => /\ current' \in gens /\ Reconciled(current)
                                          /\ \E o \in Ops : current' = Append(current, o)
<1>1. CASE UNCHANGED promotionVars
  <2>1. PromotionTypeOK /\ Calm /\ ReportsHonestly /\ work' = work
    BY <1>1 DEF promotionVars, Calm, ReportsHonestly, PromotionInv
  <2>2. PromotionTypeOK'
    BY <1>1, <2>1, TypeStep DEF promotionVars, PromotionTypeOK
  <2>. QED  BY <2>1, <2>2, CalmStep
<1>2. CASE PromotionNext
  <2>1. sourceOf' = sourceOf
    BY <1>2 DEF PromotionNext
  <2>2. ASSUME NEW w \in Pipelines, \/ \E o \in Ops : StartIngest(w, o) \/ StartRecover(w, o)
                                  \/ Step(w) \/ Crash(w)
        PROVE  /\ PromotionInv'
               /\ \/ Calm
                  \/ /\ marker' = marker
                     /\ current' # current => /\ current' \in gens /\ Reconciled(current)
                                              /\ \E o \in Ops : current' = Append(current, o)
    <3>1. CASE Swap(w)
      BY <2>1, <3>1, SwapStep
    <3>2. CASE ~Swap(w)
      BY <2>1, <2>2, <3>2, EntrySteps, PlannedSteps, ReconcileSteps DEF Step
    <3>. QED  BY <3>1, <3>2
  <2>3. CASE \/ \E p \in LeaseKeys : Expire(p)
             \/ \E o \in Ops : Approve(o) \/ ApprovalExpires(o)
    BY <2>1, <2>3, WorldSteps
  <2>. QED  BY <1>2, <2>2, <2>3 DEF PromotionNext
<1>. QED  BY <1>1, <1>2

\* Every variable of the promotion keeps its type: the tables of control.py,
\* the files of the ledger and the pipelines at work.
THEOREM PromotionTypeCorrect == PromotionSpec => []PromotionTypeOK
<1>1. PromotionInv /\ [PromotionNext]_promotionVars => PromotionInv'
  BY PromotionInvStep
<1>2. PromotionInv => PromotionTypeOK
  BY DEF PromotionInv
<1>. QED  BY PromotionInvInit, <1>1, <1>2, PTL DEF PromotionSpec

\* A run that reports success has its claim in the ledger, whoever overtook
\* whom (_promote's no-op, _reconcile, _recover_committed).
THEOREM SuccessAlwaysCommitted == PromotionSpec => []SuccessIsCommitted
<1>1. PromotionInv /\ [PromotionNext]_promotionVars => PromotionInv'
  BY PromotionInvStep
<1>2. PromotionInv => SuccessIsCommitted
  BY DEF PromotionInv
<1>. QED  BY PromotionInvInit, <1>1, <1>2, PTL DEF PromotionSpec

\* ledger/CURRENT grows by one operation at a time, on the generation it names,
\* to a generation whose manifest is published (_promote's guarded replace).
THEOREM LedgerOnlyGrows == PromotionSpec => LedgerGrows
<1>1. PromotionInv /\ [PromotionNext]_promotionVars => PromotionInv'
  BY PromotionInvStep
<1>2. PromotionInv /\ [PromotionNext]_promotionVars =>
        [current' # current => /\ current' \in gens
                               /\ \E o \in Ops : current' = Append(current, o)]_promotionVars
  BY PromotionInvStep DEF Calm
<1>. QED  BY PromotionInvInit, <1>1, <1>2, PTL DEF PromotionSpec, LedgerGrows

\* The pointer moves only from a reconciled generation: its transaction, event,
\* outbox row and views are in place (_assert_active_generation_reconciled is
\* called long before the pointer is replaced).
THEOREM ParentsAreReconciled == PromotionSpec => ParentReconciled
<1>1. PromotionInv /\ [PromotionNext]_promotionVars => PromotionInv'
  BY PromotionInvStep
<1>2. PromotionInv /\ [PromotionNext]_promotionVars => [current' # current => Reconciled(current)]_promotionVars
  BY PromotionInvStep DEF Calm
<1>. QED  BY PromotionInvInit, <1>1, <1>2, PTL DEF PromotionSpec, ParentReconciled

\* The derived views move only to the active generation and never back
\* (_reconcile's second guard).
THEOREM ViewsOnlyFollow == PromotionSpec => ViewsFollowLedger
<1>1. PromotionInv /\ [PromotionNext]_promotionVars => PromotionInv'
  BY PromotionInvStep
<1>2. PromotionInv /\ [PromotionNext]_promotionVars =>
        [marker' # marker => marker' = current /\ Len(marker') > Len(marker)]_promotionVars
  <2>1. SUFFICES ASSUME PromotionInv, [PromotionNext]_promotionVars, marker' # marker
                 PROVE  marker' = current /\ Len(marker') > Len(marker)
    OBVIOUS
  <2>2. marker' = current
    BY <2>1, PromotionInvStep DEF Calm
  <2>3. /\ Len(marker) <= Len(current) /\ (Len(marker) = Len(current) => marker = current)
        /\ Len(marker) \in Nat /\ Len(current) \in Nat
    BY <2>1 DEF PromotionInv, PromotionTypeOK
  <2>. QED  BY <2>1, <2>2, <2>3
<1>. QED  BY PromotionInvInit, <1>1, <1>2, PTL DEF PromotionSpec, ViewsFollowLedger
=============================================================================
