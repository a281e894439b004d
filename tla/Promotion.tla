----------------------------- MODULE Promotion -----------------------------
(***************************************************************************)
(* Crash-safe promotion of an ingested source into the ledger              *)
(* (src/raytsystem/ingestion.py with the promotion_txns, operations and    *)
(* event_outbox tables of src/raytsystem/control.py).                      *)
(*                                                                         *)
(* A worker stages a bundle on top of the active generation, takes the     *)
(* source lease and the global ledger:current lease, writes the WAL,       *)
(* replaces ledger/CURRENT under both leases and then reconciles the event *)
(* log, the derived views and the run.  Every durable write is a step of   *)
(* its own; a worker may die, fail or be suspended for longer than its     *)
(* leases last between any two of them.                                    *)
(*                                                                         *)
(* Generations, transactions and events are content-addressed: a           *)
(* generation is the sequence of operations committed so far, and the      *)
(* transaction of operation o on top of generation g is <<o, g>>.  What    *)
(* hold_valid_leases protects is one step here; ControlLeases shows that   *)
(* nobody overtakes a guard that is open.                                  *)
(***************************************************************************)
EXTENDS Integers, Sequences, FiniteSets

CONSTANTS Ops,        \* ingest operations
          SourceMaps, \* the sources that operations may have, one function each
          RealSources, \* sources of the real corpus: operations on them need an approval
          Pipelines,    \* IngestPipeline instances at work
          NoGen,      \* no staged bundle
          MaxStarts,  \* bound on pipeline calls
          MaxExpiries \* bound on leases that run out

ASSUME PromotionConstants ==
    /\ \A m \in SourceMaps : DOMAIN m = Ops
    /\ {MaxStarts, MaxExpiries} \subseteq Nat

VARIABLES sourceOf,  \* the source of each operation; equal sources, equal claim
          current,   \* ledger/CURRENT
          gens,      \* published generation manifests
          staged,    \* staged[o]: parent of the staged bundle, or NoGen
          wal,       \* promotion_txns: transaction -> [state, stamp]
          outbox,    \* event_outbox: transaction -> "pending" | "appended"
          events,    \* published ops/events files
          marker,    \* knowledge/.materialized-generation
          oper,      \* operations: state and whether result_json is set
          manifest,  \* state in ops/runs/<run>/manifest.json
          approved,  \* transactions with an approval that is valid now
          lease,     \* lease[p]: newest fencing token and whether it runs
          work,      \* per worker: step, operation, transaction and tokens
          starts, expiries

\* What is not an authorized fixture belongs to the real corpus.
Real == {o \in Ops : sourceOf[o] \in RealSources}

LedgerCurrent == <<"ledger", "current">>
SourceLease(o) == <<"source", sourceOf[o]>>
\* The preparation leases of the operation and of its source are taken and
\* given back together; one stands for both.
PrepareLease(o) == <<"prepare", sourceOf[o]>>
LeaseKeys == {LedgerCurrent} \cup {SourceLease(o) : o \in Ops}
                              \cup {PrepareLease(o) : o \in Ops}

files == <<gens, staged, events, marker, manifest>>
tables == <<wal, outbox, oper>>
promotionVars == <<sourceOf, current, gens, staged, wal, outbox, events, marker, oper, manifest,
          approved, lease, work, starts, expiries>>

OpStates == {"none", "running", "awaiting_approval", "reconciling", "succeeded"}
WalStates == {"prepared", "committing", "committed", "reconciling", "completed", "aborted"}
RunStates == {"none", "running", "prepared", "awaiting_approval", "succeeded"}

Steps == {"idle", "stage", "staged", "gate", "await", "source", "global", "plan", "noop", "rebase", "bundle", "rebased",
          "generation", "wal", "outbox", "supersede", "committing", "swap",
          "check", "committed", "reconciling", "event", "appended", "walrec",
          "materialize", "succeeded", "completed", "manifest"}

NoWork == [step |-> "idle"]

Txns == Ops \X Seq(Ops)
Works == [step : Steps \ {"idle"}, op : Ops, txn : Txns, recovery : BOOLEAN, prep : Nat, src : Nat, glob : Nat,
          old : SUBSET Txns]

PromotionTypeOK ==
    /\ sourceOf \in SourceMaps
    /\ current \in Seq(Ops)
    /\ gens \subseteq Seq(Ops)
    /\ staged \in [Ops -> Seq(Ops) \cup {NoGen}]
    /\ wal \in [DOMAIN wal -> [state : WalStates, stamp : Nat]] /\ DOMAIN wal \subseteq Txns
    /\ outbox \in [DOMAIN outbox -> {"pending", "appended"}] /\ DOMAIN outbox \subseteq Txns
    /\ events \subseteq Txns
    /\ marker \in Seq(Ops)
    /\ oper \in [Ops -> [state : OpStates, result : BOOLEAN]]
    /\ manifest \in [Ops -> RunStates]
    /\ approved \subseteq Txns
    /\ lease \in [LeaseKeys -> [fence : Nat, live : BOOLEAN]]
    /\ work \in [Pipelines -> {NoWork} \cup Works]
    /\ starts \in Nat /\ expiries \in Nat

PromotionInit ==
    /\ sourceOf \in SourceMaps
    /\ current = <<>> /\ gens = {<<>>} /\ marker = <<>>
    /\ staged = [o \in Ops |-> NoGen]
    /\ wal = [t \in {} |-> 0] /\ outbox = [t \in {} |-> 0]
    /\ events = {} /\ approved = {}
    /\ oper = [o \in Ops |-> [state |-> "none", result |-> FALSE]]
    /\ manifest = [o \in Ops |-> "none"]
    /\ lease = [p \in LeaseKeys |-> [fence |-> 0, live |-> FALSE]]
    /\ work = [w \in Pipelines |-> NoWork]
    /\ starts = 0 /\ expiries = 0

-----------------------------------------------------------------------------
(* Tables                                                                  *)

NextGen(t) == Append(t[2], t[1])

\* The transaction that led to generation g.
TxnOf(g) == <<g[Len(g)], SubSeq(g, 1, Len(g) - 1)>>

\* promotion_for_operation: the newest transaction that is not aborted, as a
\* set with at most one element.
WalOf(o) ==
    LET live == {t \in DOMAIN wal : t[1] = o /\ wal[t].state # "aborted"}
    IN {t \in live : \A u \in live : wal[u].stamp <= wal[t].stamp}

Put(f, k, v) == [x \in DOMAIN f \cup {k} |-> IF x = k THEN v ELSE f[x]]

\* _advance_promotion_state and the legal moves of update_promotion_state: the
\* state never goes back, and an aborted transaction goes nowhere.
Order == [prepared |-> 1, committing |-> 2, committed |-> 3, reconciling |-> 4,
          completed |-> 5]
CanAdvance(t) == t \in DOMAIN wal /\ wal[t].state # "aborted"
Advanced(t, s) ==
    IF Order[wal[t].state] >= Order[s] THEN wal ELSE [wal EXCEPT ![t].state = s]

\* What stays true of a reconciled generation: transaction, event, outbox and
\* views.  The second half, run and operation, can be rewritten.
Reconciled(g) ==
    g # <<>> =>
        /\ TxnOf(g) \in events
        /\ marker = g
        /\ TxnOf(g) \in DOMAIN wal /\ wal[TxnOf(g)].state = "completed"
        /\ TxnOf(g) \in DOMAIN outbox /\ outbox[TxnOf(g)] = "appended"

RunTerminal(g) ==
    g # <<>> => LET o == g[Len(g)] IN
        /\ manifest[o] = "succeeded"
        /\ oper[o].state = "succeeded" /\ oper[o].result

\* Mutation: a child may follow a parent that is only committed.
TerminalIfCommitted(g) ==
    g # <<>> => TxnOf(g) \in DOMAIN wal /\ wal[TxnOf(g)].state # "prepared"

\* _assert_active_generation_reconciled
Terminal(g) == Reconciled(g) /\ RunTerminal(g)

\* Does the active generation already carry this operation's claim?
ClaimActive(o) == \E i \in DOMAIN current : sourceOf[current[i]] = sourceOf[o]

-----------------------------------------------------------------------------
(* Leases                                                                  *)

\* The guard's test for one of the worker's leases.
Holds(w, p, tok) == lease[p].live /\ lease[p].fence = tok

GuardOK(w) == /\ Holds(w, SourceLease(work[w].op), work[w].src)
              /\ Holds(w, LedgerCurrent, work[w].glob)

\* Leaving _promote or _recover_committed: finally releases what is still ours.
Released(w) ==
    [p \in LeaseKeys |->
        IF \/ p = SourceLease(work[w].op) /\ lease[p].fence = work[w].src
           \/ p = LedgerCurrent /\ lease[p].fence = work[w].glob
           \/ p = PrepareLease(work[w].op) /\ lease[p].fence = work[w].prep
        THEN [lease[p] EXCEPT !.live = FALSE] ELSE lease[p]]

Goto(w, s) == work' = [work EXCEPT ![w].step = s]
End(w) == work' = [work EXCEPT ![w] = NoWork] /\ lease' = Released(w)

\* Time passes: a lease runs out, whatever its owner is doing.
Expire(p) ==
    /\ lease[p].live
    /\ expiries < MaxExpiries
    /\ lease' = [lease EXCEPT ![p].live = FALSE]
    /\ expiries' = expiries + 1
    /\ UNCHANGED <<current, files, tables, approved, work, starts>>

\* The process dies: nothing is released.
Crash(w) ==
    /\ work[w].step # "idle"
    /\ work' = [work EXCEPT ![w] = NoWork]
    /\ UNCHANGED <<current, files, tables, approved, lease, starts, expiries>>

-----------------------------------------------------------------------------
(* The operator                                                            *)

\* An approval is bound to the staged transaction; it expires.
Approve(o) ==
    /\ o \in Real /\ staged[o] # NoGen
    /\ <<o, staged[o]>> \notin approved
    /\ approved' = approved \cup {<<o, staged[o]>>}
    /\ UNCHANGED <<current, files, tables, lease, work, starts, expiries>>

ApprovalExpires(o) ==
    /\ \E t \in approved : t[1] = o /\ approved' = approved \ {t}
    /\ UNCHANGED <<current, files, tables, lease, work, starts, expiries>>

-----------------------------------------------------------------------------
(* Entry: ingest and recover_run                                           *)

Begin(w, o, s, t, rec, prep) ==
    work' = [work EXCEPT ![w] = [step |-> s, op |-> o, txn |-> t, recovery |-> rec,
                                 prep |-> prep, src |-> 0, glob |-> 0, old |-> {}]]

\* _load_from_wal: a row whose generation or event is missing is an error.
FromWal(o) == {t \in WalOf(o) : NextGen(t) \in gens /\ t \in DOMAIN outbox}

\* The bundle a run would continue with: staging first, then the WAL.
Bundle(o) == IF staged[o] # NoGen THEN {<<o, staged[o]>>} ELSE FromWal(o)
Prepared(o) == staged[o] # NoGen \/ WalOf(o) # {}

\* _validate_committed_prepared: the pointer, the row and its event agree.
CommittedWhole(o, t) == t \in FromWal(o) /\ current = NextGen(t)

Finished(o) ==
    /\ oper[o].state = "succeeded" /\ oper[o].result
    /\ manifest[o] = "succeeded"
    /\ \A t \in WalOf(o) : wal[t].state = "completed"

\* ingest of an operation that has not succeeded: claim it, take the
\* preparation lease, and stage a bundle on the active generation or go on
\* with the one that is there.
StartIngest(w, o) ==
    LET p == PrepareLease(o)
        tok == lease[p].fence + 1 IN
    /\ work[w].step = "idle" /\ starts < MaxStarts
    /\ ~(oper[o].state = "succeeded" /\ oper[o].result)
    /\ ~lease[p].live
    /\ lease' = [lease EXCEPT ![p] = [fence |-> tok, live |-> TRUE]]
    /\ oper' = IF oper[o].state = "none"
               THEN [oper EXCEPT ![o].state = "running"] ELSE oper
    /\ manifest' = IF manifest[o] = "none"
                   THEN [manifest EXCEPT ![o] = "running"] ELSE manifest
    /\ \/ ~Prepared(o) /\ Begin(w, o, "stage", <<o, current>>, FALSE, tok)
       \/ \E t \in Bundle(o) : Begin(w, o, "gate", t, FALSE, tok)
    /\ starts' = starts + 1
    /\ UNCHANGED <<current, gens, staged, events, marker, wal, outbox, approved,
                   expiries>>

\* _prepare ends: the bundle's marker is written last, so the bundle appears
\* at once, and then the run's manifest.  No lease is looked at.
Stage(w) ==
    /\ work[w].step = "stage"
    /\ staged' = [staged EXCEPT ![work[w].op] = work[w].txn[2]]
    /\ Goto(w, "staged")
    /\ UNCHANGED <<current, gens, events, marker, manifest, tables, approved, lease,
                   starts, expiries>>

RunPrepared(w) ==
    /\ work[w].step = "staged"
    /\ manifest' = [manifest EXCEPT ![work[w].op] = "prepared"]
    /\ Goto(w, "gate")
    /\ UNCHANGED <<current, gens, staged, events, marker, tables, approved, lease,
                   starts, expiries>>

Awaiting == "awaiting_approval"

\* The final gate of the preparation; a real operation waits for its approval,
\* and its run and its operation say so whatever they said before.
Gate(w) ==
    LET o == work[w].op IN
    /\ work[w].step = "gate"
    /\ \/ /\ ~Holds(w, PrepareLease(o), work[w].prep)
          /\ End(w) /\ UNCHANGED manifest
       \/ /\ Holds(w, PrepareLease(o), work[w].prep) /\ o \in Real
          /\ manifest' = [manifest EXCEPT ![o] = Awaiting]
          /\ Goto(w, "await") /\ UNCHANGED lease
       \/ /\ Holds(w, PrepareLease(o), work[w].prep) /\ o \notin Real
          /\ Goto(w, "source") /\ UNCHANGED <<manifest, lease>>
    /\ UNCHANGED <<current, gens, staged, events, marker, tables, approved,
                   starts, expiries>>

AwaitApproval(w) ==
    /\ work[w].step = "await"
    /\ oper' = [oper EXCEPT ![work[w].op] = [state |-> Awaiting, result |-> FALSE]]
    /\ End(w)
    /\ UNCHANGED <<current, files, wal, outbox, approved, starts, expiries>>

\* recover_run (also promote_run, and ingest of an operation that succeeded):
\* a committed transaction is only reconciled, an earlier one is promoted.
StartRecover(w, o) ==
    /\ work[w].step = "idle" /\ starts < MaxStarts
    /\ oper[o].state # "none"
    /\ ~(Finished(o) /\ Terminal(current))
    /\ starts' = starts + 1
    /\ \/ \E t \in WalOf(o) :
            /\ CommittedWhole(o, t)
            /\ Begin(w, o, "source", t, TRUE, 0)
       \/ /\ \A t \in WalOf(o) : current # NextGen(t)
          /\ ~Finished(o)
          /\ \E t \in Bundle(o) :
                /\ o \in Real => t \in approved
                /\ Begin(w, o, "source", t, FALSE, 0)
    /\ UNCHANGED <<current, files, tables, approved, lease, expiries>>

-----------------------------------------------------------------------------
(* _promote                                                                *)

AcquireSource(w) ==
    LET p == SourceLease(work[w].op) IN
    /\ work[w].step = "source"
    /\ IF lease[p].live
       THEN End(w)
       ELSE /\ lease' = [lease EXCEPT ![p] = [fence |-> @.fence + 1, live |-> TRUE]]
            /\ work' = [work EXCEPT ![w].src = lease[p].fence + 1, ![w].step = "global"]
    /\ UNCHANGED <<current, files, tables, approved, starts, expiries>>

AcquireGlobal(w) ==
    LET p == LedgerCurrent IN
    /\ work[w].step = "global"
    /\ IF lease[p].live
       THEN End(w)
       ELSE /\ lease' = [lease EXCEPT ![p] = [fence |-> @.fence + 1, live |-> TRUE]]
            /\ work' = [work EXCEPT ![w].glob = lease[p].fence + 1,
                            ![w].step = IF work[w].recovery THEN "check" ELSE "plan"]
    /\ UNCHANGED <<current, files, tables, approved, starts, expiries>>

\* Mutation: the active claim is not compared.
AlreadyActiveAny(o) == WalOf(o) = {}

\* The semantic no-op: nothing was ever written for this operation and the
\* active generation carries its claim.
AlreadyActive(o) == WalOf(o) = {} /\ ClaimActive(o)

\* The decisions on the active generation and the operation's WAL.  Another
\* transaction of this operation that is not committed yet is superseded.
Plan(w) ==
    LET t == work[w].txn
        o == work[w].op
        own == t \in WalOf(o) /\ current = NextGen(t)
        early == {u \in WalOf(o) : wal[u].state \in {"prepared", "committing"}}
    IN
    /\ work[w].step = "plan"
    /\ \/ ~own /\ ~Terminal(current) /\ End(w)
       \/ /\ own \/ Terminal(current)
          /\ \/ AlreadyActive(o) /\ Goto(w, "noop") /\ UNCHANGED lease
             \/ /\ ~AlreadyActive(o)
                /\ current \in {t[2], NextGen(t)}
                /\ work' = [work EXCEPT ![w].step = "generation",
                                        ![w].old = early \ {t}]
                /\ UNCHANGED lease
             \/ /\ ~AlreadyActive(o)
                /\ current \notin {t[2], NextGen(t)}
                /\ IF t \in WalOf(o) /\ t \notin early
                   THEN End(w)
                   ELSE /\ work' = [work EXCEPT ![w].step = "rebase",
                                       ![w].txn = <<o, current>>,
                                       ![w].old = IF t \in early THEN {t} ELSE {}]
                        /\ UNCHANGED lease
    /\ UNCHANGED <<current, files, tables, approved, starts, expiries>>

\* The claim is already active: no new generation.  The operation first, then
\* the run manifest.
Noop(w) ==
    /\ work[w].step = "noop"
    /\ oper' = [oper EXCEPT ![work[w].op] = [state |-> "succeeded", result |-> TRUE]]
    /\ Goto(w, "manifest")
    /\ UNCHANGED <<current, files, wal, outbox, approved, lease, starts, expiries>>

\* _rebase_prepared: the old marker goes first, the new one comes last.
RebaseUnlink(w) ==
    /\ work[w].step = "rebase"
    /\ staged' = [staged EXCEPT ![work[w].op] = NoGen]
    /\ Goto(w, "bundle")
    /\ UNCHANGED <<current, gens, events, marker, manifest, tables, approved,
                   lease, starts, expiries>>

RebaseBundle(w) ==
    /\ work[w].step = "bundle"
    /\ staged' = [staged EXCEPT ![work[w].op] = work[w].txn[2]]
    /\ Goto(w, "rebased")
    /\ UNCHANGED <<current, gens, events, marker, manifest, tables, approved,
                   lease, starts, expiries>>

\* An approval never carries over to the rebased transaction.
RebaseManifest(w) ==
    LET o == work[w].op IN
    /\ work[w].step = "rebased"
    /\ manifest' = [manifest EXCEPT ![o] = "prepared"]
    /\ IF o \in Real THEN End(w) ELSE Goto(w, "generation") /\ UNCHANGED lease
    /\ UNCHANGED <<current, gens, staged, events, marker, tables, approved, starts, expiries>>

\* Claim object and generation manifest.
PublishGeneration(w) ==
    /\ work[w].step = "generation"
    /\ gens' = gens \cup {NextGen(work[w].txn)}
    /\ Goto(w, "wal")
    /\ UNCHANGED <<current, staged, events, marker, manifest, tables, approved,
                   lease, starts, expiries>>

\* store_promotion: a row that exists keeps its state and its created_at.  The
\* row is dated from before the leases were taken, so it sorts by the token.
StoreWal(w) ==
    LET t == work[w].txn IN
    /\ work[w].step = "wal"
    /\ wal' = IF t \in DOMAIN wal THEN wal
              ELSE Put(wal, t, [state |-> "prepared", stamp |-> work[w].glob])
    /\ Goto(w, "outbox")
    /\ UNCHANGED <<current, files, outbox, oper, approved, lease, starts, expiries>>

StoreOutbox(w) ==
    LET t == work[w].txn IN
    /\ work[w].step = "outbox"
    /\ outbox' = IF t \in DOMAIN outbox THEN outbox ELSE Put(outbox, t, "pending")
    /\ Goto(w, "supersede")
    /\ UNCHANGED <<current, files, wal, oper, approved, lease, starts, expiries>>

\* update_promotion_state raises when the superseded row moved on meanwhile.
Supersede(w) ==
    /\ work[w].step = "supersede"
    /\ \/ /\ \A u \in work[w].old : wal[u].state \in {"prepared", "committing", "aborted"}
          /\ wal' = [u \in DOMAIN wal |->
                        IF u \in work[w].old THEN [wal[u] EXCEPT !.state = "aborted"]
                                             ELSE wal[u]]
          /\ Goto(w, "committing") /\ UNCHANGED lease
       \/ /\ \E u \in work[w].old :
                wal[u].state \notin {"prepared", "committing", "aborted"}
          /\ End(w) /\ UNCHANGED wal
    /\ UNCHANGED <<current, files, outbox, oper, approved, starts, expiries>>

Committing(w) ==
    LET t == work[w].txn IN
    /\ work[w].step = "committing"
    /\ \/ /\ current = t[2] /\ CanAdvance(t)
          /\ wal' = Advanced(t, "committing")
          /\ Goto(w, "swap") /\ UNCHANGED lease
       \/ current = NextGen(t) /\ Goto(w, "committed") /\ UNCHANGED <<wal, lease>>
       \/ /\ current \notin {t[2], NextGen(t)} \/ (current = t[2] /\ ~CanAdvance(t))
          /\ End(w) /\ UNCHANGED wal
    /\ UNCHANGED <<current, files, outbox, oper, approved, starts, expiries>>

\* _assert_approval_valid inside the guard.
Authority(t) == t[1] \in Real => t \in approved

\* Mutation: the pointer is replaced without the guard.
SwapUnguarded(w) ==
    /\ work[w].step = "swap"
    /\ current' = NextGen(work[w].txn)
    /\ Goto(w, "committed")
    /\ UNCHANGED <<lease, files, tables, approved, starts, expiries>>

\* The canonical commit: leases, authority and parent are checked and the
\* pointer is replaced while no other connection can write.
Swap(w) ==
    LET t == work[w].txn
        valid == GuardOK(w) /\ Authority(t) /\ current = t[2]
    IN
    /\ work[w].step = "swap"
    /\ \/ /\ valid
          /\ current' = NextGen(t)
          /\ Goto(w, "committed") /\ UNCHANGED lease
       \/ ~valid /\ End(w) /\ UNCHANGED current
    /\ UNCHANGED <<files, tables, approved, starts, expiries>>

\* _recover_committed's guard.
CheckCommitted(w) ==
    LET t == work[w].txn IN
    /\ work[w].step = "check"
    /\ IF GuardOK(w) /\ CommittedWhole(work[w].op, t)
       THEN Goto(w, "committed") /\ UNCHANGED lease
       ELSE End(w)
    /\ UNCHANGED <<current, files, tables, approved, starts, expiries>>

Committed(w) ==
    LET t == work[w].txn IN
    /\ work[w].step = "committed"
    /\ IF CanAdvance(t)
       THEN wal' = Advanced(t, "committed") /\ Goto(w, "reconciling") /\ UNCHANGED lease
       ELSE End(w) /\ UNCHANGED wal
    /\ UNCHANGED <<current, files, outbox, oper, approved, starts, expiries>>

\* update_operation sets state and result_json; it looks at no lease.
OperReconciling(w) ==
    /\ work[w].step = "reconciling"
    /\ oper' = [oper EXCEPT ![work[w].op] = [state |-> "reconciling", result |-> FALSE]]
    /\ Goto(w, "event")
    /\ UNCHANGED <<current, files, wal, outbox, approved, lease, starts, expiries>>

\* _reconcile
PublishEvent(w) ==
    /\ work[w].step = "event"
    /\ events' = events \cup {work[w].txn}
    /\ Goto(w, "appended")
    /\ UNCHANGED <<current, gens, staged, marker, manifest, tables, approved,
                   lease, starts, expiries>>

MarkAppended(w) ==
    /\ work[w].step = "appended"
    /\ outbox' = [outbox EXCEPT ![work[w].txn] = "appended"]
    /\ Goto(w, "walrec")
    /\ UNCHANGED <<current, files, wal, oper, approved, lease, starts, expiries>>

WalReconciling(w) ==
    /\ work[w].step = "walrec"
    /\ wal' = Advanced(work[w].txn, "reconciling")
    /\ Goto(w, "materialize")
    /\ UNCHANGED <<current, files, outbox, oper, approved, lease, starts, expiries>>

\* Mutation: views are rebuilt without the guard.
MaterializeUnguarded(w) ==
    /\ work[w].step = "materialize"
    /\ marker' = NextGen(work[w].txn)
    /\ Goto(w, "succeeded")
    /\ UNCHANGED <<current, gens, staged, events, manifest, tables, approved,
                   lease, starts, expiries>>

\* The second guard: the views are rebuilt from CURRENT while it is ours.
Materialize(w) ==
    LET g == NextGen(work[w].txn) IN
    /\ work[w].step = "materialize"
    /\ IF GuardOK(w) /\ current = g
       THEN marker' = g /\ Goto(w, "succeeded") /\ UNCHANGED lease
       ELSE End(w) /\ UNCHANGED marker
    /\ UNCHANGED <<current, gens, staged, events, manifest, tables, approved,
                   starts, expiries>>

OperSucceeded(w) ==
    /\ work[w].step = "succeeded"
    /\ oper' = [oper EXCEPT ![work[w].op] = [state |-> "succeeded", result |-> TRUE]]
    /\ Goto(w, "completed")
    /\ UNCHANGED <<current, files, wal, outbox, approved, lease, starts, expiries>>

WalCompleted(w) ==
    /\ work[w].step = "completed"
    /\ wal' = Advanced(work[w].txn, "completed")
    /\ Goto(w, "manifest")
    /\ UNCHANGED <<current, files, outbox, oper, approved, lease, starts, expiries>>

RunSucceeded(w) ==
    /\ work[w].step = "manifest"
    /\ manifest' = [manifest EXCEPT ![work[w].op] = "succeeded"]
    /\ End(w)
    /\ UNCHANGED <<current, gens, staged, events, marker, tables, approved,
                   starts, expiries>>

-----------------------------------------------------------------------------
Step(w) ==
    \/ Stage(w) \/ RunPrepared(w) \/ Gate(w) \/ AwaitApproval(w) \/ AcquireSource(w) \/ AcquireGlobal(w) \/ Plan(w) \/ Noop(w)
    \/ RebaseUnlink(w) \/ RebaseBundle(w) \/ RebaseManifest(w) \/ PublishGeneration(w) \/ StoreWal(w)
    \/ StoreOutbox(w) \/ Supersede(w) \/ Committing(w) \/ Swap(w)
    \/ CheckCommitted(w) \/ Committed(w) \/ OperReconciling(w) \/ PublishEvent(w)
    \/ MarkAppended(w) \/ WalReconciling(w) \/ Materialize(w) \/ OperSucceeded(w)
    \/ WalCompleted(w) \/ RunSucceeded(w)

PromotionNext ==
    /\ \/ \E w \in Pipelines :
             \/ \E o \in Ops : StartIngest(w, o) \/ StartRecover(w, o)
             \/ Step(w) \/ Crash(w)
       \/ \E p \in LeaseKeys : Expire(p)
       \/ \E o \in Ops : Approve(o) \/ ApprovalExpires(o)
    /\ UNCHANGED sourceOf

PromotionSpec == PromotionInit /\ [][PromotionNext]_promotionVars

-----------------------------------------------------------------------------
\* ledger/CURRENT only grows by one operation at a time, on the generation it
\* names, and the new generation's manifest is published before: no commit is
\* lost to a worker that was overtaken, and none is half visible.
LedgerGrows ==
    [][current' # current =>
          /\ current' \in gens
          /\ \E o \in Ops : current' = Append(current, o)]_promotionVars

\* No operation is committed twice, however often it is retried or recovered.
CommittedOnce ==
    \A i, j \in DOMAIN current : current[i] = current[j] => i = j

\* A child follows only a reconciled parent: when the pointer moves, the old
\* generation's event, outbox row, transaction and views are in place.
ParentReconciled == [][current' # current => Reconciled(current)]_promotionVars

\* The derived views are never ahead of the ledger and never rewound.
ViewsFollowLedger ==
    [][marker' # marker => marker' = current /\ Len(marker') > Len(marker)]_promotionVars

\* A run that reports success has its claim in the ledger.
SuccessIsCommitted ==
    \A o \in Ops : oper[o].state = "succeeded" => ClaimActive(o)

\* Every part of the parent is terminal when a child is committed, its run and
\* its operation included (ADR-010).
ParentTerminal == [][current' # current => Terminal(current)]_promotionVars

-----------------------------------------------------------------------------
\* Steps after the generation was published and before the pointer moves, steps
\* after the plan, and steps after the commit.
Published == {"wal", "outbox", "supersede", "committing", "swap"}
Planned == {"rebase", "bundle", "rebased", "generation"} \cup Published
AfterCommit == {"committed", "reconciling", "event", "appended", "walrec", "materialize", "succeeded", "completed",
                "manifest"}

\* A worker that planned on the generation which is still active found it
\* reconciled; one that is past its commit has its claim in the ledger.
WorkStands(x) ==
    /\ x.txn[1] = x.op
    /\ x.step \in Published => NextGen(x.txn) \in gens
    /\ x.step \in Planned => /\ Len(x.txn[2]) <= Len(current)
                             /\ x.txn[2] = current => Reconciled(current)
    /\ x.step \in AfterCommit \cup {"noop"} => ClaimActive(x.op)

PromotionInv ==
    /\ PromotionTypeOK
    /\ SuccessIsCommitted
    /\ Len(marker) <= Len(current) /\ (Len(marker) = Len(current) => marker = current)
    /\ \A w \in Pipelines : work[w] # NoWork => WorkStands(work[w])
=============================================================================
