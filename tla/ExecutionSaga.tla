--------------------------- MODULE ExecutionSaga ---------------------------
(***************************************************************************)
(* One heartbeat of an assigned task, from preflight to receipt:           *)
(* ExecutionService (src/raytsystem/execution/service.py) with its task    *)
(* leases (leases.py), operational store (store.py) and the task ledger    *)
(* (tasking.py) it drives.                                                 *)
(*                                                                         *)
(* Services in several processes work on one task.  A durable write is a   *)
(* step of its own; between steps other services act, leases run out,      *)
(* writes fail and processes die.  A run id is derived from the            *)
(* idempotency key and the request, so a retry has the run id of the first *)
(* attempt: the run stands for the key.  A read and a compare-and-swap     *)
(* against what it returned are one step: when somebody writes in between, *)
(* the write raises, which Fault covers.  Writes that do not compare with  *)
(* what was read (pause, cancel, recovery) are steps of their own.         *)
(***************************************************************************)
EXTENDS Integers, FiniteSets

CONSTANTS Services,     \* service processes; each has one call at work
          Runs,         \* run ids, one per idempotency key
          NoRun,        \* a lease nobody holds, a run not on file
          Stamps,       \* what the clock, cut to milliseconds, or the caller says
                        \* when a heartbeat starts
          Slots,        \* concurrency slots, as max_concurrent_runs and the
                        \* employee's concurrency_limit allow
          HardLimit,    \* runs the budget policy allows
          Workloads     \* bounds of a behaviour: how often a run is asked for with
                        \* each start, and the expiries, faults, crashes, stops and
                        \* user actions that may happen

ASSUME SagaConstants ==
    /\ NoRun \notin Runs \cup Stamps
    /\ Slots \subseteq Nat
    /\ HardLimit \in Nat
    /\ Workloads \subseteq [heartbeats : [Runs \X Stamps -> Nat], troubles : Nat]

VARIABLES task,      \* status, revision, and the run that set it running
          gen,       \* generation of the task board
          applied,   \* transition commands of the runs: key -> generation, revision, reason
          assign,    \* the assignment's task generation and revision
          lease,     \* the task's row in the lease table
          slot,      \* the slots' rows
          leaseRecs, \* TaskLease records in the store: as bound, renewed or ended
          runs,      \* ExecutionRun records: status, task lease and start
          receipts,  \* runs whose receipt is stored
          usage,     \* run_count of the budget
          stop,      \* an emergency action that blocks the runtime is active
          call,      \* per service: the call at work
          rescue,    \* recover_stale_runs at work: its run and what it saw
          launched,  \* adapter.execute calls of each run
          todo,      \* heartbeats still to be asked for
          troubles   \* troubles still to come

vars == <<task, gen, applied, assign, lease, slot, leaseRecs, runs, receipts, usage,
          stop, call, rescue, launched, todo, troubles>>

board == <<task, gen, applied>>
rows == <<lease, slot>>
records == <<leaseRecs, runs, receipts, usage>>

Active == {"running", "cancelling"}
Ended == {"review", "failed", "cancelled"}
Row == [owner : Runs \cup {NoRun}, fence : Nat, live : BOOLEAN]
Intents == {"none", "pause", "cancel", "emergency"}
Steps == {"idle", "block", "checkout", "running", "bind", "store", "launch",
          "execute", "verify", "move", "rebind", "final", "receipt", "terminalize",
          "unwind", "release"}

NoCall == [step |-> "idle"]
NoRescue == [step |-> "idle"]
NoLease == <<NoRun, 0, 0>>

Errors == {"none", "lost", "emergency"}
Statuses == {"ready", "running", "review", "blocked", "cancelled"}
TaskHead == [status : Statuses, rev : Nat, by : Runs \cup {NoRun}]
RunHead == [status : Active \cup Ended \cup {"none"}, lease : (Runs \cup {NoRun}) \X Nat \X Nat,
            at : Stamps \cup {NoRun}]
LeaseRec == [id : Runs \X Nat \X Nat, at : Stamps, state : {"bound", "renewed", "ended"}]
Reasons == {"preflight", "policy", "checkout", "run", "runtime", "stale"} \cup Intents
Outcome == [gen : Nat, rev : Nat, reason : Reasons]
Calls == [step : Steps \ {"idle"}, run : Runs, at : Stamps, gen : Nat, use : Nat, why : Reasons, fence : Nat,
          slot : SUBSET (Slots \X Nat), rev : Nat, cancel : BOOLEAN, intent : Intents,
          error : Errors, signal : BOOLEAN, target : {"none", "blocked", "cancelled", "review"}]
Rescues == [step : {"fail", "move"}, run : Runs, gen : Nat, held : BOOLEAN, running : BOOLEAN]

TypeOK ==
    /\ task \in TaskHead
    /\ gen \in Nat
    /\ applied \in [DOMAIN applied -> Outcome]
    /\ assign \in [gen : Nat, rev : Nat]
    /\ lease \in Row /\ slot \in [Slots -> Row]
    /\ leaseRecs \subseteq LeaseRec
    /\ runs \in [Runs -> RunHead]
    /\ receipts \subseteq Runs
    /\ usage \in Nat /\ stop \in BOOLEAN
    /\ call \in [Services -> {NoCall} \cup Calls]
    /\ rescue \in {NoRescue} \cup Rescues
    /\ launched \in [Runs -> Nat]
    /\ todo \in [Runs \X Stamps -> Nat] /\ troubles \in Nat

FreeRow == [owner |-> NoRun, fence |-> 0, live |-> FALSE]

Init ==
    /\ task = [status |-> "ready", rev |-> 1, by |-> NoRun]
    /\ gen = 1
    /\ applied = [k \in {} |-> 0]
    /\ assign = [gen |-> 1, rev |-> 1]
    /\ lease = FreeRow /\ slot = [i \in Slots |-> FreeRow]
    /\ leaseRecs = {}
    /\ runs = [r \in Runs |-> [status |-> "none", lease |-> NoLease, at |-> NoRun]]
    /\ receipts = {} /\ usage = 0 /\ stop = FALSE
    /\ call = [s \in Services |-> NoCall]
    /\ rescue = NoRescue
    /\ launched = [r \in Runs |-> 0]
    /\ \E w \in Workloads : todo = w.heartbeats /\ troubles = w.troubles

counts == <<todo, troubles>>
Attempt(r, at) ==
    todo[<<r, at>>] > 0 /\ todo' = [todo EXCEPT ![<<r, at>>] = @ - 1] /\ UNCHANGED troubles
Trouble == troubles > 0 /\ troubles' = troubles - 1 /\ UNCHANGED todo
Goto(s, step) == call' = [call EXCEPT ![s].step = step]

-----------------------------------------------------------------------------
(* Leases and transitions, as the service calls them                       *)

\* acquire_lease: the same run gets its live row back, a free or expired row
\* is handed out under the next token.
CanTake(row, r) == ~row.live \/ row.owner = r
Taken(row, r) ==
    [owner |-> r, fence |-> IF row.live THEN row.fence ELSE row.fence + 1, live |-> TRUE]

Holds(row, r, fence) == row.live /\ row.owner = r /\ row.fence = fence

\* release_lease looks at owner and token only.
Dropped(row, r, fence) ==
    IF row.owner = r /\ row.fence = fence THEN [row EXCEPT !.owner = NoRun, !.live = FALSE]
                                          ELSE row

Allowed == [ready |-> {"running", "blocked"}, running |-> {"review", "blocked", "cancelled"},
            review |-> {"running", "blocked"}, blocked |-> {"ready", "running"},
            cancelled |-> {}]

\* Mutation: the expected generation is not compared.
BoardUnmoved(expected) == expected <= gen

\* _assert_expected
BoardAt(expected) == expected = gen

\* transition_task has an earlier result for this key and this reason.
Replayed(key, reason) == key \in DOMAIN applied /\ applied[key].reason = reason

\* transition_task applies the command.
Applies(key, target, expected) ==
    /\ key \notin DOMAIN applied
    /\ BoardAt(expected)
    /\ target \in Allowed[task.status]

Apply(key, target, reason, r) ==
    /\ task' = [status |-> target, rev |-> task.rev + 1,
                by |-> IF target = "running" THEN r ELSE task.by]
    /\ gen' = gen + 1
    /\ applied' = [k \in DOMAIN applied \cup {key} |->
                      IF k = key THEN [gen |-> gen + 1, rev |-> task.rev + 1, reason |-> reason]
                                 ELSE applied[k]]

\* The task's binding after the command: of now, or of the first time.
Result(key) == IF key \in DOMAIN applied
               THEN [gen |-> applied[key].gen, rev |-> applied[key].rev]
               ELSE [gen |-> gen + 1, rev |-> task.rev + 1]

-----------------------------------------------------------------------------
(* Preflight                                                               *)

\* evaluate_execution_policy, as far as the budget goes.
BudgetExhausted == usage >= HardLimit

NewCall(s, r, at, step, why) ==
    call' = [call EXCEPT ![s] =
        [step |-> step, run |-> r, at |-> at, gen |-> IF step = "checkout" THEN gen ELSE 0,
         use |-> IF step = "checkout" THEN usage ELSE 0, why |-> why,
         fence |-> 0, slot |-> {}, rev |-> 0,
         cancel |-> FALSE, intent |-> "none", error |-> "none", signal |-> FALSE,
         target |-> "none"]]

\* The receipt of a key, once stored, is never replaced.
Receipted(r) == r \in receipts
StoreReceipt(r) == receipts' = receipts \cup {r}

\* A known run is answered without running it; a finished one gets its receipt.
Repeat(s, r, at) ==
    /\ call[s].step = "idle"
    /\ Receipted(r) \/ runs[r].status # "none"
    /\ Attempt(r, at)
    /\ IF runs[r].status \in Ended THEN StoreReceipt(r) ELSE UNCHANGED receipts
    /\ UNCHANGED <<board, assign, rows, leaseRecs, runs, usage, stop, rescue, call, launched>>

\* manual_heartbeat up to the checkout.  Under an emergency stop nothing
\* happens; a stale assignment, a task that is not ready or blocked, and an
\* exhausted budget lead to _blocked_preflight.  The records of the call bear
\* the time of its start, which another retry of the key may share.
Begin(s, r, at) ==
    /\ call[s].step = "idle"
    /\ ~Receipted(r) /\ runs[r].status = "none"
    /\ ~stop
    /\ Attempt(r, at)
    /\ \/ /\ \/ assign # [gen |-> gen, rev |-> task.rev]
             \/ task.status \notin {"ready", "blocked"}
          /\ NewCall(s, r, at, "block", "preflight")
       \/ /\ assign = [gen |-> gen, rev |-> task.rev]
          /\ task.status \in {"ready", "blocked"}
          /\ IF BudgetExhausted THEN NewCall(s, r, at, "block", "policy")
                                ELSE NewCall(s, r, at, "checkout", "checkout")
    /\ UNCHANGED <<board, assign, rows, records, stop, rescue, launched>>

\* _blocked_preflight with transition_task: whoever owns the task.
Block(s) ==
    LET r == call[s].run
        key == <<r, "blocked">>
        moves == task.status \in {"ready", "running"} IN
    /\ call[s].step = "block"
    /\ \/ ~moves /\ UNCHANGED <<board, assign>>
       \/ /\ moves /\ Applies(key, "blocked", gen)
          /\ Apply(key, "blocked", call[s].why, r)
          /\ assign' = Result(key)
       \/ /\ moves /\ Replayed(key, call[s].why)
          /\ assign' = Result(key) /\ UNCHANGED board
       \/ /\ moves /\ key \in DOMAIN applied /\ ~Replayed(key, call[s].why)
          /\ UNCHANGED <<board, assign>>
    /\ Goto(s, "release")
    /\ UNCHANGED <<rows, records, stop, rescue, launched, counts>>

-----------------------------------------------------------------------------
(* Checkout and start                                                      *)

\* _checkout: a slot and the task's lease; neither is kept when one is busy.
Checkout(s) ==
    LET r == call[s].run
        free == {i \in Slots : CanTake(slot[i], r)} IN
    /\ call[s].step = "checkout"
    /\ IF ~stop /\ free # {} /\ CanTake(lease, r)
       THEN \E i \in free :
            /\ \A k \in free : i <= k
            /\ slot' = [slot EXCEPT ![i] = Taken(@, r)]
            /\ lease' = Taken(lease, r)
            /\ call' = [call EXCEPT ![s].step = "running", ![s].fence = Taken(lease, r).fence,
                                    ![s].slot = {<<i, Taken(slot[i], r).fence>>}]
       ELSE Goto(s, "block") /\ UNCHANGED rows
    /\ UNCHANGED <<board, assign, records, stop, rescue, launched, counts>>

\* transition_task(RUNNING): a key that was used before changes nothing and
\* returns the generation and revision of that time.
ToRunning(s) ==
    LET r == call[s].run
        key == <<r, "running">> IN
    /\ call[s].step = "running"
    /\ \/ /\ Replayed(key, "run")
          /\ call' = [call EXCEPT ![s].step = "bind", ![s].gen = 0, ![s].rev = Result(key).rev]
          /\ UNCHANGED board
       \/ /\ Applies(key, "running", call[s].gen)
          /\ Apply(key, "running", "run", r)
          /\ call' = [call EXCEPT ![s].step = "bind", ![s].gen = 0, ![s].rev = Result(key).rev]
       \/ /\ ~Replayed(key, "run") /\ ~Applies(key, "running", call[s].gen)
          /\ Goto(s, "block") /\ UNCHANGED board
    /\ UNCHANGED <<assign, rows, records, stop, rescue, launched, counts>>

LeaseId(s) == <<call[s].run, call[s].rev, call[s].fence>>

\* store.put(lease, expected_revision=None): no record has the id, or the one
\* that has it is the same to the byte.
NewLease(s) == [id |-> LeaseId(s), at |-> call[s].at, state |-> "bound"]
LeasePut(s) == NewLease(s) \in leaseRecs \/ \A x \in leaseRecs : x.id # LeaseId(s)

\* leases.rebind checks the fence.
Bind(s) ==
    /\ call[s].step = "bind"
    /\ IF Holds(lease, call[s].run, call[s].fence) /\ LeasePut(s)
       THEN leaseRecs' = leaseRecs \cup {NewLease(s)} /\ Goto(s, "store")
       ELSE Goto(s, "block") /\ UNCHANGED leaseRecs
    /\ UNCHANGED <<board, assign, rows, runs, receipts, usage, stop, rescue, launched, counts>>

\* Mutation: the run record is overwritten.
RunIsNewAlways(r) == r \in Runs

RunIsNew(r) == runs[r].status = "none"

\* store.put(run, expected_revision=None), as for the lease.  The record also
\* names the session the preflight saw: of two retries with one start either
\* both saw the same one, or the records differ.
StoreRun(s) ==
    LET r == call[s].run
        new == [status |-> "running", lease |-> LeaseId(s), at |-> call[s].at] IN
    /\ call[s].step = "store"
    /\ \/ /\ RunIsNew(r) \/ runs[r] = new
          /\ runs' = [runs EXCEPT ![r] = new]
          /\ Goto(s, "launch")
       \/ ~RunIsNew(r) /\ Goto(s, "terminalize") /\ UNCHANGED runs
    /\ UNCHANGED <<board, assign, rows, leaseRecs, receipts, usage, stop, rescue, launched, counts>>

-----------------------------------------------------------------------------
(* Execution                                                               *)

\* _reserve_budget writes the usage read in the preflight, plus one; then
\* adapter.execute starts the process.
Launch(s) ==
    /\ call[s].step = "launch"
    /\ usage' = call[s].use + 1
    /\ launched' = [launched EXCEPT ![call[s].run] = @ + 1]
    /\ call' = [call EXCEPT ![s].step = "execute", ![s].use = 0]
    /\ UNCHANGED <<board, assign, rows, leaseRecs, runs, receipts, stop, rescue, counts>>

HoldsAll(s) ==
    /\ Holds(lease, call[s].run, call[s].fence)
    /\ \A x \in call[s].slot : Holds(slot[x[1]], call[s].run, x[2])

\* Mutation: the renewal loop does not ask for the emergency state.
RenewalQuiet(s) == HoldsAll(s)

\* One round of the renewal loop goes well.
RenewalOK(s) == ~stop /\ HoldsAll(s)

\* A lease record after its last write.
LeaseSet(id, state) == {IF x.id = id THEN [x EXCEPT !.state = state] ELSE x : x \in leaseRecs}

\* The lease record is written with its new deadline, whatever it says by now.
Renew(s) ==
    /\ call[s].step = "execute" /\ call[s].error = "none"
    /\ RenewalOK(s)
    /\ leaseRecs' = LeaseSet(LeaseId(s), "renewed")
    /\ leaseRecs' # leaseRecs
    /\ UNCHANGED <<board, assign, rows, runs, receipts, usage, stop, call, rescue, launched, counts>>

\* A renewal that fails cancels the process and ends the loop.
RenewFails(s) ==
    /\ call[s].step = "execute" /\ call[s].error = "none"
    /\ ~RenewalOK(s)
    /\ call' = [call EXCEPT ![s].cancel = TRUE,
                            ![s].error = IF stop THEN "emergency" ELSE "lost",
                            ![s].intent = IF stop THEN "emergency" ELSE call[s].intent]
    /\ UNCHANGED <<board, assign, rows, records, stop, rescue, launched, counts>>

\* pause_run and cancel_run in the process that runs it: the run is read and
\* the process signalled, then the record is replaced whatever it is by now.
Signal(s, what) ==
    /\ call[s].step = "execute" /\ ~call[s].signal
    /\ runs[call[s].run].status \in Active
    /\ Trouble
    /\ call' = [call EXCEPT ![s].cancel = TRUE, ![s].intent = what, ![s].signal = TRUE]
    /\ UNCHANGED <<board, assign, rows, records, stop, rescue, launched>>

SignalStored(s) ==
    /\ call[s].step = "execute" /\ call[s].signal
    /\ runs' = [runs EXCEPT ![call[s].run].status = "cancelling"]
    /\ call' = [call EXCEPT ![s].signal = FALSE]
    /\ UNCHANGED <<board, assign, rows, leaseRecs, receipts, usage, stop, rescue,
                   launched, counts>>

\* adapter.execute returns.  A lost lease is an error, an emergency is not.
AdapterEnds(s, ok) ==
    /\ call[s].step = "execute" /\ ~call[s].signal
    /\ call[s].cancel => ~ok
    /\ call' = [call EXCEPT
          ![s].step = IF call[s].error = "lost" THEN "terminalize" ELSE "verify",
          ![s].target = CASE call[s].intent \in {"emergency", "pause"} -> "blocked"
                          [] call[s].intent = "cancel" -> "cancelled"
                          [] call[s].intent = "none" /\ ok -> "review"
                          [] OTHER -> "blocked"]
    /\ UNCHANGED <<board, assign, rows, records, stop, rescue, launched, counts>>

CancelledProcessEnds(s) ==
    call[s].step = "execute" /\ call[s].cancel /\ AdapterEnds(s, FALSE)

-----------------------------------------------------------------------------
(* _finish_run                                                             *)

\* Mutation: the result is taken whatever became of the lease.
FenceIgnored(s) == TRUE

\* verify_task_revision
FenceValid(s) ==
    Holds(lease, call[s].run, call[s].fence) /\ call[s].rev = task.rev

Verify(s) ==
    /\ call[s].step = "verify"
    /\ IF FenceValid(s)
       THEN call' = [call EXCEPT ![s].step = "move", ![s].gen = gen]
       ELSE Goto(s, "terminalize")
    /\ UNCHANGED <<board, assign, rows, records, stop, rescue, launched, counts>>

FinishKey(s) == <<call[s].run, call[s].target, "employee">>

FinishMove(s) ==
    LET r == call[s].run
        key == FinishKey(s) IN
    /\ call[s].step = "move"
    /\ \/ /\ Applies(key, call[s].target, call[s].gen)
          /\ Apply(key, call[s].target, call[s].intent, r)
          /\ call' = [call EXCEPT ![s].step = "rebind", ![s].gen = 0]
       \/ /\ ~Applies(key, call[s].target, call[s].gen)
          /\ Goto(s, "terminalize") /\ UNCHANGED board
    /\ UNCHANGED <<assign, rows, records, stop, rescue, launched, counts>>

FinishRebind(s) ==
    /\ call[s].step = "rebind"
    /\ assign' = Result(FinishKey(s))
    /\ Goto(s, "final")
    /\ UNCHANGED <<board, rows, records, stop, rescue, launched, counts>>

\* The status of a run that ended in order.
EndStatus(s) ==
    CASE call[s].intent # "none" -> "cancelled"
      [] call[s].intent = "none" /\ call[s].target = "review" -> "review"
      [] OTHER -> "failed"

FinishRun(s) ==
    /\ call[s].step = "final"
    /\ runs' = [runs EXCEPT ![call[s].run].status = EndStatus(s)]
    /\ Goto(s, "receipt")
    /\ UNCHANGED <<board, assign, rows, leaseRecs, receipts, usage, stop, rescue, launched, counts>>

\* Session, token usage and comment, then the receipt.
FinishReceipt(s) ==
    /\ call[s].step = "receipt"
    /\ StoreReceipt(call[s].run)
    /\ Goto(s, "release")
    /\ UNCHANGED <<board, assign, rows, leaseRecs, runs, usage, stop, rescue, launched, counts>>

-----------------------------------------------------------------------------
(* Errors                                                                  *)

\* A write raises (the store's conflict, a busy database, a full disk), or the
\* adapter does, or the call is cancelled: before the run exists
\* _blocked_preflight takes over, afterwards _terminalize_exception.
AfterFault(step) ==
    CASE step \in {"block", "terminalize", "unwind"} -> {"release"}
      [] step \in {"checkout", "running", "bind"} -> {"block"}
      [] step = "store" -> {"block", "terminalize"}
      [] OTHER -> {"terminalize"}

Fault(s) ==
    /\ call[s].step \notin {"idle", "release"}
    /\ ~call[s].signal
    /\ Trouble
    /\ \E step \in AfterFault(call[s].step) : Goto(s, step)
    /\ UNCHANGED <<board, assign, rows, records, stop, rescue, launched>>

\* _terminalize_exception, first write: the run fails, whatever its head says.
Terminalize(s) ==
    LET r == call[s].run IN
    /\ call[s].step = "terminalize"
    /\ runs' = [runs EXCEPT ![r] = [status |-> "failed",
                                    lease |-> IF runs[r].status = "none" THEN LeaseId(s)
                                              ELSE runs[r].lease,
                                    at |-> IF runs[r].status = "none" THEN call[s].at
                                           ELSE runs[r].at]]
    /\ Goto(s, "unwind")
    /\ UNCHANGED <<board, assign, rows, leaseRecs, receipts, usage, stop, rescue, launched, counts>>

\* Second half: a running task is blocked; the lease is not looked at.
Unwind(s) ==
    LET r == call[s].run
        key == <<r, "blocked">> IN
    /\ call[s].step = "unwind"
    /\ \/ task.status # "running" /\ UNCHANGED <<board, assign>>
       \/ /\ task.status = "running" /\ Applies(key, "blocked", gen)
          /\ Apply(key, "blocked", "runtime", r)
          /\ assign' = Result(key)
       \/ /\ task.status = "running" /\ Replayed(key, "runtime")
          /\ assign' = Result(key) /\ UNCHANGED board
       \/ /\ task.status = "running" /\ key \in DOMAIN applied /\ ~Replayed(key, "runtime")
          /\ UNCHANGED <<board, assign>>
    /\ Goto(s, "release")
    /\ UNCHANGED <<rows, records, stop, rescue, launched, counts>>

\* _release_checkout in the finally clause.
Release(s) ==
    LET r == call[s].run IN
    /\ call[s].step = "release"
    /\ lease' = Dropped(lease, r, call[s].fence)
    /\ slot' = [i \in Slots |->
                  IF \E x \in call[s].slot : x[1] = i
                  THEN Dropped(slot[i], r, (CHOOSE x \in call[s].slot : x[1] = i)[2])
                  ELSE slot[i]]
    /\ leaseRecs' = LeaseSet(LeaseId(s), "ended")
    /\ call' = [call EXCEPT ![s] = NoCall]
    /\ UNCHANGED <<board, assign, runs, receipts, usage, stop, rescue, launched, counts>>

\* recover_stale_runs, for one run whose fence is gone: the check, which cancels
\* the run if this very process executes it, the write of the run and its
\* lease, and the transition of a task seen running.
RecoverSees(r) ==
    LET l == runs[r].lease
        held == \E x \in leaseRecs : x.id = l /\ x.state # "ended" IN
    /\ rescue.step = "idle"
    /\ runs[r].status \in Active
    /\ ~(held /\ l[2] = task.rev /\ Holds(lease, r, l[3]))
    /\ rescue' = [step |-> "fail", run |-> r, gen |-> gen, held |-> held, running |-> task.status = "running"]
    /\ \/ UNCHANGED call
       \/ \E s \in Services :
             /\ call[s].step = "execute" /\ call[s].run = r
             /\ call' = [call EXCEPT ![s].cancel = TRUE, ![s].intent = "cancel"]
    /\ UNCHANGED <<board, assign, rows, records, stop, launched, counts>>

RecoverFails ==
    LET r == rescue.run IN
    /\ rescue.step = "fail"
    /\ runs' = [runs EXCEPT ![r].status = "failed"]
    /\ leaseRecs' = IF rescue.held THEN LeaseSet(runs[r].lease, "ended") ELSE leaseRecs
    /\ rescue' = IF rescue.running THEN [rescue EXCEPT !.step = "move"] ELSE NoRescue
    /\ UNCHANGED <<board, assign, rows, receipts, usage, stop, call, launched, counts>>

RecoverMoves ==
    LET key == <<rescue.run, "blocked">> IN
    /\ rescue.step = "move"
    /\ IF Applies(key, "blocked", rescue.gen)
       THEN Apply(key, "blocked", "stale", rescue.run)
       ELSE UNCHANGED board
    /\ rescue' = NoRescue
    /\ UNCHANGED <<assign, rows, records, stop, call, launched, counts>>

RecoverCrashes ==
    /\ rescue.step # "idle"
    /\ Trouble
    /\ rescue' = NoRescue
    /\ UNCHANGED <<board, assign, rows, records, stop, call, launched>>

\* The process dies; nothing is released.
Crash(s) ==
    /\ call[s].step # "idle"
    /\ Trouble
    /\ call' = [call EXCEPT ![s] = NoCall]
    /\ UNCHANGED <<board, assign, rows, records, stop, rescue, launched>>

-----------------------------------------------------------------------------
(* The surroundings                                                        *)

ExpireLease ==
    /\ Trouble
    /\ lease.live
    /\ lease' = [lease EXCEPT !.live = FALSE]
    /\ UNCHANGED <<board, assign, slot, records, stop, rescue, call, launched>>

ExpireSlot(i) ==
    /\ Trouble
    /\ slot[i].live
    /\ slot' = [slot EXCEPT ![i].live = FALSE]
    /\ UNCHANGED <<board, assign, lease, records, stop, rescue, call, launched>>

\* assign_task with the generation the user sees.
Assign ==
    /\ Trouble
    /\ task.status # "cancelled"
    /\ assign # [gen |-> gen, rev |-> task.rev]
    /\ assign' = [gen |-> gen, rev |-> task.rev]
    /\ UNCHANGED <<board, rows, records, stop, rescue, call, launched>>

\* The user readies a blocked task, and work on other tasks moves the board.
Unblock ==
    /\ Trouble
    /\ task.status = "blocked"
    /\ task' = [task EXCEPT !.status = "ready", !.rev = @ + 1]
    /\ gen' = gen + 1
    /\ UNCHANGED <<applied, assign, rows, records, stop, rescue, call, launched>>

OtherTaskMoves ==
    /\ Trouble
    /\ gen' = gen + 1
    /\ UNCHANGED <<task, applied, assign, rows, records, stop, rescue, call, launched>>

\* EmergencyService.activate and recover.
EmergencyStop ==
    /\ Trouble
    /\ stop' = ~stop
    /\ UNCHANGED <<rescue, board, assign, rows, records, call, launched>>

Step(s) ==
    \/ Block(s) \/ Checkout(s) \/ ToRunning(s) \/ Bind(s) \/ StoreRun(s)
    \/ Launch(s) \/ Verify(s) \/ FinishMove(s) \/ FinishRebind(s) \/ FinishRun(s)
    \/ FinishReceipt(s) \/ Terminalize(s) \/ Unwind(s) \/ Release(s)

Next ==
    \/ \E s \in Services :
          \/ \E r \in Runs, at \in Stamps : Repeat(s, r, at) \/ Begin(s, r, at)
          \/ Step(s) \/ Renew(s) \/ RenewFails(s)
          \/ \E ok \in BOOLEAN : AdapterEnds(s, ok)
          \/ \E what \in {"pause", "cancel"} : Signal(s, what)
          \/ SignalStored(s)
          \/ Fault(s) \/ Crash(s)
    \/ \E r \in Runs : RecoverSees(r)
    \/ RecoverFails \/ RecoverMoves \/ RecoverCrashes
    \/ \E i \in Slots : ExpireSlot(i)
    \/ ExpireLease \/ Assign \/ Unblock \/ OtherTaskMoves \/ EmergencyStop

\* The renewal loop has a timer and a cancelled process is killed by its
\* supervisor; a process that nobody cancels may run for ever.
Fairness ==
    \A s \in Services :
        /\ WF_vars(RenewFails(s))
        /\ WF_vars(SignalStored(s))
        /\ WF_vars(CancelledProcessEnds(s))

Spec == Init /\ [][Next]_vars /\ Fairness

-----------------------------------------------------------------------------
\* The agent process of a run is started at most once, however many retries,
\* takeovers and crashes there are ("The same idempotency key cannot create a
\* second run", docs/11-code-graph-and-execution-plane.md).
LaunchedOnce == \A r \in Runs : launched[r] <= 1

\* Whatever is launched is the attempt on record: the run record was written
\* with the start, the lease and the fence of the very call, and no retry,
\* takeover, recovery or failing call has put another attempt in its place.
\* Two launches of one run therefore share start, lease and fence.
LaunchIsOnRecord ==
    [][\A r \in Runs : launched'[r] # launched[r] =>
          \E s \in Services : /\ call[s].step = "launch" /\ call[s].run = r
                             /\ runs[r].lease = LeaseId(s) /\ runs[r].at = call[s].at]_vars

\* The result that takes a task to review is the work of the run that set it
\* running: a worker whose lease went elsewhere delivers nothing.
ReviewIsRunnersWork ==
    [][task.status = "running" /\ task'.status = "review" =>
          \E s \in Services : call[s].step = "move" /\ call[s].run = task.by]_vars

\* Work under review is not taken away by another heartbeat, a late exception
\* or a recovery: only a person moves it on.
ReviewedWorkKept == [][task.status = "review" => task' = task]_vars

\* An emergency stop that stays ends every execution, the ones that slipped
\* past the two checks before the launch included.
EmergencyDrains ==
    \A s \in Services :
        <>[]stop => []<>(call[s].step # "execute")

\* Only the run that holds the task's live lease changes what is running.
OwnerMovesRunningTask ==
    [][task.status = "running" /\ task' # task =>
          \E s \in Services : call[s].step # "idle" /\ Holds(lease, call[s].run, call[s].fence)
                              /\ call'[s] # call[s]]_vars

-----------------------------------------------------------------------------
\* What a call knows of the task, as long as the board has not moved on: it set
\* the task running at its revision; it found the task ready or blocked; its
\* result was verified against the revision; its run is on file as its own.
CallStands(x) ==
    /\ x.rev <= task.rev
    /\ x.rev = task.rev => task.by = x.run /\ task.status = "running"
    /\ x.step \in {"checkout", "running"} => /\ x.gen <= gen
                                             /\ x.gen = gen => task.status \in {"ready", "blocked"}
    /\ x.step = "move" => x.gen <= gen /\ (x.gen = gen => x.rev = task.rev)
    /\ x.step = "launch" => /\ runs[x.run].status # "none"
                            /\ runs[x.run].lease = <<x.run, x.rev, x.fence>> /\ runs[x.run].at = x.at

\* The command that set the task running is the newest one while it runs.
RunningStands(r) ==
    <<r, "running">> \in DOMAIN applied =>
        LET first == applied[<<r, "running">>] IN
        /\ first.rev <= task.rev
        /\ first.rev = task.rev => task.by = r /\ task.status = "running"

RescueStands(x) ==
    /\ x.gen <= gen
    /\ x.gen = gen /\ x.running => task.status = "running"
    /\ x.step = "move" => x.running

\* The inductive invariant of ExecutionSagaProofs.
SagaInv ==
    /\ TypeOK
    /\ task.rev >= 1
    /\ \A r \in Runs : RunningStands(r)
    /\ \A s \in Services : call[s] # NoCall => CallStands(call[s])
    /\ rescue # NoRescue => RescueStands(rescue)
=============================================================================
