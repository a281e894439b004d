------------------------ MODULE ExecutionSagaProofs ------------------------
(***************************************************************************)
(* Proofs about the heartbeat of an assigned task (ExecutionSaga), for any *)
(* number of services, runs, slots, heartbeats, faults and crashes.        *)
(*                                                                         *)
(* The argument: every change of the task or the board moves the           *)
(* generation, and every change of the task moves its revision.  So a call *)
(* that compares the generation it saw with the one of now knows that the  *)
(* task is as it was, and a call whose revision is the task's is the one   *)
(* that set it running.  SagaInv says this of every call at work, of the   *)
(* recovery and of the commands on record.                                 *)
(***************************************************************************)
EXTENDS ExecutionSaga, TLAPS

\* The task ledger stays, or moves by one generation; the task stays, or moves
\* by one revision, which the newest command to set it running may name.
LedgerMoves ==
    \/ UNCHANGED <<task, gen, applied>>
    \/ /\ gen' = gen + 1
       /\ task' = task \/ task'.rev = task.rev + 1
       /\ \A r \in Runs : <<r, "running">> \in DOMAIN applied' =>
             \/ <<r, "running">> \in DOMAIN applied /\ applied'[<<r, "running">>] = applied[<<r, "running">>]
             \/ /\ applied'[<<r, "running">>].rev = task'.rev
                /\ task'.by = r /\ task'.status = "running"

\* A run record is never removed, and its lease and its start stay.
RunsKept ==
    \A r \in Runs : runs[r].status # "none" =>
        runs'[r].status # "none" /\ runs'[r].lease = runs[r].lease /\ runs'[r].at = runs[r].at

\* What may happen to the task: reviewed work stays, and the work that goes to
\* review is that of the run which set the task running.
TaskMovesInOrder ==
    task' # task =>
        /\ task.status # "review"
        /\ task.status = "running" /\ task'.status = "review" =>
              \E s \in Services : call[s].step = "move" /\ call[s].run = task.by

-----------------------------------------------------------------------------
(* The model's operators                                                    *)

\* A call at work has a complete record (the locals of manual_heartbeat).
LEMMA AtWork ==
    ASSUME TypeOK, NEW s \in Services, call[s].step # "idle"
    PROVE  /\ call[s] \in Calls /\ call[s] # NoCall
           /\ call[s].run \in Runs /\ call[s].at \in Stamps /\ call[s].gen \in Nat /\ call[s].use \in Nat /\ call[s].why \in Reasons
           /\ call[s].fence \in Nat /\ call[s].slot \subseteq Slots \X Nat /\ call[s].rev \in Nat
           /\ call[s].intent \in Intents /\ call[s].target \in {"none", "blocked", "cancelled", "review"}
<1>1. call[s] \in Calls /\ call[s] # NoCall
  BY DEF TypeOK, NoCall
<1>. QED  BY <1>1 DEF Calls

\* Goto changes nothing of a call but its step.
LEMMA GotoMoves ==
    ASSUME TypeOK, NEW s \in Services, call[s].step # "idle", NEW n \in Steps \ {"idle"}, Goto(s, n)
    PROVE  \E y \in Calls : /\ y.step = n /\ y.run = call[s].run /\ y.gen = call[s].gen /\ y.rev = call[s].rev
                            /\ y.fence = call[s].fence /\ y.at = call[s].at
                            /\ call' = [call EXCEPT ![s] = y]
<1> DEFINE y == [call[s] EXCEPT !.step = n]
<1>1. call[s] \in Calls
  BY AtWork
<1>2. /\ y \in Calls /\ y.step = n /\ y.run = call[s].run /\ y.gen = call[s].gen /\ y.rev = call[s].rev
      /\ y.fence = call[s].fence /\ y.at = call[s].at
  BY <1>1 DEF Calls
<1>3. call' = [call EXCEPT ![s] = y]
  BY DEF Goto
<1>. QED  BY <1>2, <1>3

\* A lease row stays a row when it is taken, dropped or runs out (acquire_lease,
\* release_lease).
LEMMA RowMoves ==
    ASSUME NEW row \in Row, NEW r \in Runs, NEW f \in Nat
    PROVE  /\ Taken(row, r) \in Row /\ Taken(row, r).fence \in Nat
           /\ Dropped(row, r, f) \in Row /\ [row EXCEPT !.live = FALSE] \in Row
<1>1. row.fence \in Nat /\ row.fence + 1 \in Nat
  BY DEF Row
<1>2. PICK m \in Nat : m = IF row.live THEN row.fence ELSE row.fence + 1
  BY <1>1
<1>3. [owner |-> r, fence |-> m, live |-> TRUE] \in Row
  BY DEF Row
<1>4. Taken(row, r) = [owner |-> r, fence |-> m, live |-> TRUE]
  BY <1>2 DEF Taken
<1>5. Taken(row, r) \in Row /\ Taken(row, r).fence \in Nat
  BY <1>3, <1>4 DEF Row
<1>6. [row EXCEPT !.live = FALSE] \in Row
  BY DEF Row
<1>7. [row EXCEPT !.owner = NoRun, !.live = FALSE] \in Row
  BY DEF Row
<1>. QED  BY <1>5, <1>6, <1>7 DEF Dropped

\* transition_task applies one command: the next generation, the next revision,
\* and the command on record.
LEMMA ApplyMoves ==
    ASSUME TypeOK, NEW key, NEW target \in Statuses, NEW reason \in Reasons, NEW r \in Runs,
           Apply(key, target, reason, r),
           \/ key = <<r, "running">> /\ target = "running"
           \/ \A q \in Runs : key # <<q, "running">>
    PROVE  /\ task' \in TaskHead /\ gen' \in Nat /\ applied' \in [DOMAIN applied' -> Outcome]
           /\ task'.status = target /\ task'.rev = task.rev + 1
           /\ LedgerMoves
<1>1. /\ task \in TaskHead /\ gen \in Nat /\ applied \in [DOMAIN applied -> Outcome] /\ task.rev \in Nat
      /\ task.by \in Runs \cup {NoRun}
  BY DEF TypeOK, TaskHead
<1>2. PICK who \in Runs \cup {NoRun} : /\ task' = [status |-> target, rev |-> task.rev + 1, by |-> who]
                                       /\ target = "running" => who = r
  BY <1>1 DEF Apply
<1>3. /\ task' \in TaskHead /\ task'.status = target /\ task'.rev = task.rev + 1 /\ task'.by = who
  <2>1. task.rev + 1 \in Nat
    BY <1>1
  <2>2. task'.status = target /\ task'.rev = task.rev + 1 /\ task'.by = who
    BY <1>2
  <2>. QED  BY <1>2, <2>1, <2>2 DEF TaskHead
<1> DEFINE e == [gen |-> gen + 1, rev |-> task.rev + 1, reason |-> reason]
<1>4. e \in Outcome /\ e.rev = task.rev + 1
  BY <1>1 DEF Outcome
<1>. HIDE DEF e
<1>5. applied' = [k \in DOMAIN applied \cup {key} |-> IF k = key THEN e ELSE applied[k]]
  BY DEF Apply, e
<1>6. applied' \in [DOMAIN applied' -> Outcome]
  BY <1>1, <1>4, <1>5
<1>7. gen' = gen + 1 /\ gen' \in Nat
  BY <1>1 DEF Apply
<1>8. ASSUME NEW q \in Runs, <<q, "running">> \in DOMAIN applied'
      PROVE  \/ <<q, "running">> \in DOMAIN applied /\ applied'[<<q, "running">>] = applied[<<q, "running">>]
             \/ /\ applied'[<<q, "running">>].rev = task'.rev
                /\ task'.by = q /\ task'.status = "running"
  <2>1. CASE key = <<q, "running">>
    <3>1. q = r /\ target = "running"
      BY <2>1
    <3>2. applied'[<<q, "running">>] = e
      BY <1>5, <2>1
    <3>3. task'.by = q /\ task'.status = "running"
      BY <1>2, <1>3, <3>1
    <3>4. applied'[<<q, "running">>].rev = task'.rev
      BY <1>3, <1>4, <3>2
    <3>. QED  BY <3>3, <3>4
  <2>2. CASE key # <<q, "running">>
    BY <1>5, <1>8, <2>2
  <2>. QED  BY <2>1, <2>2
<1>. QED  BY <1>3, <1>6, <1>7, <1>8 DEF LedgerMoves

\* The binding that a command returns is a generation and a revision.
LEMMA ResultType ==
    ASSUME TypeOK, NEW key
    PROVE  Result(key) \in [gen : Nat, rev : Nat]
BY DEF Result, TypeOK, TaskHead, Outcome

\* A lease record stays a record when it is renewed or ended (store.put of the
\* lease by the renewal loop, _release_checkout and recover_stale_runs).
LEMMA LeaseSetType ==
    ASSUME TypeOK, NEW id, NEW state \in {"bound", "renewed", "ended"}
    PROVE  LeaseSet(id, state) \subseteq LeaseRec
<1>1. \A x \in LeaseRec : [x EXCEPT !.state = state] \in LeaseRec
  BY DEF LeaseRec
<1>2. leaseRecs \subseteq LeaseRec
  BY DEF TypeOK
<1>. QED  BY <1>1, <1>2 DEF LeaseSet

\* The bounds of a behaviour are counted down.
LEMMA CountsMove ==
    ASSUME TypeOK
    PROVE  /\ Trouble => troubles' \in Nat /\ todo' = todo
           /\ \A r \in Runs, at \in Stamps :
                 Attempt(r, at) => todo' \in [Runs \X Stamps -> Nat] /\ troubles' = troubles
<1>1. Trouble => troubles' \in Nat /\ todo' = todo
  BY DEF TypeOK, Trouble
<1>2. ASSUME NEW r \in Runs, NEW at \in Stamps, Attempt(r, at)
      PROVE  todo' \in [Runs \X Stamps -> Nat] /\ troubles' = troubles
  <2>1. todo \in [Runs \X Stamps -> Nat] /\ todo[<<r, at>>] > 0 /\ todo[<<r, at>>] \in Nat
    BY <1>2 DEF TypeOK, Attempt
  <2>2. todo[<<r, at>>] - 1 \in Nat
    BY <2>1
  <2>. QED  BY <1>2, <2>1, <2>2 DEF Attempt
<1>. QED  BY <1>1, <1>2

-----------------------------------------------------------------------------
(* What stays true                                                          *)

\* The state after a step is well-formed when each part that moved is.
LEMMA TypeStep ==
    ASSUME TypeOK, task' \in TaskHead, gen' \in Nat,
           applied' = applied \/ applied' \in [DOMAIN applied' -> Outcome],
           assign' \in [gen : Nat, rev : Nat],
           lease' \in Row, slot' \in [Slots -> Row], leaseRecs' \subseteq LeaseRec,
           runs' \in [Runs -> RunHead], receipts' \subseteq Runs, usage' \in Nat, stop' \in BOOLEAN,
           call' \in [Services -> {NoCall} \cup Calls], rescue' \in {NoRescue} \cup Rescues,
           launched' \in [Runs -> Nat], todo' \in [Runs \X Stamps -> Nat], troubles' \in Nat
    PROVE  TypeOK'
<1>1. (applied \in [DOMAIN applied -> Outcome])'
  BY DEF TypeOK
<1>. QED  BY <1>1, Zenon DEF TypeOK

\* What a call, a recovery or a recorded command knows of the task goes on
\* holding when the ledger moves: an older generation or revision is then only
\* older.
LEMMA StandsLater ==
    ASSUME SagaInv, TypeOK', LedgerMoves, RunsKept
    PROVE  /\ \A x \in Calls : CallStands(x) => CallStands(x)'
           /\ \A r \in Runs : RunningStands(r)'
           /\ \A x \in Rescues : RescueStands(x) => RescueStands(x)'
           /\ task'.rev >= 1
<1>1. /\ task.rev \in Nat /\ gen \in Nat /\ task'.rev \in Nat /\ gen' \in Nat /\ task.rev >= 1
  BY DEF SagaInv, TypeOK, TaskHead
<1>2. /\ task' = task \/ task'.rev = task.rev + 1
      /\ (gen' = gen /\ task' = task /\ applied' = applied) \/ gen' = gen + 1
      /\ gen' = gen \/ gen' = gen + 1
  BY DEF LedgerMoves
<1>3. ASSUME NEW x \in Calls, CallStands(x)
      PROVE  CallStands(x)'
  <2>1. x.rev \in Nat /\ x.gen \in Nat /\ x.run \in Runs
    BY DEF Calls
  <2>2. (x.rev <= task.rev)' /\ (x.rev = task.rev => task.by = x.run /\ task.status = "running")'
    BY <1>1, <1>2, <1>3, <2>1 DEF CallStands
  <2>3. (x.step \in {"checkout", "running"} => /\ x.gen <= gen
                                               /\ x.gen = gen => task.status \in {"ready", "blocked"})'
    BY <1>1, <1>2, <1>3, <2>1 DEF CallStands
  <2>4. (x.step = "move" => x.gen <= gen /\ (x.gen = gen => x.rev = task.rev))'
    BY <1>1, <1>2, <1>3, <2>1 DEF CallStands
  <2>5. (x.step = "launch" => /\ runs[x.run].status # "none"
                              /\ runs[x.run].lease = <<x.run, x.rev, x.fence>> /\ runs[x.run].at = x.at)'
    BY <1>3, <2>1 DEF CallStands, RunsKept
  <2>. QED  BY <2>2, <2>3, <2>4, <2>5, Zenon DEF CallStands
<1>4. ASSUME NEW r \in Runs
      PROVE  RunningStands(r)'
  <2> DEFINE key == <<r, "running">>
  <2>1. SUFFICES ASSUME key \in DOMAIN applied'
                 PROVE  /\ applied'[key].rev <= task'.rev
                        /\ applied'[key].rev = task'.rev => task'.by = r /\ task'.status = "running"
    BY DEF RunningStands
  <2>2. \/ key \in DOMAIN applied /\ applied'[key] = applied[key]
        \/ applied'[key].rev = task'.rev /\ task'.by = r /\ task'.status = "running"
    BY <2>1 DEF LedgerMoves
  <2>3. CASE key \in DOMAIN applied /\ applied'[key] = applied[key]
    <3>1. /\ applied[key].rev <= task.rev
          /\ applied[key].rev = task.rev => task.by = r /\ task.status = "running"
      BY <2>3 DEF SagaInv, RunningStands
    <3>2. applied[key].rev \in Nat
      BY <2>3 DEF SagaInv, TypeOK, Outcome
    <3>. QED  BY <1>1, <1>2, <2>3, <3>1, <3>2
  <2>4. CASE applied'[key].rev = task'.rev /\ task'.by = r /\ task'.status = "running"
    BY <1>1, <2>4
  <2>. QED  BY <2>2, <2>3, <2>4
<1>5. ASSUME NEW x \in Rescues, RescueStands(x)
      PROVE  RescueStands(x)'
  <2>1. x.gen \in Nat
    BY DEF Rescues
  <2>2. x.gen <= gen /\ (x.gen = gen /\ x.running => task.status = "running") /\ (x.step = "move" => x.running)
    BY <1>5 DEF RescueStands
  <2>3. x.gen <= gen' /\ (x.gen = gen' /\ x.running => task'.status = "running")
    BY <1>1, <1>2, <2>1, <2>2
  <2>. QED  BY <2>2, <2>3 DEF RescueStands
<1>6. task'.rev >= 1
  BY <1>1, <1>2
<1>. QED  BY <1>3, <1>4, <1>5, <1>6

\* One call moves, or none.
LEMMA CallStep ==
    ASSUME SagaInv, TypeOK', LedgerMoves, RunsKept,
           rescue' = rescue \/ rescue' = NoRescue \/ RescueStands(rescue)',
           \/ call' = call
           \/ \E s \in Services, y \in {NoCall} \cup Calls :
                 /\ call' = [call EXCEPT ![s] = y]
                 /\ y = NoCall \/ CallStands(y) \/ CallStands(y)'
    PROVE  SagaInv'
<1>1. /\ TypeOK
      /\ \A s \in Services : call[s] # NoCall => CallStands(call[s])
      /\ rescue # NoRescue => RescueStands(rescue)
  BY DEF SagaInv
<1>2. /\ \A x \in Calls : CallStands(x) => CallStands(x)'
      /\ \A r \in Runs : RunningStands(r)'
      /\ \A x \in Rescues : RescueStands(x) => RescueStands(x)'
      /\ task'.rev >= 1
  BY StandsLater
<1>4. call \in [Services -> {NoCall} \cup Calls]
  BY <1>1 DEF TypeOK
<1>5. ASSUME NEW c \in Services, call'[c] # NoCall
      PROVE  CallStands(call[c])'
  <2>1. PICK z : z = call'[c]
    OBVIOUS
  <2>2. z \in Calls
    BY <1>5, <2>1 DEF TypeOK
  <2>3. CallStands(z) \/ CallStands(z)'
    BY <1>1, <1>4, <1>5, <2>1
  <2>4. CallStands(z)'
    BY <1>2, <2>2, <2>3
  <2>. QED  BY <2>1, <2>4
<1>7. (rescue # NoRescue => RescueStands(rescue))'
  <2>1. PICK z : z = rescue'
    OBVIOUS
  <2>2. z # NoRescue => z \in Rescues /\ (RescueStands(z) \/ RescueStands(z)')
    <3>1. CASE rescue' = rescue
      BY <1>1, <2>1, <3>1 DEF TypeOK
    <3>2. CASE RescueStands(rescue)'
      <4>1. RescueStands(z)'
        BY <2>1, <3>2 DEF RescueStands
      <4>. QED  BY <2>1, <4>1 DEF TypeOK
    <3>. QED  BY <2>1, <3>1, <3>2
  <2>3. z # NoRescue => RescueStands(z)'
    BY <1>2, <2>2
  <2>. QED  BY <2>1, <2>3 DEF NoRescue
<1>8. (\A s \in Services : call[s] # NoCall => CallStands(call[s]))'
  BY <1>5 DEF NoCall
<1>10. (\A r \in Runs : RunningStands(r))' /\ (task.rev >= 1)'
  BY <1>2
<1>. QED  BY <1>7, <1>8, <1>10, Zenon DEF SagaInv

\* A step of one service: what it writes is well-formed, and what its call
\* knows afterwards holds.
LEMMA ServiceStep ==
    ASSUME SagaInv, NEW s \in Services, NEW y \in {NoCall} \cup Calls, call' = [call EXCEPT ![s] = y],
           y = NoCall \/ CallStands(y) \/ CallStands(y)',
           LedgerMoves, RunsKept, UNCHANGED <<stop, rescue, launched>>,
           task' = task \/ task' \in TaskHead,
           gen' = gen \/ gen' \in Nat,
           applied' = applied \/ applied' \in [DOMAIN applied' -> Outcome],
           assign' = assign \/ assign' \in [gen : Nat, rev : Nat],
           lease' = lease \/ lease' \in Row, slot' = slot \/ slot' \in [Slots -> Row],
           leaseRecs' = leaseRecs \/ leaseRecs' \subseteq LeaseRec,
           runs' = runs \/ runs' \in [Runs -> RunHead], receipts' \subseteq Runs,
           usage' = usage, (todo' = todo \/ todo' \in [Runs \X Stamps -> Nat]), (troubles' = troubles \/ troubles' \in Nat)
    PROVE  SagaInv'
<1>1. TypeOK
  BY DEF SagaInv
<1>2. call' \in [Services -> {NoCall} \cup Calls]
  BY <1>1 DEF TypeOK
<1>3. todo' \in [Runs \X Stamps -> Nat] /\ troubles' \in Nat
  BY <1>1 DEF TypeOK
<1>4. TypeOK'
  BY <1>1, <1>2, <1>3, TypeStep DEF TypeOK
<1>. QED  BY <1>4, CallStep

\* A step that moves only the call's place.
LEMMA PlainStands ==
    ASSUME SagaInv, NEW s \in Services, call[s] # NoCall, NEW y \in Calls,
           y.run = call[s].run, y.rev = call[s].rev,
           y.step \notin {"checkout", "running", "move", "launch"}
    PROVE  CallStands(y)
<1>1. CallStands(call[s])
  BY DEF SagaInv
<1>. QED  BY <1>1 DEF CallStands

\* A step that leaves the task ledger alone and only moves the call's place.
LEMMA PlainStep ==
    ASSUME SagaInv, NEW s \in Services, call[s].step # "idle", NEW y \in Calls, call' = [call EXCEPT ![s] = y],
           y.run = call[s].run, y.rev = call[s].rev, y.step \notin {"checkout", "running", "move", "launch"},
           UNCHANGED <<task, gen, applied, usage, stop, rescue, launched>>, RunsKept,
           assign' = assign \/ assign' \in [gen : Nat, rev : Nat],
           lease' = lease, slot' = slot, leaseRecs' = leaseRecs \/ leaseRecs' \subseteq LeaseRec,
           runs' = runs \/ runs' \in [Runs -> RunHead], receipts' \subseteq Runs,
           todo' = todo, (troubles' = troubles \/ troubles' \in Nat)
    PROVE  SagaInv' /\ TaskMovesInOrder
<1>1. TypeOK
  BY DEF SagaInv
<1>2. call[s] # NoCall
  BY <1>1, AtWork
<1>3. CallStands(y)
  BY <1>2, PlainStands
<1>4. LedgerMoves /\ TaskMovesInOrder
  BY DEF LedgerMoves, TaskMovesInOrder
<1>5. SagaInv'
  BY <1>3, <1>4, ServiceStep
<1>. QED  BY <1>4, <1>5

\* Preflight, checkout and execution: the task ledger is only read
\* (manual_heartbeat, _checkout, rebind, the renewal loop, pause_run and
\* cancel_run).
LEMMA RunSteps ==
    ASSUME SagaInv, NEW s \in Services,
           \/ \E r \in Runs, at \in Stamps : Begin(s, r, at) \/ Repeat(s, r, at)
           \/ Checkout(s) \/ Bind(s) \/ StoreRun(s) \/ Renew(s) \/ RenewFails(s) \/ SignalStored(s)
           \/ \E what \in {"pause", "cancel"} : Signal(s, what)
           \/ \E ok \in BOOLEAN : AdapterEnds(s, ok)
    PROVE  SagaInv' /\ TaskMovesInOrder
<1>1. /\ TypeOK
      /\ lease \in Row /\ slot \in [Slots -> Row] /\ leaseRecs \subseteq LeaseRec
      /\ runs \in [Runs -> RunHead] /\ receipts \subseteq Runs /\ todo \in [Runs \X Stamps -> Nat] /\ troubles \in Nat
      /\ gen \in Nat /\ usage \in Nat /\ task \in TaskHead /\ task.rev \in Nat /\ task.rev >= 1
  BY DEF SagaInv, TypeOK, TaskHead
<1>2. UNCHANGED <<task, gen, applied, assign, usage, stop, rescue, launched>>
  BY DEF Begin, Repeat, Checkout, Bind, StoreRun, Renew, RenewFails, SignalStored, Signal, AdapterEnds, board, records
<1>3. LedgerMoves /\ TaskMovesInOrder
  BY <1>2 DEF LedgerMoves, TaskMovesInOrder
<1>4. ASSUME NEW r \in Runs, NEW at \in Stamps, Begin(s, r, at)
      PROVE  SagaInv'
  <2>1. PICK n \in {"block", "checkout"}, why \in {"preflight", "policy", "checkout"} :
            /\ NewCall(s, r, at, n, why)
            /\ n = "checkout" => task.status \in {"ready", "blocked"}
    <3>1. \/ NewCall(s, r, at, "block", "preflight") \/ NewCall(s, r, at, "block", "policy")
          \/ NewCall(s, r, at, "checkout", "checkout") /\ task.status \in {"ready", "blocked"}
      BY <1>4, Zenon DEF Begin
    <3>. QED  BY <3>1
  <2>2. PICK g \in Nat, u \in Nat : /\ g = IF n = "checkout" THEN gen ELSE 0
                                    /\ u = IF n = "checkout" THEN usage ELSE 0
    BY <1>1
  <2> DEFINE y == [step |-> n, run |-> r, at |-> at, gen |-> g, use |-> u, why |-> why, fence |-> 0, slot |-> {}, rev |-> 0,
                   cancel |-> FALSE, intent |-> "none", error |-> "none", signal |-> FALSE, target |-> "none"]
  <2>3. y \in Calls
    <3>1. why \in Reasons
      BY DEF Reasons
    <3>. QED  BY <3>1 DEF Calls, Steps, Intents, Errors
  <2>4. call' = [call EXCEPT ![s] = y]
    BY <2>1, <2>2 DEF NewCall
  <2>5. y.step = n /\ y.run = r /\ y.gen = g /\ y.rev = 0
    OBVIOUS
  <2>. HIDE DEF y
  <2>6. CallStands(y) /\ y.step # "launch"
    BY <1>1, <2>1, <2>2, <2>5 DEF CallStands
  <2>7. UNCHANGED <<lease, slot, leaseRecs, runs, receipts>> /\ (todo' = todo \/ todo' \in [Runs \X Stamps -> Nat]) /\ troubles' = troubles
    BY <1>1, <1>4, CountsMove DEF Begin, rows, records
  <2>. QED  BY <1>1, <1>2, <1>3, <2>3, <2>4, <2>6, <2>7, ServiceStep DEF RunsKept
<1>5. ASSUME NEW r \in Runs, NEW at \in Stamps, Repeat(s, r, at)
      PROVE  SagaInv'
  <2>1. /\ call' = call /\ UNCHANGED <<lease, slot, leaseRecs, runs>> /\ receipts' \subseteq Runs
        /\ (todo' = todo \/ todo' \in [Runs \X Stamps -> Nat]) /\ troubles' = troubles
    BY <1>1, <1>5, CountsMove DEF Repeat, rows, StoreReceipt
  <2>2. todo' \in [Runs \X Stamps -> Nat] /\ troubles' \in Nat
    BY <1>1, <2>1
  <2>3. TypeOK'
    BY <1>1, <1>2, <2>1, <2>2, TypeStep DEF TypeOK
  <2>. QED  BY <1>2, <1>3, <2>1, <2>3, CallStep DEF RunsKept
<1>6. CASE Renew(s)
  <2>1. /\ UNCHANGED <<call, lease, slot, runs, receipts, todo, troubles>>
        /\ leaseRecs' = LeaseSet(LeaseId(s), "renewed")
    BY <1>6 DEF Renew, rows, counts
  <2>2. leaseRecs' \subseteq LeaseRec
    BY <1>1, <2>1, LeaseSetType
  <2>3. TypeOK'
    BY <1>1, <1>2, <2>1, <2>2, TypeStep DEF TypeOK
  <2>. QED  BY <1>2, <1>3, <2>1, <2>3, CallStep DEF RunsKept
<1>7. CASE Checkout(s)
  <2> DEFINE r == call[s].run
             free == {i \in Slots : CanTake(slot[i], r)}
  <2>1. call[s].step = "checkout" /\ call[s].step # "idle"
    BY <1>7 DEF Checkout
  <2>2. call[s] \in Calls /\ r \in Runs /\ call[s] # NoCall /\ call[s].rev \in Nat /\ call[s].gen \in Nat
    BY <1>1, <2>1, AtWork
  <2>3. UNCHANGED <<leaseRecs, runs, receipts, todo, troubles>>
    BY <1>7 DEF Checkout, records, counts
  <2>4. CASE Goto(s, "block") /\ UNCHANGED rows
    <3>1. PICK y \in Calls : /\ y.step = "block" /\ y.run = call[s].run /\ y.rev = call[s].rev
                             /\ call' = [call EXCEPT ![s] = y]
      BY <1>1, <2>1, <2>4, GotoMoves DEF Steps
    <3>2. RunsKept /\ lease' = lease /\ slot' = slot
      BY <2>3, <2>4 DEF rows, RunsKept
    <3>. QED  BY <1>1, <1>2, <2>1, <2>3, <3>1, <3>2, PlainStep
  <2>5. CASE \E i \in free :
                /\ slot' = [slot EXCEPT ![i] = Taken(@, r)]
                /\ lease' = Taken(lease, r)
                /\ call' = [call EXCEPT ![s].step = "running", ![s].fence = Taken(lease, r).fence,
                                        ![s].slot = {<<i, Taken(slot[i], r).fence>>}]
    <3>1. PICK i \in Slots :
              /\ slot' = [slot EXCEPT ![i] = Taken(slot[i], r)]
              /\ lease' = Taken(lease, r)
              /\ call' = [call EXCEPT ![s].step = "running", ![s].fence = Taken(lease, r).fence,
                                      ![s].slot = {<<i, Taken(slot[i], r).fence>>}]
      BY <2>5
    <3>2. /\ Taken(lease, r) \in Row /\ Taken(slot[i], r) \in Row
          /\ Taken(lease, r).fence \in Nat /\ Taken(slot[i], r).fence \in Nat
      BY <1>1, <2>2, RowMoves
    <3>3. PICK f \in Nat, h \in Nat : f = Taken(lease, r).fence /\ h = Taken(slot[i], r).fence
      BY <3>2
    <3> DEFINE y == [call[s] EXCEPT !.step = "running", !.fence = f, !.slot = {<<i, h>>}]
    <3>4. y \in Calls /\ y.step = "running" /\ y.run = r /\ y.rev = call[s].rev /\ y.gen = call[s].gen
      <4>1. {<<i, h>>} \in SUBSET (Slots \X Nat) /\ "running" \in Steps \ {"idle"}
        BY DEF Steps
      <4>. QED  BY <2>2, <4>1 DEF Calls
    <3>5. call' = [call EXCEPT ![s] = y]
      BY <1>1, <3>1, <3>3 DEF TypeOK
    <3>. HIDE DEF y
    <3>6. CallStands(y) /\ y.step # "launch"
      BY <2>1, <2>2, <3>4 DEF SagaInv, CallStands
    <3>7. lease' \in Row /\ slot' \in [Slots -> Row]
      BY <1>1, <3>1, <3>2
    <3>. QED  BY <1>1, <1>2, <1>3, <2>3, <3>4, <3>5, <3>6, <3>7, ServiceStep DEF RunsKept
  <2>. QED  BY <1>7, <2>4, <2>5 DEF Checkout
<1>8. CASE Bind(s)
  <2>1. call[s].step = "bind" /\ call[s].step # "idle"
    BY <1>8 DEF Bind
  <2>2. NewLease(s) \in LeaseRec
    BY <1>1, <2>1, AtWork DEF LeaseId, NewLease, LeaseRec
  <2>3. UNCHANGED <<lease, slot, runs, receipts, todo, troubles>>
    BY <1>8 DEF Bind, rows, counts
  <2>4. PICK n \in {"store", "block"} : Goto(s, n) /\ leaseRecs' \subseteq leaseRecs \cup {NewLease(s)}
    BY <1>8 DEF Bind
  <2>5. PICK y \in Calls : /\ y.step = n /\ y.run = call[s].run /\ y.rev = call[s].rev
                           /\ call' = [call EXCEPT ![s] = y]
    BY <1>1, <2>1, <2>4, GotoMoves DEF Steps
  <2>6. leaseRecs' \subseteq LeaseRec
    BY <1>1, <2>2, <2>4
  <2>7. RunsKept /\ y.step \notin {"checkout", "running", "move", "launch"}
    BY <2>3, <2>5 DEF RunsKept
  <2>. QED  BY <1>1, <1>2, <2>1, <2>3, <2>5, <2>6, <2>7, PlainStep
<1>9. CASE StoreRun(s)
  <2> DEFINE r == call[s].run
  <2>1. call[s].step = "store" /\ call[s].step # "idle"
    BY <1>9 DEF StoreRun
  <2>2. r \in Runs /\ LeaseId(s) \in Runs \X Nat \X Nat /\ call[s] # NoCall
    BY <1>1, <2>1, AtWork DEF LeaseId
  <2>3. UNCHANGED <<lease, slot, leaseRecs, receipts, todo, troubles>>
    BY <1>9 DEF StoreRun, rows, counts
  <2>4. CASE Goto(s, "terminalize") /\ UNCHANGED runs
    <3>1. PICK y \in Calls : /\ y.step = "terminalize" /\ y.run = call[s].run /\ y.rev = call[s].rev
                             /\ call' = [call EXCEPT ![s] = y]
      BY <1>1, <2>1, <2>4, GotoMoves DEF Steps
    <3>2. RunsKept /\ runs' = runs
      BY <2>4 DEF RunsKept
    <3>. QED  BY <1>1, <1>2, <2>1, <2>3, <3>1, <3>2, PlainStep
  <2> DEFINE new == [status |-> "running", lease |-> LeaseId(s), at |-> call[s].at]
  <2>5. CASE /\ RunIsNew(r) \/ runs[r] = new
             /\ Goto(s, "launch")
             /\ runs' = [runs EXCEPT ![r] = new]
    <3>1. PICK y \in Calls : /\ y.step = "launch" /\ y.run = r /\ y.rev = call[s].rev
                             /\ y.fence = call[s].fence /\ y.at = call[s].at
                             /\ call' = [call EXCEPT ![s] = y]
      BY <1>1, <2>1, <2>5, GotoMoves DEF Steps
    <3>2. new \in RunHead /\ new.status # "none" /\ new.lease = LeaseId(s) /\ new.at = call[s].at
      BY <1>1, <2>1, <2>2, AtWork DEF RunHead, Active
    <3>. HIDE DEF new
    <3>3. runs' \in [Runs -> RunHead] /\ RunsKept /\ runs'[y.run] = new
      BY <1>1, <2>2, <2>5, <3>1, <3>2 DEF RunsKept, RunIsNew
    <3>4. CallStands(call[s])
      BY <2>2 DEF SagaInv
    <3>5. CallStands(y)'
      <4>1. /\ y.rev <= task'.rev
            /\ y.rev = task'.rev => task'.by = y.run /\ task'.status = "running"
        BY <1>2, <3>1, <3>4 DEF CallStands
      <4>2. /\ runs'[y.run].status # "none"
            /\ runs'[y.run].lease = <<y.run, y.rev, y.fence>> /\ runs'[y.run].at = y.at
        BY <3>1, <3>2, <3>3 DEF LeaseId
      <4>. QED  BY <3>1, <4>1, <4>2 DEF CallStands
    <3>. QED  BY <1>1, <1>2, <1>3, <2>3, <3>1, <3>3, <3>5, ServiceStep
  <2>. QED  BY <1>9, <2>4, <2>5 DEF StoreRun
<1>10. CASE RenewFails(s) \/ (\E what \in {"pause", "cancel"} : Signal(s, what)) \/ SignalStored(s)
  <2>1. call[s].step = "execute" /\ call[s].step # "idle"
    BY <1>10 DEF RenewFails, Signal, SignalStored
  <2>2. call[s] \in Calls /\ call[s].run \in Runs /\ call[s].intent \in Intents
    BY <1>1, <2>1, AtWork
  <2>3. /\ UNCHANGED <<lease, slot, leaseRecs, receipts, todo>> /\ (troubles' = troubles \/ troubles' \in Nat)
        /\ runs' = runs \/ runs' = [runs EXCEPT ![call[s].run].status = "cancelling"]
    BY <1>1, <1>10, CountsMove DEF RenewFails, Signal, SignalStored, rows, records, counts
  <2>4. PICK y \in Calls : /\ y.step = "execute" /\ y.run = call[s].run /\ y.rev = call[s].rev
                           /\ call' = [call EXCEPT ![s] = y]
    <3>1. CASE RenewFails(s)
      <4>1. PICK e \in Errors, i \in Intents : call' = [call EXCEPT ![s].cancel = TRUE, ![s].error = e, ![s].intent = i]
        BY <2>2, <3>1 DEF RenewFails, Errors, Intents
      <4> DEFINE y == [call[s] EXCEPT !.cancel = TRUE, !.error = e, !.intent = i]
      <4>2. y \in Calls /\ y.step = "execute" /\ y.run = call[s].run /\ y.rev = call[s].rev
        BY <2>1, <2>2 DEF Calls
      <4>3. call' = [call EXCEPT ![s] = y]
        BY <1>1, <4>1 DEF TypeOK
      <4>. QED  BY <4>2, <4>3
    <3>2. ASSUME NEW what \in {"pause", "cancel"}, Signal(s, what)
          PROVE  \E y \in Calls : /\ y.step = "execute" /\ y.run = call[s].run /\ y.rev = call[s].rev
                                  /\ call' = [call EXCEPT ![s] = y]
      <4> DEFINE y == [call[s] EXCEPT !.cancel = TRUE, !.intent = what, !.signal = TRUE]
      <4>1. y \in Calls /\ y.step = "execute" /\ y.run = call[s].run /\ y.rev = call[s].rev
        BY <2>1, <2>2 DEF Calls, Intents
      <4>2. call' = [call EXCEPT ![s] = y]
        BY <1>1, <3>2 DEF TypeOK, Signal
      <4>. QED  BY <4>1, <4>2
    <3>3. CASE SignalStored(s)
      <4> DEFINE y == [call[s] EXCEPT !.signal = FALSE]
      <4>1. y \in Calls /\ y.step = "execute" /\ y.run = call[s].run /\ y.rev = call[s].rev
        BY <2>1, <2>2 DEF Calls
      <4>2. call' = [call EXCEPT ![s] = y]
        BY <1>1, <3>3 DEF TypeOK, SignalStored
      <4>. QED  BY <4>1, <4>2
    <3>. QED  BY <1>10, <3>1, <3>2, <3>3
  <2>5. runs' \in [Runs -> RunHead] /\ RunsKept
    BY <1>1, <2>2, <2>3 DEF RunHead, Active, RunsKept
  <2>6. y.step \notin {"checkout", "running", "move", "launch"}
    BY <2>4
  <2>. QED  BY <1>1, <1>2, <2>1, <2>3, <2>4, <2>5, <2>6, PlainStep
<1>11. ASSUME NEW ok \in BOOLEAN, AdapterEnds(s, ok)
       PROVE  SagaInv'
  <2>1. call[s].step = "execute" /\ call[s].step # "idle"
    BY <1>11 DEF AdapterEnds
  <2>2. call[s] \in Calls /\ call[s].run \in Runs /\ call[s].intent \in Intents
    BY <1>1, <2>1, AtWork
  <2>3. UNCHANGED <<lease, slot, leaseRecs, runs, receipts, todo, troubles>>
    BY <1>11 DEF AdapterEnds, rows, records, counts
  <2>4. PICK n \in {"terminalize", "verify"}, g \in {"blocked", "cancelled", "review"} :
            call' = [call EXCEPT ![s].step = n, ![s].target = g]
    BY <1>11 DEF AdapterEnds
  <2> DEFINE y == [call[s] EXCEPT !.step = n, !.target = g]
  <2>5. y \in Calls /\ y.step = n /\ y.run = call[s].run /\ y.rev = call[s].rev
    BY <2>2 DEF Calls, Steps
  <2>6. call' = [call EXCEPT ![s] = y]
    BY <1>1, <2>4 DEF TypeOK
  <2>. HIDE DEF y
  <2>7. RunsKept /\ y.step \notin {"checkout", "running", "move", "launch"}
    BY <2>3, <2>5 DEF RunsKept
  <2>. QED  BY <1>1, <1>2, <2>1, <2>3, <2>5, <2>6, <2>7, PlainStep
<1>. QED  BY <1>3, <1>4, <1>5, <1>6, <1>7, <1>8, <1>9, <1>10, <1>11

\* The end of a heartbeat and its errors, as far as they leave the task ledger
\* alone (_finish_run, _terminalize_exception, _release_checkout).
LEMMA EndSteps ==
    ASSUME SagaInv, NEW s \in Services,
           \/ Verify(s) \/ FinishRebind(s) \/ FinishRun(s) \/ FinishReceipt(s)
           \/ Fault(s) \/ Terminalize(s) \/ Release(s) \/ Crash(s)
    PROVE  SagaInv' /\ TaskMovesInOrder
<1>1. /\ TypeOK
      /\ lease \in Row /\ slot \in [Slots -> Row] /\ leaseRecs \subseteq LeaseRec
      /\ runs \in [Runs -> RunHead] /\ receipts \subseteq Runs /\ gen \in Nat
  BY DEF SagaInv, TypeOK
<1>2. UNCHANGED <<task, gen, applied, usage, stop, rescue, launched>>
  BY DEF Verify, FinishRebind, FinishRun, FinishReceipt, Fault, Terminalize, Release, Crash, board, records
<1>3. LedgerMoves /\ TaskMovesInOrder
  BY <1>2 DEF LedgerMoves, TaskMovesInOrder
<1>4. call[s].step # "idle"
  BY DEF Verify, FinishRebind, FinishRun, FinishReceipt, Fault, Terminalize, Release, Crash
<1>5. /\ call[s] \in Calls /\ call[s] # NoCall /\ call[s].run \in Runs /\ call[s].rev \in Nat /\ call[s].fence \in Nat
      /\ call[s].slot \subseteq Slots \X Nat /\ LeaseId(s) \in Runs \X Nat \X Nat
  BY <1>1, <1>4, AtWork DEF LeaseId
<1>6. CallStands(call[s])
  BY <1>5 DEF SagaInv
<1>7. CASE Verify(s)
  <2>1. UNCHANGED <<assign, lease, slot, leaseRecs, runs, receipts, todo, troubles>>
    BY <1>7 DEF Verify, rows, records, counts
  <2>2. RunsKept
    BY <2>1 DEF RunsKept
  <2>3. CASE Goto(s, "terminalize")
    <3>1. PICK y \in Calls : /\ y.step = "terminalize" /\ y.run = call[s].run /\ y.rev = call[s].rev
                             /\ call' = [call EXCEPT ![s] = y]
      BY <1>1, <1>4, <2>3, GotoMoves DEF Steps
    <3>. QED  BY <1>1, <1>2, <1>4, <2>1, <2>2, <3>1, PlainStep
  <2>4. CASE FenceValid(s) /\ call' = [call EXCEPT ![s].step = "move", ![s].gen = gen]
    <3> DEFINE y == [call[s] EXCEPT !.step = "move", !.gen = gen]
    <3>1. y \in Calls /\ y.step = "move" /\ y.run = call[s].run /\ y.rev = call[s].rev /\ y.gen = gen
      BY <1>1, <1>5 DEF Calls, Steps
    <3>2. call' = [call EXCEPT ![s] = y]
      BY <1>1, <2>4 DEF TypeOK
    <3>. HIDE DEF y
    <3>3. CallStands(y) /\ y.step # "launch"
      BY <1>1, <1>6, <2>4, <3>1 DEF CallStands, FenceValid
    <3>. QED  BY <1>1, <1>2, <1>3, <2>1, <2>2, <3>1, <3>2, <3>3, ServiceStep
  <2>. QED  BY <1>7, <2>3, <2>4 DEF Verify
<1>8. CASE FinishRebind(s)
  <2>1. UNCHANGED <<lease, slot, leaseRecs, runs, receipts, todo, troubles>> /\ assign' \in [gen : Nat, rev : Nat]
    BY <1>1, <1>8, ResultType DEF FinishRebind, rows, records, counts
  <2>2. PICK y \in Calls : /\ y.step = "final" /\ y.run = call[s].run /\ y.rev = call[s].rev
                           /\ call' = [call EXCEPT ![s] = y]
    BY <1>1, <1>4, <1>8, GotoMoves DEF FinishRebind, Steps
  <2>3. RunsKept
    BY <2>1 DEF RunsKept
  <2>. QED  BY <1>1, <1>2, <1>4, <2>1, <2>2, <2>3, PlainStep
<1>9. CASE FinishRun(s) \/ Terminalize(s)
  <2>1. UNCHANGED <<assign, lease, slot, leaseRecs, receipts, todo, troubles>>
    BY <1>9 DEF FinishRun, Terminalize, rows, counts
  <2>2. PICK n \in {"receipt", "unwind"} : Goto(s, n)
    BY <1>9 DEF FinishRun, Terminalize
  <2>3. PICK y \in Calls : /\ y.step = n /\ y.run = call[s].run /\ y.rev = call[s].rev
                           /\ call' = [call EXCEPT ![s] = y]
    BY <1>1, <1>4, <2>2, GotoMoves DEF Steps
  <2>4. runs' \in [Runs -> RunHead] /\ RunsKept
    <3>1. CASE FinishRun(s)
      <4>1. PICK e \in Ended : runs' = [runs EXCEPT ![call[s].run].status = e]
        BY <3>1 DEF FinishRun, EndStatus, Ended
      <4>2. e \in Active \cup Ended \cup {"none"} /\ e # "none"
        BY DEF Ended
      <4>. QED  BY <1>1, <1>5, <4>1, <4>2 DEF RunHead, RunsKept
    <3>2. CASE Terminalize(s)
      <4>1. PICK l, a : /\ runs' = [runs EXCEPT ![call[s].run] = [status |-> "failed", lease |-> l, at |-> a]]
                        /\ l = IF runs[call[s].run].status = "none" THEN LeaseId(s) ELSE runs[call[s].run].lease
                        /\ a = IF runs[call[s].run].status = "none" THEN call[s].at ELSE runs[call[s].run].at
        BY <3>2 DEF Terminalize
      <4>2. l \in (Runs \cup {NoRun}) \X Nat \X Nat /\ a \in Stamps \cup {NoRun}
        <5>1. /\ runs[call[s].run].lease \in (Runs \cup {NoRun}) \X Nat \X Nat
              /\ runs[call[s].run].at \in Stamps \cup {NoRun}
          BY <1>1, <1>5 DEF RunHead
        <5>2. LeaseId(s) \in (Runs \cup {NoRun}) \X Nat \X Nat /\ call[s].at \in Stamps
          BY <1>1, <1>4, <1>5, AtWork
        <5>. QED  BY <4>1, <5>1, <5>2
      <4>3. [status |-> "failed", lease |-> l, at |-> a] \in RunHead
        BY <4>2 DEF RunHead, Ended
      <4>. QED  BY <1>1, <1>5, <4>1, <4>3 DEF RunsKept
    <3>. QED  BY <1>9, <3>1, <3>2
  <2>5. y.step \notin {"checkout", "running", "move", "launch"}
    BY <2>3
  <2>. QED  BY <1>1, <1>2, <1>4, <2>1, <2>3, <2>4, <2>5, PlainStep
<1>10. CASE FinishReceipt(s)
  <2>1. UNCHANGED <<assign, lease, slot, leaseRecs, runs, todo, troubles>> /\ receipts' \subseteq Runs
    BY <1>1, <1>5, <1>10 DEF FinishReceipt, rows, counts, StoreReceipt
  <2>2. PICK y \in Calls : /\ y.step = "release" /\ y.run = call[s].run /\ y.rev = call[s].rev
                           /\ call' = [call EXCEPT ![s] = y]
    BY <1>1, <1>4, <1>10, GotoMoves DEF FinishReceipt, Steps
  <2>3. RunsKept
    BY <2>1 DEF RunsKept
  <2>. QED  BY <1>1, <1>2, <1>4, <2>1, <2>2, <2>3, PlainStep
<1>11. CASE Fault(s)
  <2>1. UNCHANGED <<assign, lease, slot, leaseRecs, runs, receipts, todo>> /\ (troubles' = troubles \/ troubles' \in Nat)
    BY <1>1, <1>11, CountsMove DEF Fault, rows, records
  <2>2. PICK n \in {"release", "block", "terminalize"} : Goto(s, n)
    BY <1>11 DEF Fault, AfterFault
  <2>3. PICK y \in Calls : /\ y.step = n /\ y.run = call[s].run /\ y.rev = call[s].rev
                           /\ call' = [call EXCEPT ![s] = y]
    BY <1>1, <1>4, <2>2, GotoMoves DEF Steps
  <2>4. RunsKept /\ y.step \notin {"checkout", "running", "move", "launch"}
    BY <2>1, <2>3 DEF RunsKept
  <2>. QED  BY <1>1, <1>2, <1>4, <2>1, <2>3, <2>4, PlainStep
<1>12. CASE Crash(s)
  <2>1. /\ UNCHANGED <<assign, lease, slot, leaseRecs, runs, receipts, todo>> /\ (troubles' = troubles \/ troubles' \in Nat)
        /\ call' = [call EXCEPT ![s] = NoCall]
    BY <1>1, <1>12, CountsMove DEF Crash, rows, records
  <2>2. RunsKept /\ NoCall.step # "launch"
    BY <2>1 DEF RunsKept, NoCall
  <2>. QED  BY <1>1, <1>2, <1>3, <2>1, <2>2, ServiceStep
<1>13. CASE Release(s)
  <2> DEFINE r == call[s].run
  <2>1. /\ UNCHANGED <<assign, runs, receipts, todo, troubles>> /\ call' = [call EXCEPT ![s] = NoCall]
        /\ leaseRecs' \subseteq LeaseRec
    BY <1>1, <1>13, LeaseSetType DEF Release, counts
  <2>2. lease' \in Row
    BY <1>1, <1>5, <1>13, RowMoves DEF Release
  <2>3. slot' \in [Slots -> Row]
    <3>1. ASSUME NEW i \in Slots, \E x \in call[s].slot : x[1] = i
          PROVE  Dropped(slot[i], r, (CHOOSE x \in call[s].slot : x[1] = i)[2]) \in Row
      <4> DEFINE x == CHOOSE x \in call[s].slot : x[1] = i
      <4>1. x \in call[s].slot
        BY <3>1
      <4>2. x[2] \in Nat
        BY <1>5, <4>1
      <4>3. slot[i] \in Row
        BY <1>1
      <4>. HIDE DEF x
      <4>4. Dropped(slot[i], r, x[2]) \in Row
        BY <1>5, <4>2, <4>3, RowMoves
      <4>. QED  BY <4>4 DEF x
    <3>2. \A i \in Slots : slot[i] \in Row
      BY <1>1
    <3>. QED  BY <1>13, <3>1, <3>2 DEF Release
  <2>4. RunsKept /\ NoCall.step # "launch"
    BY <2>1 DEF RunsKept, NoCall
  <2>. QED  BY <1>1, <1>2, <1>3, <2>1, <2>2, <2>3, <2>4, ServiceStep
<1>. QED  BY <1>7, <1>8, <1>9, <1>10, <1>11, <1>12, <1>13

\* The heartbeat's commands to the task ledger (transition_task as
\* _blocked_preflight, manual_heartbeat, _finish_run and _terminalize_exception
\* call it).
LEMMA LedgerSteps ==
    ASSUME SagaInv, NEW s \in Services, Block(s) \/ ToRunning(s) \/ FinishMove(s) \/ Unwind(s)
    PROVE  SagaInv' /\ TaskMovesInOrder
<1>1. /\ TypeOK /\ task \in TaskHead /\ task.rev \in Nat /\ gen \in Nat
      /\ receipts \subseteq Runs
  BY DEF SagaInv, TypeOK, TaskHead
<1>2. UNCHANGED <<lease, slot, leaseRecs, runs, receipts, usage, stop, rescue, launched, todo, troubles>> /\ RunsKept
  BY DEF Block, ToRunning, FinishMove, Unwind, rows, records, counts, RunsKept
<1>3. call[s].step # "idle"
  BY DEF Block, ToRunning, FinishMove, Unwind
<1>4. /\ call[s] \in Calls /\ call[s] # NoCall /\ call[s].run \in Runs /\ call[s].rev \in Nat /\ call[s].gen \in Nat
      /\ call[s].why \in Reasons /\ call[s].intent \in Intents
      /\ call[s].target \in {"none", "blocked", "cancelled", "review"}
  BY <1>1, <1>3, AtWork
<1>5. CallStands(call[s])
  BY <1>4 DEF SagaInv
<1> DEFINE r == call[s].run
\* A command that blocks the task, or its earlier result.
<1>6. ASSUME NEW why \in Reasons, task.status \in {"ready", "running"},
             Apply(<<r, "blocked">>, "blocked", why, r)
      PROVE  /\ task' \in TaskHead /\ gen' \in Nat /\ applied' \in [DOMAIN applied' -> Outcome]
             /\ LedgerMoves /\ TaskMovesInOrder
  <2>1. \A q \in Runs : <<r, "blocked">> # <<q, "running">>
    OBVIOUS
  <2>2. "blocked" \in Statuses
    BY DEF Statuses
  <2>3. /\ task' \in TaskHead /\ gen' \in Nat /\ applied' \in [DOMAIN applied' -> Outcome]
        /\ task'.status = "blocked" /\ LedgerMoves
    BY <1>1, <1>4, <1>6, <2>1, <2>2, ApplyMoves
  <2>. QED  BY <1>6, <2>3 DEF TaskMovesInOrder
<1>7. CASE Block(s) \/ Unwind(s)
  <2>1. PICK y \in Calls : /\ y.step = "release" /\ y.run = r /\ y.rev = call[s].rev
                           /\ call' = [call EXCEPT ![s] = y]
    BY <1>1, <1>3, <1>7, GotoMoves DEF Block, Unwind, Steps
  <2>2. CallStands(y) /\ y.step # "launch"
    BY <1>4, <2>1, PlainStands
  <2>3. assign' = assign \/ assign' \in [gen : Nat, rev : Nat]
    BY <1>1, <1>7, ResultType DEF Block, Unwind
  <2>4. \/ UNCHANGED <<task, gen, applied>>
        \/ \E why \in Reasons : task.status \in {"ready", "running"} /\ Apply(<<r, "blocked">>, "blocked", why, r)
    <3>1. CASE Block(s)
      BY <1>4, <3>1, Zenon DEF Block, board
    <3>2. CASE Unwind(s)
      <4>1. "runtime" \in Reasons
        BY DEF Reasons
      <4>2. \/ UNCHANGED <<task, gen, applied>>
            \/ task.status = "running" /\ Apply(<<r, "blocked">>, "blocked", "runtime", r)
        BY <3>2, Zenon DEF Unwind, board
      <4>. QED  BY <4>1, <4>2
    <3>. QED  BY <1>7, <3>1, <3>2
  <2>5. CASE UNCHANGED <<task, gen, applied>>
    <3>1. LedgerMoves /\ TaskMovesInOrder
      BY <2>5 DEF LedgerMoves, TaskMovesInOrder
    <3>. QED  BY <1>1, <1>2, <2>1, <2>2, <2>3, <2>5, <3>1, ServiceStep
  <2>6. CASE \E why \in Reasons : task.status \in {"ready", "running"} /\ Apply(<<r, "blocked">>, "blocked", why, r)
    <3>1. /\ task' \in TaskHead /\ gen' \in Nat /\ applied' \in [DOMAIN applied' -> Outcome]
          /\ LedgerMoves /\ TaskMovesInOrder
      BY <1>6, <2>6
    <3>. QED  BY <1>1, <1>2, <2>1, <2>2, <2>3, <3>1, ServiceStep
  <2>. QED  BY <2>4, <2>5, <2>6
<1>8. CASE ToRunning(s)
  <2> DEFINE key == <<r, "running">>
  <2>1. call[s].step = "running" /\ assign' = assign
    BY <1>8 DEF ToRunning
  <2>2. CASE Goto(s, "block") /\ UNCHANGED board
    <3>1. PICK y \in Calls : /\ y.step = "block" /\ y.run = r /\ y.rev = call[s].rev
                             /\ call' = [call EXCEPT ![s] = y]
      BY <1>1, <1>3, <2>2, GotoMoves DEF Steps
    <3>2. UNCHANGED <<task, gen, applied>>
      BY <2>2 DEF board
    <3>. QED  BY <1>1, <1>2, <1>3, <2>1, <3>1, <3>2, PlainStep
  <2>3. ASSUME NEW v \in Nat, call' = [call EXCEPT ![s].step = "bind", ![s].gen = 0, ![s].rev = v],
               LedgerMoves, v <= task'.rev, v = task'.rev => task'.by = r /\ task'.status = "running",
               task' = task \/ task' \in TaskHead, gen' = gen \/ gen' \in Nat,
               applied' = applied \/ applied' \in [DOMAIN applied' -> Outcome]
        PROVE  SagaInv'
    <3>1. PICK y \in Calls : y.step = "bind" /\ y.run = r /\ y.rev = v /\ call' = [call EXCEPT ![s] = y]
      <4> DEFINE y == [call[s] EXCEPT !.step = "bind", !.gen = 0, !.rev = v]
      <4>1. y \in Calls /\ y.step = "bind" /\ y.run = r /\ y.rev = v
        BY <1>4 DEF Calls, Steps
      <4>2. call' = [call EXCEPT ![s] = y]
        BY <1>1, <2>3 DEF TypeOK
      <4>. QED  BY <4>1, <4>2
    <3>2. CallStands(y)' /\ y.step # "launch"
      BY <2>3, <3>1 DEF CallStands
    <3>. QED  BY <1>1, <1>2, <2>1, <2>3, <3>1, <3>2, ServiceStep
  <2>4. CASE /\ Replayed(key, "run") /\ UNCHANGED board
             /\ call' = [call EXCEPT ![s].step = "bind", ![s].gen = 0, ![s].rev = Result(key).rev]
    <3>1. Result(key).rev = applied[key].rev /\ key \in DOMAIN applied
      BY <2>4 DEF Result, Replayed
    <3>2. applied[key].rev <= task.rev /\ (applied[key].rev = task.rev => task.by = r /\ task.status = "running")
      BY <1>4, <3>1 DEF SagaInv, RunningStands
    <3>3. PICK v \in Nat : v = Result(key).rev
      BY <1>1, ResultType
    <3>4. UNCHANGED <<task, gen, applied>> /\ LedgerMoves /\ TaskMovesInOrder
      BY <2>4 DEF board, LedgerMoves, TaskMovesInOrder
    <3>. QED  BY <2>3, <2>4, <3>1, <3>2, <3>3, <3>4
  <2>5. CASE /\ Applies(key, "running", call[s].gen) /\ Apply(key, "running", "run", r)
             /\ call' = [call EXCEPT ![s].step = "bind", ![s].gen = 0, ![s].rev = Result(key).rev]
    <3>1. Result(key).rev = task.rev + 1 /\ call[s].gen = gen
      BY <2>5 DEF Result, Applies, BoardAt
    <3>2. task.status \in {"ready", "blocked"}
      BY <1>5, <2>1, <3>1 DEF CallStands
    <3>3. "running" \in Statuses /\ "run" \in Reasons
      BY DEF Statuses, Reasons
    <3>4. /\ task' \in TaskHead /\ gen' \in Nat /\ applied' \in [DOMAIN applied' -> Outcome]
          /\ task'.status = "running" /\ task'.rev = task.rev + 1 /\ LedgerMoves
      BY <1>1, <1>4, <2>5, <3>3, ApplyMoves
    <3>5. task'.by = r
      BY <2>5 DEF Apply
    <3>6. PICK v \in Nat : v = Result(key).rev
      BY <1>1, ResultType
    <3>7. TaskMovesInOrder
      BY <3>2 DEF TaskMovesInOrder
    <3>8. v <= task'.rev /\ call' = [call EXCEPT ![s].step = "bind", ![s].gen = 0, ![s].rev = v]
      BY <1>1, <2>5, <3>1, <3>4, <3>6
    <3>9. SagaInv'
      BY <2>3, <3>4, <3>5, <3>8
    <3>. QED  BY <3>7, <3>9
  <2>. QED  BY <1>8, <2>2, <2>4, <2>5, Zenon DEF ToRunning
<1>9. CASE FinishMove(s)
  <2> DEFINE key == FinishKey(s)
             target == call[s].target
  <2>1. call[s].step = "move" /\ assign' = assign
    BY <1>9 DEF FinishMove
  <2>2. CASE Goto(s, "terminalize") /\ UNCHANGED board
    <3>1. PICK y \in Calls : /\ y.step = "terminalize" /\ y.run = r /\ y.rev = call[s].rev
                             /\ call' = [call EXCEPT ![s] = y]
      BY <1>1, <1>3, <2>2, GotoMoves DEF Steps
    <3>2. UNCHANGED <<task, gen, applied>>
      BY <2>2 DEF board
    <3>. QED  BY <1>1, <1>2, <1>3, <2>1, <3>1, <3>2, PlainStep
  <2>3. CASE /\ Applies(key, target, call[s].gen) /\ Apply(key, target, call[s].intent, r)
             /\ call' = [call EXCEPT ![s].step = "rebind", ![s].gen = 0]
    <3>1. task.by = r /\ task.status = "running"
      BY <1>5, <2>1, <2>3 DEF CallStands, Applies, BoardAt
    <3>2. target \in Statuses
      <4>1. target \in Allowed["running"]
        BY <2>3, <3>1 DEF Applies
      <4>. QED  BY <4>1 DEF Allowed, Statuses
    <3>3. call[s].intent \in Reasons
      BY <1>4 DEF Reasons
    <3>4. \A q \in Runs : key # <<q, "running">>
      BY <1>4 DEF FinishKey
    <3>5. /\ task' \in TaskHead /\ gen' \in Nat /\ applied' \in [DOMAIN applied' -> Outcome] /\ LedgerMoves
      BY <1>1, <1>4, <2>3, <3>2, <3>3, <3>4, ApplyMoves
    <3>6. TaskMovesInOrder
      BY <2>1, <3>1 DEF TaskMovesInOrder
    <3> DEFINE y == [call[s] EXCEPT !.step = "rebind", !.gen = 0]
    <3>7. y \in Calls /\ y.step = "rebind" /\ y.run = r /\ y.rev = call[s].rev
      BY <1>4 DEF Calls, Steps
    <3>8. call' = [call EXCEPT ![s] = y]
      BY <1>1, <2>3 DEF TypeOK
    <3>. HIDE DEF y
    <3>9. CallStands(y) /\ y.step # "launch"
      BY <1>4, <3>7, PlainStands
    <3>. QED  BY <1>1, <1>2, <2>1, <3>5, <3>6, <3>7, <3>8, <3>9, ServiceStep
  <2>. QED  BY <1>9, <2>2, <2>3, Zenon DEF FinishMove
<1>. QED  BY <1>7, <1>8, <1>9

\* The launch: the run record is this call's (store.put with
\* expected_revision=None, then adapter.execute).
LEMMA LaunchStep ==
    ASSUME SagaInv, NEW s \in Services, Launch(s)
    PROVE  SagaInv' /\ TaskMovesInOrder
<1>1. TypeOK /\ launched \in [Runs -> Nat]
  BY DEF SagaInv, TypeOK
<1>2. UNCHANGED <<task, gen, applied, assign, lease, slot, leaseRecs, runs, receipts, stop, rescue, todo, troubles>>
  BY DEF Launch, board, rows, counts
<1>3. call[s].step = "launch" /\ call[s].step # "idle"
  BY DEF Launch
<1>4. call[s] \in Calls /\ call[s] # NoCall /\ call[s].run \in Runs /\ call[s].use \in Nat
  BY <1>1, <1>3, AtWork
<1>5. PICK y \in Calls : /\ y.step = "execute" /\ y.run = call[s].run /\ y.rev = call[s].rev
                         /\ call' = [call EXCEPT ![s] = y]
  <2> DEFINE y == [call[s] EXCEPT !.step = "execute", !.use = 0]
  <2>1. y \in Calls /\ y.step = "execute" /\ y.run = call[s].run /\ y.rev = call[s].rev
    BY <1>4 DEF Calls, Steps
  <2>2. call' = [call EXCEPT ![s] = y]
    BY <1>1 DEF Launch, TypeOK
  <2>. QED  BY <2>1, <2>2
<1>6. launched' \in [Runs -> Nat] /\ usage' \in Nat
  BY <1>1, <1>4 DEF Launch
<1>7. call' \in [Services -> {NoCall} \cup Calls]
  BY <1>1, <1>5 DEF TypeOK
<1>8. TypeOK'
  BY <1>1, <1>2, <1>6, <1>7, TypeStep DEF TypeOK
<1>9. LedgerMoves /\ RunsKept /\ TaskMovesInOrder
  BY <1>2 DEF LedgerMoves, RunsKept, TaskMovesInOrder
<1>10. CallStands(y)
  BY <1>4, <1>5, PlainStands
<1>. QED  BY <1>2, <1>5, <1>8, <1>9, <1>10, CallStep

\* recover_stale_runs: it blocks a task only on the generation in which it saw
\* the task running.
LEMMA RecoverySteps ==
    ASSUME SagaInv, (\E r \in Runs : RecoverSees(r)) \/ RecoverFails \/ RecoverMoves \/ RecoverCrashes
    PROVE  SagaInv' /\ TaskMovesInOrder
<1>1. /\ TypeOK /\ runs \in [Runs -> RunHead] /\ leaseRecs \subseteq LeaseRec /\ gen \in Nat
      /\ rescue \in {NoRescue} \cup Rescues /\ troubles \in Nat
      /\ rescue # NoRescue => RescueStands(rescue)
  BY DEF SagaInv, TypeOK
<1>2. UNCHANGED <<assign, lease, slot, receipts, usage, stop, launched, todo>>
  BY <1>1, CountsMove DEF RecoverSees, RecoverFails, RecoverMoves, RecoverCrashes, rows, records, counts
<1>3. ASSUME LedgerMoves, RunsKept, TaskMovesInOrder,
             task' = task \/ task' \in TaskHead, gen' = gen \/ gen' \in Nat,
             applied' = applied \/ applied' \in [DOMAIN applied' -> Outcome],
             leaseRecs' \subseteq LeaseRec, runs' = runs \/ runs' \in [Runs -> RunHead],
             rescue' \in {NoRescue} \cup Rescues, rescue' = rescue \/ rescue' = NoRescue \/ RescueStands(rescue)',
             (troubles' = troubles \/ troubles' \in Nat),
             \/ call' = call
             \/ \E s \in Services, y \in Calls : call' = [call EXCEPT ![s] = y] /\ CallStands(y)
      PROVE  SagaInv' /\ TaskMovesInOrder
  <2>1. call' \in [Services -> {NoCall} \cup Calls]
    BY <1>1, <1>3 DEF TypeOK
  <2>2. TypeOK'
    BY <1>1, <1>2, <1>3, <2>1, TypeStep DEF TypeOK
  <2>. QED  BY <1>2, <1>3, <2>2, CallStep
<1>4. ASSUME NEW r \in Runs, RecoverSees(r)
      PROVE  SagaInv' /\ TaskMovesInOrder
  <2>1. UNCHANGED <<task, gen, applied, leaseRecs, runs, troubles>>
    BY <1>4 DEF RecoverSees, board, records, counts
  <2>2. PICK b \in BOOLEAN : b = (task.status = "running")
    OBVIOUS
  <2>0. PICK h \in BOOLEAN : h = \E e \in leaseRecs : e.id = runs[r].lease /\ e.state # "ended"
    OBVIOUS
  <2> DEFINE x == [step |-> "fail", run |-> r, gen |-> gen, held |-> h, running |-> b]
  <2>3. x \in Rescues /\ x.gen = gen /\ x.step = "fail" /\ x.running = b
    BY <1>1 DEF Rescues
  <2>4. rescue' = x
    BY <1>4, <2>0, <2>2 DEF RecoverSees
  <2>5. RescueStands(rescue)'
    <3>. HIDE DEF x
    <3>1. rescue'.gen <= gen' /\ rescue'.step # "move"
      BY <1>1, <2>1, <2>3, <2>4
    <3>2. rescue'.running => task.status = "running"
      BY <2>2, <2>3, <2>4, Zenon
    <3>. QED  BY <2>1, <3>1, <3>2 DEF RescueStands
  <2>6. LedgerMoves /\ RunsKept /\ TaskMovesInOrder
    BY <2>1 DEF LedgerMoves, RunsKept, TaskMovesInOrder
  <2>7. \/ call' = call
        \/ \E s \in Services, y \in Calls : call' = [call EXCEPT ![s] = y] /\ CallStands(y)
    <3>1. SUFFICES ASSUME NEW s \in Services, call[s].step = "execute",
                          call' = [call EXCEPT ![s].cancel = TRUE, ![s].intent = "cancel"]
                   PROVE  \E y \in Calls : call' = [call EXCEPT ![s] = y] /\ CallStands(y)
      BY <1>4 DEF RecoverSees
    <3> DEFINE y == [call[s] EXCEPT !.cancel = TRUE, !.intent = "cancel"]
    <3>2. call[s] \in Calls /\ call[s] # NoCall
      BY <1>1, <3>1, AtWork
    <3>3. y \in Calls /\ y.step = "execute" /\ y.run = call[s].run /\ y.rev = call[s].rev
      BY <3>1, <3>2 DEF Calls, Intents
    <3>4. call' = [call EXCEPT ![s] = y]
      BY <1>1, <3>1 DEF TypeOK
    <3>. HIDE DEF y
    <3>5. CallStands(y)
      BY <3>2, <3>3, PlainStands
    <3>. QED  BY <3>3, <3>4, <3>5
  <2>. QED  BY <1>1, <1>3, <2>1, <2>3, <2>4, <2>5, <2>6, <2>7
<1>5. CASE RecoverFails
  <2>1. UNCHANGED <<task, gen, applied, troubles, call>> /\ leaseRecs' \subseteq LeaseRec
    BY <1>1, <1>5, LeaseSetType DEF RecoverFails, board, counts
  <2>2. rescue \in Rescues /\ rescue # NoRescue /\ rescue.run \in Runs
    BY <1>1, <1>5 DEF RecoverFails, NoRescue, Rescues
  <2>3. runs' \in [Runs -> RunHead] /\ RunsKept
    BY <1>1, <1>5, <2>2 DEF RecoverFails, RunHead, RunsKept, Ended
  <2>4. LedgerMoves /\ TaskMovesInOrder
    BY <2>1 DEF LedgerMoves, TaskMovesInOrder
  <2>5. CASE rescue' = NoRescue
    BY <1>3, <2>1, <2>3, <2>4, <2>5
  <2>6. CASE rescue.running /\ rescue' = [rescue EXCEPT !.step = "move"]
    <3>1. rescue' \in Rescues /\ rescue'.gen = rescue.gen /\ rescue'.running
      BY <2>2, <2>6 DEF Rescues
    <3>2. rescue.gen <= gen /\ (rescue.gen = gen => task.status = "running")
      BY <1>1, <2>2, <2>6 DEF RescueStands
    <3>3. RescueStands(rescue)'
      BY <2>1, <3>1, <3>2 DEF RescueStands
    <3>. QED  BY <1>3, <2>1, <2>3, <2>4, <3>1, <3>3
  <2>. QED  BY <1>5, <2>5, <2>6 DEF RecoverFails
<1>6. CASE RecoverMoves
  <2> DEFINE key == <<rescue.run, "blocked">>
  <2>1. UNCHANGED <<leaseRecs, runs, troubles, call>> /\ rescue' = NoRescue
    BY <1>6 DEF RecoverMoves, records, counts
  <2>2. RunsKept
    BY <2>1 DEF RunsKept
  <2>3. rescue # NoRescue /\ rescue.run \in Runs /\ rescue.step = "move"
    BY <1>1, <1>6 DEF RecoverMoves, NoRescue, Rescues
  <2>4. CASE UNCHANGED board
    <3>1. LedgerMoves /\ TaskMovesInOrder /\ UNCHANGED <<task, gen, applied>>
      BY <2>4 DEF LedgerMoves, TaskMovesInOrder, board
    <3>. QED  BY <1>1, <1>3, <2>1, <2>2, <3>1
  <2>5. CASE Applies(key, "blocked", rescue.gen) /\ Apply(key, "blocked", "stale", rescue.run)
    <3>1. task.status = "running"
      BY <1>1, <2>3, <2>5 DEF RescueStands, Applies, BoardAt
    <3>2. "blocked" \in Statuses /\ "stale" \in Reasons /\ \A q \in Runs : key # <<q, "running">>
      BY DEF Statuses, Reasons
    <3>3. /\ task' \in TaskHead /\ gen' \in Nat /\ applied' \in [DOMAIN applied' -> Outcome]
          /\ task'.status = "blocked" /\ LedgerMoves
      BY <1>1, <2>3, <2>5, <3>2, ApplyMoves
    <3>4. TaskMovesInOrder
      BY <3>1, <3>3 DEF TaskMovesInOrder
    <3>. QED  BY <1>1, <1>3, <2>1, <2>2, <3>3, <3>4
  <2>. QED  BY <1>6, <2>4, <2>5 DEF RecoverMoves
<1>7. CASE RecoverCrashes
  <2>1. /\ UNCHANGED <<task, gen, applied, leaseRecs, runs, call>> /\ rescue' = NoRescue
        /\ (troubles' = troubles \/ troubles' \in Nat)
    BY <1>1, <1>7, CountsMove DEF RecoverCrashes, board, records
  <2>2. LedgerMoves /\ RunsKept /\ TaskMovesInOrder
    BY <2>1 DEF LedgerMoves, RunsKept, TaskMovesInOrder
  <2>. QED  BY <1>1, <1>3, <2>1, <2>2
<1>. QED  BY <1>4, <1>5, <1>6, <1>7

\* Leases run out, the user assigns and readies tasks, the board moves for
\* other tasks, and emergency stops come and go.
LEMMA WorldSteps ==
    ASSUME SagaInv,
           \/ \E i \in Slots : ExpireSlot(i)
           \/ ExpireLease \/ Assign \/ Unblock \/ OtherTaskMoves \/ EmergencyStop
    PROVE  SagaInv' /\ TaskMovesInOrder
<1>1. /\ TypeOK /\ task \in TaskHead /\ task.rev \in Nat /\ gen \in Nat /\ lease \in Row /\ slot \in [Slots -> Row]
      /\ stop \in BOOLEAN /\ troubles \in Nat
  BY DEF SagaInv, TypeOK, TaskHead
<1>2. /\ UNCHANGED <<applied, leaseRecs, runs, receipts, usage, rescue, call, launched, todo>>
      /\ troubles' \in Nat /\ RunsKept
  BY <1>1, CountsMove DEF ExpireSlot, ExpireLease, Assign, Unblock, OtherTaskMoves, EmergencyStop, board, records, RunsKept
<1>3. /\ lease' \in Row /\ slot' \in [Slots -> Row] /\ assign' \in [gen : Nat, rev : Nat]
      /\ stop' \in BOOLEAN
  <2>1. assign \in [gen : Nat, rev : Nat]
    BY <1>1 DEF TypeOK
  <2>2. \A row \in Row : [row EXCEPT !.live = FALSE] \in Row
    BY DEF Row
  <2>3. CASE \E i \in Slots : ExpireSlot(i)
    BY <1>1, <2>1, <2>2, <2>3 DEF ExpireSlot
  <2>4. CASE ExpireLease
    BY <1>1, <2>1, <2>2, <2>4 DEF ExpireLease
  <2>5. CASE Assign
    BY <1>1, <2>1, <2>5 DEF Assign, rows
  <2>6. CASE Unblock \/ OtherTaskMoves
    BY <1>1, <2>1, <2>6 DEF Unblock, OtherTaskMoves, rows
  <2>7. CASE EmergencyStop
    BY <1>1, <2>1, <2>7 DEF EmergencyStop, rows
  <2>. QED  BY <2>3, <2>4, <2>5, <2>6, <2>7
<1>4. task' \in TaskHead /\ gen' \in Nat /\ LedgerMoves /\ TaskMovesInOrder
  <2>1. CASE Unblock
    <3>1. task.status = "blocked" /\ gen' = gen + 1 /\ task' = [task EXCEPT !.status = "ready", !.rev = task.rev + 1]
      BY <2>1 DEF Unblock
    <3>2. task' \in TaskHead /\ task'.rev = task.rev + 1
      <4>1. PICK n \in Nat : n = task.rev + 1
        BY <1>1
      <4>2. "ready" \in Statuses
        BY DEF Statuses
      <4>3. task' = [task EXCEPT !.status = "ready", !.rev = n]
        BY <3>1, <4>1
      <4>. QED  BY <1>1, <4>1, <4>2, <4>3 DEF TaskHead
    <3>. QED  BY <1>1, <1>2, <3>1, <3>2 DEF LedgerMoves, TaskMovesInOrder
  <2>2. CASE OtherTaskMoves
    BY <1>1, <1>2, <2>2 DEF OtherTaskMoves, LedgerMoves, TaskMovesInOrder
  <2>3. CASE UNCHANGED <<task, gen>>
    BY <1>1, <1>2, <2>3 DEF LedgerMoves, TaskMovesInOrder
  <2>. QED  BY <2>1, <2>2, <2>3 DEF ExpireSlot, ExpireLease, Assign, EmergencyStop, board
<1>5. TypeOK'
  BY <1>1, <1>2, <1>3, <1>4, TypeStep DEF TypeOK
<1>. QED  BY <1>2, <1>4, <1>5, CallStep

-----------------------------------------------------------------------------
(* The theorems                                                             *)

\* At first nobody is at work.
LEMMA SagaInvInit == Init => SagaInv
<1> SUFFICES ASSUME Init PROVE SagaInv
  OBVIOUS
<1>1. TypeOK
  <2>1. task \in TaskHead /\ gen \in Nat /\ task.rev >= 1 /\ usage \in Nat
    BY DEF Init, TaskHead, Statuses
  <2>0. todo \in [Runs \X Stamps -> Nat] /\ troubles \in Nat
    BY SagaConstants DEF Init
  <2>2. applied \in [DOMAIN applied -> Outcome] /\ assign \in [gen : Nat, rev : Nat]
    BY DEF Init
  <2>3. FreeRow \in Row
    BY DEF FreeRow, Row
  <2>4. lease \in Row /\ slot \in [Slots -> Row]
    BY <2>3 DEF Init
  <2>5. [status |-> "none", lease |-> NoLease, at |-> NoRun] \in RunHead
    BY DEF RunHead, NoLease
  <2>6. runs \in [Runs -> RunHead] /\ launched \in [Runs -> Nat]
    BY <2>5 DEF Init
  <2>7. /\ leaseRecs \subseteq LeaseRec /\ receipts \subseteq Runs /\ stop \in BOOLEAN
        /\ call \in [Services -> {NoCall} \cup Calls] /\ rescue \in {NoRescue} \cup Rescues
    BY DEF Init
  <2>. QED  BY <2>0, <2>1, <2>2, <2>4, <2>6, <2>7 DEF TypeOK
<1>2. task.rev >= 1 /\ \A r \in Runs : RunningStands(r)
  BY DEF Init, RunningStands
<1>4. \A s \in Services : call[s] = NoCall
  BY DEF Init
<1>5. rescue = NoRescue
  BY DEF Init
<1>. QED  BY <1>1, <1>2, <1>4, <1>5 DEF SagaInv

\* Every step keeps the invariant and moves the task only in order.
LEMMA SagaInvStep ==
    ASSUME SagaInv, [Next]_vars
    PROVE  SagaInv' /\ TaskMovesInOrder
<1>1. CASE UNCHANGED vars
  <2>1. TypeOK /\ LedgerMoves /\ RunsKept /\ TaskMovesInOrder /\ rescue' = rescue /\ call' = call
    BY <1>1 DEF vars, LedgerMoves, RunsKept, TaskMovesInOrder, SagaInv
  <2>2. TypeOK'
    BY <1>1, <2>1, TypeStep DEF vars, TypeOK
  <2>. QED  BY <2>1, <2>2, CallStep
<1>2. CASE Next
  <2>1. ASSUME NEW s \in Services,
               \/ \E r \in Runs, at \in Stamps : Begin(s, r, at) \/ Repeat(s, r, at)
               \/ Step(s) \/ Renew(s) \/ RenewFails(s)
               \/ \E ok \in BOOLEAN : AdapterEnds(s, ok)
               \/ \E what \in {"pause", "cancel"} : Signal(s, what)
               \/ SignalStored(s)
               \/ Fault(s) \/ Crash(s)
        PROVE  SagaInv' /\ TaskMovesInOrder
    BY <2>1, RunSteps, EndSteps, LedgerSteps, LaunchStep DEF Step
  <2>. QED  BY <1>2, <2>1, RecoverySteps, WorldSteps DEF Next
<1>. QED  BY <1>1, <1>2

\* Every variable of a heartbeat keeps its type: the task ledger, the lease
\* rows, the stored records and the calls at work.
THEOREM SagaTypeCorrect == Spec => []TypeOK
<1>1. SagaInv /\ [Next]_vars => SagaInv'
  BY SagaInvStep
<1>2. SagaInv => TypeOK
  BY DEF SagaInv
<1>. QED  BY SagaInvInit, <1>1, <1>2, PTL DEF Spec

\* However many services retry a key, take a task over, fail or die, what is
\* launched is the attempt on record: manual_heartbeat's store.put of the run
\* stands between the checkout and adapter.execute, and no later write of the
\* run changes its lease or its start.
THEOREM LaunchesAreOnRecord == Spec => LaunchIsOnRecord
<1>1. SagaInv /\ [Next]_vars => SagaInv'
  BY SagaInvStep
<1>2. SagaInv /\ [Next]_vars =>
        [\A r \in Runs : launched'[r] # launched[r] =>
            \E s \in Services : /\ call[s].step = "launch" /\ call[s].run = r
                               /\ runs[r].lease = LeaseId(s) /\ runs[r].at = call[s].at]_vars
  <2>1. SUFFICES ASSUME SagaInv, Next, NEW r \in Runs, launched'[r] # launched[r]
                 PROVE  \E s \in Services : /\ call[s].step = "launch" /\ call[s].run = r
                                            /\ runs[r].lease = LeaseId(s) /\ runs[r].at = call[s].at
    OBVIOUS
  <2>2. TypeOK /\ launched \in [Runs -> Nat]
    BY <2>1 DEF SagaInv, TypeOK
  <2>3. PICK s \in Services : Launch(s)
    <3>1. ASSUME NEW s \in Services, NEW q \in Runs, NEW at \in Stamps, Begin(s, q, at) \/ Repeat(s, q, at)
          PROVE  launched' = launched
      BY <3>1 DEF Begin, Repeat
    <3>2. ASSUME NEW s \in Services, Step(s)
          PROVE  Launch(s) \/ launched' = launched
      <4>1. ASSUME Block(s) \/ Checkout(s) \/ ToRunning(s) \/ Bind(s) \/ StoreRun(s)
            PROVE  launched' = launched
        BY <4>1 DEF Block, Checkout, ToRunning, Bind, StoreRun
      <4>2. ASSUME Verify(s) \/ FinishMove(s) \/ FinishRebind(s) \/ FinishRun(s) \/ FinishReceipt(s)
            PROVE  launched' = launched
        BY <4>2 DEF Verify, FinishMove, FinishRebind, FinishRun, FinishReceipt
      <4>3. ASSUME Terminalize(s) \/ Unwind(s) \/ Release(s)
            PROVE  launched' = launched
        BY <4>3 DEF Terminalize, Unwind, Release
      <4>. QED  BY <3>2, <4>1, <4>2, <4>3 DEF Step
    <3>3. ASSUME NEW s \in Services,
                 \/ Renew(s) \/ RenewFails(s) \/ SignalStored(s) \/ Fault(s) \/ Crash(s)
                 \/ \E ok \in BOOLEAN : AdapterEnds(s, ok)
                 \/ \E what \in {"pause", "cancel"} : Signal(s, what)
          PROVE  launched' = launched
      BY <3>3 DEF Renew, RenewFails, SignalStored, Fault, Crash, AdapterEnds, Signal
    <3>4. ASSUME (\E q \in Runs : RecoverSees(q)) \/ RecoverFails \/ RecoverMoves \/ RecoverCrashes
          PROVE  launched' = launched
      BY <3>4 DEF RecoverSees, RecoverFails, RecoverMoves, RecoverCrashes
    <3>5. ASSUME \/ \E i \in Slots : ExpireSlot(i)
                 \/ ExpireLease \/ Assign \/ Unblock \/ OtherTaskMoves \/ EmergencyStop
          PROVE  launched' = launched
      BY <3>5 DEF ExpireSlot, ExpireLease, Assign, Unblock, OtherTaskMoves, EmergencyStop
    <3>. QED  BY <2>1, <3>1, <3>2, <3>3, <3>4, <3>5 DEF Next
  <2>4. call[s].step = "launch" /\ call[s] # NoCall /\ call[s].run = r
    BY <2>1, <2>2, <2>3 DEF Launch, NoCall
  <2>5. CallStands(call[s])
    BY <2>1, <2>4 DEF SagaInv
  <2>. QED  BY <2>4, <2>5 DEF CallStands, LeaseId
<1>. QED  BY SagaInvInit, <1>1, <1>2, PTL DEF Spec, LaunchIsOnRecord

\* What goes to review is the work of the run that set the task running
\* (_finish_run's fence and the expected generation of its transition).
THEOREM ReviewsAreTheRunners == Spec => ReviewIsRunnersWork
<1>1. SagaInv /\ [Next]_vars => SagaInv'
  BY SagaInvStep
<1>2. SagaInv /\ [Next]_vars =>
        [task.status = "running" /\ task'.status = "review" =>
            \E s \in Services : call[s].step = "move" /\ call[s].run = task.by]_vars
  <2>1. SUFFICES ASSUME SagaInv, [Next]_vars, task.status = "running" /\ task'.status = "review"
                 PROVE  \E s \in Services : call[s].step = "move" /\ call[s].run = task.by
    OBVIOUS
  <2>2. task' # task
    BY <2>1
  <2>3. TaskMovesInOrder
    BY <2>1, SagaInvStep
  <2>. QED  BY <2>1, <2>2, <2>3 DEF TaskMovesInOrder
<1>. QED  BY SagaInvInit, <1>1, <1>2, PTL DEF Spec, ReviewIsRunnersWork

\* No heartbeat, exception or recovery takes reviewed work away
\* (_blocked_preflight, _terminalize_exception and recover_stale_runs block
\* only tasks that are ready or running).
THEOREM ReviewedWorkStays == Spec => ReviewedWorkKept
<1>1. SagaInv /\ [Next]_vars => SagaInv'
  BY SagaInvStep
<1>2. SagaInv /\ [Next]_vars => [task.status = "review" => task' = task]_vars
  <2>1. SUFFICES ASSUME SagaInv, [Next]_vars, task.status = "review"
                 PROVE  task' = task
    OBVIOUS
  <2>2. TaskMovesInOrder
    BY <2>1, SagaInvStep
  <2>. QED  BY <2>1, <2>2 DEF TaskMovesInOrder
<1>. QED  BY SagaInvInit, <1>1, <1>2, PTL DEF Spec, ReviewedWorkKept
=============================================================================
