------------------------------ MODULE Workflows ------------------------------
(* The workflow engine (workflows/service.py): one run of one registered    *)
(* revision, started, driven, approved, denied, woken, paused, resumed and  *)
(* cancelled by concurrent calls.  Each append_record is a transaction of   *)
(* its own with the revision the caller read; a call that meets a moved     *)
(* record raises and leaves what it has written.                            *)
EXTENDS PlatformStore, Sequences

CONSTANTS Order,       \* node ids in the topological order of validate_dag
          Edges,       \* <<source, target>> pairs of the revision
          Kinds,       \* node types of the registered revisions, by node
          MaxAttempts, \* max_attempts of the nodes' retry policy
          MaxWork      \* bound of a behaviour

VARIABLES kind,     \* the revision that is run, as the type of each node
          run,      \* head of the workflow_run record
          steps,    \* heads of the workflow_step records
          wcall,    \* the call each caller is in
          wbudget   \* bounds: calls made, calls that died

wvars == <<kind, run, steps, wcall, wbudget>>

Nodes == {Order[i] : i \in DOMAIN Order}
Parents(n) == {m \in Nodes : <<m, n>> \in Edges}

\* A revision has a node; its edges join its nodes and follow the order.
ASSUME WorkflowAssumption ==
    /\ Order \in Seq(Nodes) /\ Order # <<>>
    /\ MaxAttempts \in Nat \ {0}
    /\ Edges \subseteq Nodes \X Nodes
    /\ \A i, j \in DOMAIN Order : <<Order[i], Order[j]>> \in Edges => i < j
    /\ Kinds \subseteq [Nodes -> {"command", "approval", "wait", "other"}]

Live == {"pending", "waiting", "paused"}
StepStates == Live \cup {"succeeded", "failed", "cancelled"}
Ended == {"succeeded", "failed", "cancelled"}
Absent == [rev |-> 0, state |-> "none", attempt |-> 1, started |-> FALSE]
Free == [op |-> "none"]

RunHeads == [rev : Nat, state : {"none", "running", "paused"} \cup Ended]
StepHeads == [rev : Nat, state : StepStates \cup {"none"}, attempt : 1..MaxAttempts, started : BOOLEAN]

\* What a call remembers: the revision of the run and the steps it has read.
WorkCalls == [op : {"start", "drive", "cancel", "pause", "resume", "grant", "deny", "wake"}, node : Nodes,
              at : 1..(Len(Order) + 1), rev : Nat, seen : Seq(StepHeads), end : {"running", "failed", "blocked"}]

WorkflowTypeOK ==
    /\ run \in RunHeads
    /\ steps \in [Nodes -> StepHeads]
    /\ wcall \in [Callers -> WorkCalls \cup {Free}]

WorkflowInit ==
    /\ kind \in Kinds
    /\ run = [rev |-> 0, state |-> "none"]
    /\ steps = [n \in Nodes |-> Absent]
    /\ wcall = [c \in Callers |-> Free]
    /\ wbudget = [calls |-> 0, deaths |-> 0]

-----------------------------------------------------------------------------
(* Record store                                                            *)

Exit(c) == wcall' = [wcall EXCEPT ![c] = Free]

\* _persist_step: append_record expects the revision the caller read.
StepUnmoved(n, rev) == HeadUnmoved(steps[n], rev)

PutStep(n, new) == steps' = [steps EXCEPT ![n] = Appended(@, new)]

\* _persist_run, the last write of every call that makes it.
PutRun(c, state) ==
    /\ run' = IF HeadUnmoved(run, wcall[c].rev) THEN Appended(run, [run EXCEPT !.state = state]) ELSE run
    /\ Exit(c)

-----------------------------------------------------------------------------
(* Calls                                                                   *)

Call(c, op, n) ==
    /\ wcall[c] = Free
    /\ wbudget.calls < MaxWork
    /\ wbudget' = [wbudget EXCEPT !.calls = @ + 1]
    /\ wcall' = [wcall EXCEPT ![c] = [op |-> op, node |-> n, at |-> 1, rev |-> run.rev,
                                      seen |-> <<>>, end |-> "running"]]
    /\ UNCHANGED <<run, steps>>

\* start: an existing run answers the call.
Start(c) == run.rev = 0 /\ Call(c, "start", Order[1])
\* run_ready_steps returns a run that is not running.
Drive(c) == run.state = "running" /\ Call(c, "drive", Order[1])
Cancel(c) == run.state \in {"running", "paused"} /\ Call(c, "cancel", Order[1])
Pause(c) == run.state = "running" /\ Call(c, "pause", Order[1])
Resume(c) == run.state = "paused" /\ Call(c, "resume", Order[1])
Decide(c, op, n) ==
    /\ run.state = "running"
    /\ kind[n] = IF op = "wake" THEN "wait" ELSE "approval"
    /\ Call(c, op, n)

\* start appends the step records one by one and the run record last.
StartWrites(c) ==
    /\ wcall[c] # Free /\ wcall[c].op = "start"
    /\ IF wcall[c].at > Len(Order)
       THEN PutRun(c, "running") /\ UNCHANGED steps
       ELSE LET n == Order[wcall[c].at]
            IN /\ UNCHANGED run
               /\ IF StepUnmoved(n, 0)
                  THEN PutStep(n, [Absent EXCEPT !.state = "pending"])
                       /\ wcall' = [wcall EXCEPT ![c].at = @ + 1]
                  ELSE Exit(c) /\ UNCHANGED steps
    /\ UNCHANGED wbudget

\* _step_records reads the heads one at a time.
DriveReads(c) ==
    /\ wcall[c] # Free /\ wcall[c].op = "drive" /\ Len(wcall[c].seen) < Len(Order)
    /\ wcall' = [wcall EXCEPT ![c].seen = Append(@, steps[Order[Len(@) + 1]])]
    /\ UNCHANGED <<run, steps, wbudget>>

\* The step record run_ready_steps leaves for node n, whose record it read as
\* seen, with the end it implies for the run: "failed" and "blocked" end the
\* loop, "go" continues it.  A started step is past its time limit or not.
Driven(n, seen) ==
    IF seen.state = "waiting"
    THEN {[step |-> [seen EXCEPT !.state = "failed"], end |-> "failed"]}
    ELSE IF kind[n] # "command"
    THEN {[step |-> [seen EXCEPT !.state = IF kind[n] = "other" THEN "paused" ELSE "waiting",
                                 !.started = TRUE], end |-> "blocked"]}
    ELSE {[step |-> [seen EXCEPT !.state = "succeeded", !.started = TRUE], end |-> "go"],
          [step |-> [seen EXCEPT !.state = "failed", !.started = TRUE], end |-> "failed"]}

Ready(c, n) ==
    \A i \in DOMAIN Order : Order[i] \in Parents(n) => wcall[c].seen[i].state = "succeeded"

\* One turn of the loop in run_ready_steps, or the write of the run after it.
DriveTurn(c) ==
    /\ wcall[c] # Free /\ wcall[c].op = "drive" /\ Len(wcall[c].seen) = Len(Order)
    /\ wcall[c].end = "running" /\ wcall[c].at <= Len(Order)
    /\ LET i == wcall[c].at
           n == Order[i]
           seen == wcall[c].seen[i]
           Go(end) == wcall' = [wcall EXCEPT ![c].at = i + 1, ![c].end = end]
       IN \/ /\ seen.state = "succeeded" \/ (seen.state \in Live /\ ~Ready(c, n))
             /\ Go("running") /\ UNCHANGED steps
          \/ /\ seen.state \in {"failed", "cancelled"}
             /\ Go("failed") /\ UNCHANGED steps
          \/ /\ seen.state \in {"waiting", "paused"} /\ Ready(c, n)
             /\ Go("blocked") /\ UNCHANGED steps
          \/ /\ seen.state \in {"pending", "waiting"} /\ Ready(c, n)
             /\ \/ \E d \in Driven(n, seen) :
                   IF StepUnmoved(n, seen.rev)
                   THEN /\ PutStep(n, d.step)
                        /\ wcall' = [wcall EXCEPT ![c].at = i + 1,
                                       ![c].seen = [@ EXCEPT ![i] = d.step],
                                       ![c].end = IF d.end = "go" THEN "running" ELSE d.end]
                   ELSE Exit(c) /\ UNCHANGED steps
                \* The operation raised and the retry policy allows another attempt.
                \/ /\ kind[n] = "command" /\ seen.attempt < MaxAttempts
                   /\ IF StepUnmoved(n, seen.rev)
                      THEN LET retry == [seen EXCEPT !.attempt = @ + 1, !.started = TRUE,
                                                     !.rev = steps[n].rev + 1]
                           IN PutStep(n, retry) /\ wcall' = [wcall EXCEPT ![c].seen[i] = retry]
                      ELSE Exit(c) /\ UNCHANGED steps
    /\ UNCHANGED <<run, wbudget>>

AllDone(c) == \A i \in DOMAIN Order : wcall[c].seen[i].state = "succeeded"

DriveEnds(c) ==
    /\ wcall[c] # Free /\ wcall[c].op = "drive"
    /\ wcall[c].end # "running" \/ wcall[c].at > Len(Order)
    /\ PutRun(c, IF wcall[c].end = "failed" THEN "failed"
                 ELSE IF wcall[c].end # "blocked" /\ AllDone(c) THEN "succeeded" ELSE "running")
    /\ UNCHANGED <<steps, wbudget>>

\* grant_approval, deny_approval and wake: find the step waiting, then settle
\* it; a gate past its deadline fails instead.  Only deny goes on to the run.
DecideReads(c) ==
    /\ wcall[c] # Free /\ wcall[c].op \in {"grant", "deny", "wake"} /\ wcall[c].seen = <<>>
    /\ IF steps[wcall[c].node].state = "waiting"
       THEN wcall' = [wcall EXCEPT ![c].seen = <<steps[wcall[c].node]>>]
       ELSE Exit(c)
    /\ UNCHANGED <<run, steps, wbudget>>

DecideWrites(c) ==
    /\ wcall[c] # Free /\ wcall[c].op \in {"grant", "deny", "wake"}
    /\ wcall[c].seen # <<>> /\ wcall[c].at = 1
    /\ LET n == wcall[c].node
           seen == wcall[c].seen[1]
       IN IF StepUnmoved(n, seen.rev)
          THEN /\ \E state \in IF wcall[c].op = "deny" THEN {"failed"} ELSE {"succeeded", "failed"} :
                     PutStep(n, [seen EXCEPT !.state = state])
               /\ IF wcall[c].op = "deny" THEN wcall' = [wcall EXCEPT ![c].at = 2] ELSE Exit(c)
          ELSE Exit(c) /\ UNCHANGED steps
    /\ UNCHANGED <<run, wbudget>>

DenyEnds(c) ==
    /\ wcall[c] # Free /\ wcall[c].op = "deny" /\ wcall[c].at = 2
    /\ PutRun(c, "failed")
    /\ UNCHANGED <<steps, wbudget>>

\* _transition_run.
PauseOrResume(c) ==
    /\ wcall[c] # Free /\ wcall[c].op \in {"pause", "resume"}
    /\ PutRun(c, IF wcall[c].op = "pause" THEN "paused" ELSE "running")
    /\ UNCHANGED <<steps, wbudget>>

\* A cancel that writes the run before its steps.
CancelTurnRunFirst(c) ==
    /\ wcall[c] # Free /\ wcall[c].op = "cancel"
    /\ PutRun(c, "cancelled")
    /\ UNCHANGED <<steps, wbudget>>

\* cancel: each live step, read and written in turn, and then the run.
CancelTurn(c) ==
    /\ wcall[c] # Free /\ wcall[c].op = "cancel"
    /\ IF wcall[c].at > Len(Order)
       THEN PutRun(c, "cancelled") /\ UNCHANGED steps
       ELSE LET n == Order[wcall[c].at]
                Proceed == wcall' = [wcall EXCEPT ![c].at = @ + 1, ![c].seen = <<>>]
            IN /\ UNCHANGED run
               /\ IF wcall[c].seen = <<>>
                  THEN /\ UNCHANGED steps
                       /\ IF steps[n].state \in Live
                          THEN wcall' = [wcall EXCEPT ![c].seen = <<steps[n]>>]
                          ELSE Proceed
                  ELSE IF StepUnmoved(n, wcall[c].seen[1].rev)
                       THEN PutStep(n, [wcall[c].seen[1] EXCEPT !.state = "cancelled"]) /\ Proceed
                       ELSE Exit(c) /\ UNCHANGED steps
    /\ UNCHANGED wbudget

WorkerDies(c) ==
    /\ wcall[c] # Free
    /\ wbudget.deaths < MaxDeaths
    /\ wbudget' = [wbudget EXCEPT !.deaths = @ + 1]
    /\ Exit(c)
    /\ UNCHANGED <<run, steps>>

\* The calls that assert_runtime_allowed guards, and those it does not.
GatedCall(c) ==
    \/ Start(c) \/ Drive(c)
    \/ \E n \in Nodes, op \in {"grant", "deny", "wake"} : Decide(c, op, n)
OpenCall(c) == Cancel(c) \/ Pause(c) \/ Resume(c)

WorkflowStep(c) ==
    \/ StartWrites(c) \/ DriveReads(c) \/ DriveTurn(c) \/ DriveEnds(c) \/ DecideReads(c)
    \/ DecideWrites(c) \/ DenyEnds(c) \/ PauseOrResume(c) \/ CancelTurn(c) \/ WorkerDies(c)

-----------------------------------------------------------------------------
\* The run record tells the truth about its step records, which other calls
\* write: a succeeded run has only succeeded steps, a cancelled one has no step
\* that could still move, and no step succeeds before the steps it depends on.
RunMatchesSteps ==
    /\ run.state = "succeeded" => \A n \in Nodes : steps[n].state = "succeeded"
    /\ run.state = "cancelled" => \A n \in Nodes : steps[n].state \notin Live
    /\ \A n \in Nodes : steps[n].state = "succeeded" =>
          \A m \in Parents(n) : steps[m].state = "succeeded"

\* Records that exist have a state; a run exists once all its steps do.
RecordsMade ==
    /\ run.rev > 0 <=> run.state # "none"
    /\ \A n \in Nodes : steps[n].rev > 0 <=> steps[n].state # "none"
    /\ run.rev > 0 => \A n \in Nodes : steps[n].rev > 0

\* A gate waits, like a step succeeds, only after what it depends on.
InOrder ==
    \A n \in Nodes : steps[n].state \in {"waiting", "succeeded"} =>
       \A m \in Parents(n) : steps[m].state = "succeeded"

\* A step a drive has read, or has driven itself: success is final.
Recalls(seen, head) == Remembers(seen, head) /\ (seen.state = "succeeded" => head.state = "succeeded")

\* What a call in progress rests on in the run and the steps, by its kind.
WorkCallStands(call, r, heads) ==
    /\ call.op # "start" => call.rev > 0 /\ r.rev > 0
    /\ call.op = "start" => \A i \in 1..(call.at - 1) : heads[Order[i]].rev > 0
    /\ call.op = "drive" =>
          Len(call.seen) <= Len(Order) /\ \A i \in 1..Len(call.seen) : Recalls(call.seen[i], heads[Order[i]])
    /\ call.op = "drive" /\ call.at > 1 => Len(call.seen) = Len(Order)
    /\ call.op \in {"grant", "deny", "wake"} /\ call.seen # <<>> =>
          call.seen[1].state = "waiting" /\ Remembers(call.seen[1], heads[call.node])
    /\ call.op = "cancel" => \A i \in 1..(call.at - 1) : heads[Order[i]].state \in Ended
    /\ call.op = "cancel" /\ call.seen # <<>> =>
          /\ call.at <= Len(Order)
          /\ call.seen[1].state \in Live /\ Remembers(call.seen[1], heads[Order[call.at]])

\* The inductive invariant behind RunMatchesSteps.
WorkflowInv ==
    /\ WorkflowTypeOK /\ RunMatchesSteps /\ RecordsMade /\ InOrder
    /\ \A c \in Callers : wcall[c] # Free => WorkCallStands(wcall[c], run, steps)
=============================================================================
