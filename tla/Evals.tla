-------------------------------- MODULE Evals --------------------------------
(* The evaluation laboratory (evals/service.py).  run_case stores a result  *)
(* and then the run that cites it, under ids derived from the observation;  *)
(* a baseline is an approved run, a comparison with it may be a regression, *)
(* which is announced and can be rejected.  Assertions about files look at  *)
(* the workspace, which changes: one observation can have two results.      *)
EXTENDS PlatformStore

CONSTANTS Observations,   \* observations of one case and target, each with its eval run id
          MaxEvalCalls, MaxFileChanges    \* bounds of a behaviour

VARIABLES works,        \* whether the file an assertion names is in order
          results,      \* eval_result records
          evalRuns,     \* heads of the eval_run records, with the result each cites
          baselines,    \* eval_baseline records
          comparisons,  \* eval_comparison records
          announced,    \* comparisons whose notification was emitted
          rejected,     \* comparisons with an eval_finding
          vcall,        \* the call of each caller
          vbudget       \* bounds: calls, changes, deaths

vvars == <<works, results, evalRuns, baselines, comparisons, announced, rejected, vcall, vbudget>>

\* What one observation came to.
Results == [of : Observations, failed : BOOLEAN]
NoRun == [rev |-> 0]
EvIdle == [step |-> "idle"]

EvalRuns == [rev : Nat \ {0}, result : Results]
Baselines == [run : Observations, result : Results]
Comparisons == [baseline : Baselines, run : Observations, regression : BOOLEAN]

\* What a call is about: a result, a baseline or a comparison.
EvalCalls ==
    [step : {"look", "result", "run"}, result : Results] \cup [step : {"accept"}, baseline : Baselines]
    \cup [step : {"compare", "announce", "reject"}, comparison : Comparisons]

EvalTypeOK ==
    /\ results \subseteq Results
    /\ evalRuns \in [Observations -> EvalRuns \cup {NoRun}]
    /\ baselines \subseteq Baselines /\ comparisons \subseteq Comparisons
    /\ announced \subseteq comparisons /\ rejected \subseteq comparisons
    /\ vcall \in [Callers -> EvalCalls \cup {EvIdle}]

EvalInit ==
    /\ works = TRUE
    /\ results = {} /\ baselines = {} /\ comparisons = {} /\ announced = {} /\ rejected = {}
    /\ evalRuns = [o \in Observations |-> NoRun]
    /\ vcall = [c \in Callers |-> EvIdle]
    /\ vbudget = [calls |-> 0, changes |-> 0, deaths |-> 0]

-----------------------------------------------------------------------------
EvGo(c, step) == vcall' = [vcall EXCEPT ![c].step = step]
EvEnd(c) == vcall' = [vcall EXCEPT ![c] = EvIdle]

EvalCall(c, call) ==
    /\ vcall[c] = EvIdle
    /\ vbudget.calls < MaxEvalCalls
    /\ vbudget' = [vbudget EXCEPT !.calls = @ + 1]
    /\ vcall' = [vcall EXCEPT ![c] = call]
    /\ UNCHANGED <<works, results, evalRuns, baselines, comparisons, announced, rejected>>

\* _evaluate: what the observation says, and what is in the workspace now.
Evaluated(o) == [of |-> o, failed |-> ~works]

\* run_case: a run on record is the answer.
RunCase(c, o) ==
    /\ evalRuns[o] = NoRun
    /\ EvalCall(c, [step |-> "look", result |-> Evaluated(o)])

\* The look that counts, before the two records.
LookForRun(c) ==
    /\ vcall[c].step = "look"
    /\ IF evalRuns[vcall[c].result.of] = NoRun THEN EvGo(c, "result") ELSE EvEnd(c)
    /\ UNCHANGED <<works, results, evalRuns, baselines, comparisons, announced, rejected, vbudget>>

\* The result.  Its id is taken when an earlier call stored the same one: a
\* run whose caller died at this point cannot be completed.
StoreResult(c) ==
    LET r == vcall[c].result IN
    /\ vcall[c].step = "result"
    /\ IF r \in results THEN EvEnd(c) ELSE EvGo(c, "run")
    /\ results' = results \cup {r}
    /\ UNCHANGED <<works, evalRuns, baselines, comparisons, announced, rejected, vbudget>>

\* The run, which must be the first of its id.
StoreRun(c) ==
    LET o == vcall[c].result.of IN
    /\ vcall[c].step = "run"
    /\ evalRuns' = IF HeadUnmoved(evalRuns[o], 0)
                   THEN [evalRuns EXCEPT ![o] = [rev |-> @.rev + 1, result |-> vcall[c].result]] ELSE evalRuns
    /\ EvEnd(c)
    /\ UNCHANGED <<works, results, baselines, comparisons, announced, rejected, vbudget>>

-----------------------------------------------------------------------------
\* create_baseline: the run's result, an approval bound to its hash.
CreateBaseline(c, o) ==
    /\ evalRuns[o] # NoRun
    /\ EvalCall(c, [step |-> "accept", baseline |-> [run |-> o, result |-> evalRuns[o].result]])

AcceptBaseline(c) ==
    /\ vcall[c].step = "accept"
    /\ baselines' = baselines \cup {vcall[c].baseline}
    /\ EvEnd(c)
    /\ UNCHANGED <<works, results, evalRuns, comparisons, announced, rejected, vbudget>>

\* _failure_set.
Fails(o) == evalRuns[o].result.failed

\* compare_with_baseline: the accepted results still verify; what either run
\* fails is read from its record.
Compare(c, b, o) ==
    /\ evalRuns[o] # NoRun /\ b.result \in results
    /\ EvalCall(c, [step |-> "compare",
                    comparison |-> [baseline |-> b, run |-> o, regression |-> Fails(o) /\ ~Fails(b.run)]])

\* A comparison on record is the answer; a new one is stored and announced.
StoreComparison(c) ==
    LET new == vcall[c].comparison IN
    /\ vcall[c].step = "compare"
    /\ comparisons' = comparisons \cup {new}
    /\ IF new \notin comparisons /\ new.regression THEN EvGo(c, "announce") ELSE EvEnd(c)
    /\ UNCHANGED <<works, results, evalRuns, baselines, announced, rejected, vbudget>>

\* _notify_regression: an inbox that is disabled or fails is passed over.
Announce(c) ==
    /\ vcall[c].step = "announce"
    /\ \E heard \in BOOLEAN : announced' = IF heard THEN announced \cup {vcall[c].comparison} ELSE announced
    /\ EvEnd(c)
    /\ UNCHANGED <<works, results, evalRuns, baselines, comparisons, rejected, vbudget>>

\* reject_regression: one finding for a comparison.
RejectRegression(c, x) == x.regression /\ x \notin rejected /\ EvalCall(c, [step |-> "reject", comparison |-> x])

StoreFinding(c) ==
    /\ vcall[c].step = "reject"
    /\ rejected' = rejected \cup {vcall[c].comparison}
    /\ EvEnd(c)
    /\ UNCHANGED <<works, results, evalRuns, baselines, comparisons, announced, vbudget>>

-----------------------------------------------------------------------------
ChangeFile ==
    /\ vbudget.changes < MaxFileChanges
    /\ vbudget' = [vbudget EXCEPT !.changes = @ + 1]
    /\ works' = ~works
    /\ UNCHANGED <<results, evalRuns, baselines, comparisons, announced, rejected, vcall>>

EvaluatorDies(c) ==
    /\ vcall[c] # EvIdle
    /\ vbudget.deaths < MaxDeaths
    /\ vbudget' = [vbudget EXCEPT !.deaths = @ + 1]
    /\ EvEnd(c)
    /\ UNCHANGED <<works, results, evalRuns, baselines, comparisons, announced, rejected>>

EvalNext ==
    \/ \E c \in Callers :
         \/ \E o \in Observations :
              RunCase(c, o) \/ CreateBaseline(c, o) \/ \E b \in baselines : Compare(c, b, o)
         \/ LookForRun(c) \/ StoreResult(c) \/ StoreRun(c) \/ AcceptBaseline(c) \/ StoreComparison(c)
         \/ Announce(c) \/ StoreFinding(c) \/ EvaluatorDies(c)
         \/ \E x \in comparisons : RejectRegression(c, x)
    \/ ChangeFile

-----------------------------------------------------------------------------
\* A verdict rests on what was accepted: every run cites a result on record,
\* the run of a baseline still has the result whose hash was approved, and a
\* comparison calls a regression exactly what fails now and did not fail in
\* that result, although two evaluations of one observation can differ and
\* calls overlap and die (create_baseline, compare_with_baseline).
VerdictsGrounded ==
    /\ \A o \in Observations : evalRuns[o] # NoRun => evalRuns[o].result \in results
    /\ \A b \in baselines : evalRuns[b.run].result = b.result
    /\ \A x \in comparisons : x.regression <=> (Fails(x.run) /\ ~x.baseline.result.failed)

\* A baseline is the result of a run on record.
Accepted(b) == evalRuns[b.run] # NoRun /\ evalRuns[b.run].result = b.result

\* A comparison of runs on record tells what fails now and did not fail then.
Compared(x) == evalRuns[x.run] # NoRun /\ (x.regression <=> (Fails(x.run) /\ ~x.baseline.result.failed))

\* What the steps of a call rest on.
EvalCallStands(call) ==
    /\ call.step = "run" => call.result \in results
    /\ call.step = "accept" => Accepted(call.baseline)
    /\ call.step = "compare" => Compared(call.comparison)
    /\ call.step \in {"announce", "reject"} => call.comparison \in comparisons

\* The inductive invariant behind VerdictsGrounded.
EvalInv ==
    /\ EvalTypeOK
    /\ \A o \in Observations : evalRuns[o] # NoRun => evalRuns[o].result \in results
    /\ \A b \in baselines : Accepted(b)
    /\ \A x \in comparisons : Compared(x)
    /\ \A c \in Callers : vcall[c] # EvIdle => EvalCallStands(vcall[c])
=============================================================================
