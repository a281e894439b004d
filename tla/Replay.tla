------------------------------- MODULE Replay -------------------------------
(* Replay and fork (replay/service.py).  An execution record is immutable,  *)
(* a plan says how a new run repeats it, staging stores a plan, and a plan  *)
(* that is ready becomes an execution record without side effects.  Plans   *)
(* are passed around by callers: one that was made with less evidence, or   *)
(* made up, has a valid hash as well.                                       *)
EXTENDS PlatformStore

CONSTANTS Effects,          \* side effects of the original run
          Approvals,        \* whether the original run may have needed approvals
          MaxReplayCalls    \* bound of a behaviour

VARIABLES original,   \* the execution record of the original run
          evidence,   \* recorded_side_effect records: the result of each effect
          plans,      \* heads of the replay_plan records
          replayed,   \* the execution record of the new run
          xcall,      \* the call of each caller
          xbudget     \* bounds: calls, deaths

xvars == <<original, evidence, plans, replayed, xcall, xbudget>>

Values == {"r1", "r2"}
NoRecord == [kind |-> "none"]
RpIdle == [step |-> "idle"]

\* A plan: the effects it takes results for, with their hashes, the effects it
\* blocks, whether fresh approvals are needed.
Plans == [bound : UNION {[S -> Values] : S \in SUBSET Effects}, blocked : SUBSET Effects, fresh : BOOLEAN]

Originals == [kind : {"run"}, effects : SUBSET Effects, approved : Approvals]
Repeats == [kind : {"replay"}, from : UNION {[S -> Values] : S \in SUBSET Effects}]

\* What a call is about to store.
ReplayCalls ==
    [step : {"record"}, to : Originals] \cup [step : {"effect"}, effect : Effects, value : Values]
    \cup [step : {"stage"}, plan : Plans] \cup [step : {"replay"}, to : Repeats]

ReplayTypeOK ==
    /\ original \in Originals \cup {NoRecord}
    /\ replayed \in Repeats \cup {NoRecord}
    /\ evidence \in [Effects -> Values \cup {"none"}]
    /\ \A p \in DOMAIN plans : p \in Plans /\ plans[p] \in {"ready", "blocked_side_effects", "approval_required"}
    /\ xcall \in [Callers -> ReplayCalls \cup {RpIdle}]

ReplayInit ==
    /\ original = NoRecord /\ replayed = NoRecord
    /\ evidence = [e \in Effects |-> "none"]
    /\ plans = [p \in {} |-> "ready"]
    /\ xcall = [c \in Callers |-> RpIdle]
    /\ xbudget = [calls |-> 0, deaths |-> 0]

-----------------------------------------------------------------------------
RpEnd(c) == xcall' = [xcall EXCEPT ![c] = RpIdle]

ReplayCall(c, call) ==
    /\ xcall[c] = RpIdle
    /\ xbudget.calls < MaxReplayCalls
    /\ xbudget' = [xbudget EXCEPT !.calls = @ + 1]
    /\ xcall' = [xcall EXCEPT ![c] = call]
    /\ UNCHANGED <<original, evidence, plans, replayed>>

\* record_execution: the same record again is no change, another is refused.
RecordOriginal(c, effects, approved) ==
    /\ original = NoRecord
    /\ ReplayCall(c, [step |-> "record", to |-> [kind |-> "run", effects |-> effects, approved |-> approved]])

StoreOriginal(c) ==
    /\ xcall[c].step = "record"
    /\ original' = IF original = NoRecord THEN xcall[c].to ELSE original
    /\ RpEnd(c)
    /\ UNCHANGED <<evidence, plans, replayed, xbudget>>

\* record_side_effect_result.
RecordEffect(c, e, v) ==
    /\ original # NoRecord /\ e \in original.effects /\ evidence[e] = "none"
    /\ ReplayCall(c, [step |-> "effect", effect |-> e, value |-> v])

\* A result that replaces the one on record.
ImmutableNever(e) == FALSE

\* "Recorded side-effect result is immutable."
Immutable(e) == evidence[e] # "none"

StoreEffect(c) ==
    LET call == xcall[c] IN
    /\ call.step = "effect"
    /\ evidence' = IF Immutable(call.effect) THEN evidence ELSE [evidence EXCEPT ![call.effect] = call.value]
    /\ RpEnd(c)
    /\ UNCHANGED <<original, plans, replayed, xbudget>>

-----------------------------------------------------------------------------
\* _fresh_approval_placeholders: approvals never carry over.
FreshApprovals == original.approved

\* _make_plan, for plan_replay and plan_fork alike: the effects that are on
\* record and named, their hashes; the other effects are blocked; every
\* approval of the original is needed afresh.
PlanOf(named) ==
    [bound |-> [e \in named |-> evidence[e]], blocked |-> original.effects \ named, fresh |-> FreshApprovals]

\* _verify_recorded_results.
OnRecord(effects) == \A e \in effects : evidence[e] # "none"

\* _assert_plan_authority, as a plan is staged and again before it is used.
Authorised(p) == OnRecord(DOMAIN p.bound) /\ p = PlanOf(DOMAIN p.bound)

\* The state a plan is staged in.
StagedState(p) ==
    IF p.fresh THEN "approval_required" ELSE IF p.blocked # {} THEN "blocked_side_effects" ELSE "ready"

Stage(c, p) ==
    /\ original # NoRecord
    /\ Authorised(p)
    /\ ReplayCall(c, [step |-> "stage", plan |-> p])

\* The run must be new; a plan that is staged already stays as it is.
StorePlan(c) ==
    LET p == xcall[c].plan IN
    /\ xcall[c].step = "stage"
    /\ plans' = IF replayed # NoRecord \/ p \in DOMAIN plans THEN plans
                ELSE [q \in DOMAIN plans \cup {p} |-> IF q = p THEN StagedState(p) ELSE plans[q]]
    /\ RpEnd(c)
    /\ UNCHANGED <<original, evidence, replayed, xbudget>>

\* materialize_execution_record: nothing blocked, nothing to approve, and
\* staged as ready.
Usable(p) == p.blocked = {} /\ ~p.fresh /\ p \in DOMAIN plans /\ plans[p] = "ready"

Materialize(c, p) ==
    /\ Authorised(p) /\ Usable(p)
    /\ ReplayCall(c, [step |-> "replay", to |-> [kind |-> "replay", from |-> p.bound]])

\* The runtime records the new run under the plan's id.
StoreReplayed(c) ==
    /\ xcall[c].step = "replay"
    /\ replayed' = IF replayed = NoRecord THEN xcall[c].to ELSE replayed
    /\ RpEnd(c)
    /\ UNCHANGED <<original, evidence, plans, xbudget>>

ReplayerDies(c) ==
    /\ xcall[c] # RpIdle
    /\ xbudget.deaths < MaxDeaths
    /\ xbudget' = [xbudget EXCEPT !.deaths = @ + 1]
    /\ RpEnd(c)
    /\ UNCHANGED <<original, evidence, plans, replayed>>

ReplayNext ==
    \E c \in Callers :
        \/ \E effects \in SUBSET Effects, approved \in Approvals : RecordOriginal(c, effects, approved)
        \/ \E e \in Effects, v \in Values : RecordEffect(c, e, v)
        \/ \E p \in Plans : Stage(c, p)
        \/ \E p \in DOMAIN plans : Materialize(c, p)
        \/ StoreOriginal(c) \/ StoreEffect(c) \/ StorePlan(c) \/ StoreReplayed(c) \/ ReplayerDies(c)

-----------------------------------------------------------------------------
\* A run that was made from a plan repeats no side effect: every effect of the
\* original has a result on record, the one the plan was bound to, and nothing
\* the original needed an approval for was taken over without a fresh one
\* (ReplayError: "would use mutable state, stale authority, or repeat a side
\* effect").
NothingRepeated ==
    replayed # NoRecord =>
        /\ replayed.from = [e \in original.effects |-> evidence[e]]
        /\ \A e \in original.effects : evidence[e] # "none"
        /\ ~original.approved

\* What may be stored as the new run: the results on record of all effects of
\* an original that needed no approval.
Faithful(record) ==
    /\ original # NoRecord /\ ~original.approved
    /\ record.from = [e \in original.effects |-> evidence[e]]
    /\ \A e \in original.effects : evidence[e] # "none"

\* The inductive invariant behind NothingRepeated.
ReplayInv ==
    /\ ReplayTypeOK
    /\ original = NoRecord => plans = [p \in {} |-> "ready"] /\ \A c \in Callers : xcall[c].step # "stage"
    /\ \A e \in Effects : evidence[e] # "none" => original # NoRecord /\ e \in original.effects
    /\ \A c \in Callers : xcall[c].step = "effect" => original # NoRecord /\ xcall[c].effect \in original.effects
    /\ replayed # NoRecord => Faithful(replayed)
    /\ \A c \in Callers : xcall[c].step = "replay" => Faithful(xcall[c].to)
=============================================================================
