------------------------------- MODULE Drafts -------------------------------
(* Draft saving (saving.py): a synthesis over the active corpus is staged   *)
(* under an operation key that includes the generation.  Identical saves    *)
(* meet at the operation row and a lease; the bundle is written file by     *)
(* file while the corpus may be promoted to another generation.             *)
EXTENDS PlatformStore, Sequences

CONSTANTS MaxStages, MaxPromotions    \* bounds of a behaviour

VARIABLES corpus,    \* the current generation
          oper,      \* operation rows, by generation: none, claimed, succeeded
          dlease,    \* who holds the lease of each operation
          bundle,    \* files of each operation's bundle
          stage,     \* the stage call of each caller
          tbudget,   \* bounds: calls, expiries and deaths
          results    \* history: results given to callers, with the generations of the call

tvars == <<corpus, oper, dlease, bundle, stage, tbudget, results>>

ASSUME DraftsAssumption == MaxPromotions \in Nat

Gens == 0 .. MaxPromotions
StIdle == [step |-> "idle"]

\* The files of a bundle in the order they are written (_write_bundle), and
\* the run manifest after them.
DraftFiles == <<"payloads", "marker", "preview", "artifact", "manifest">>
BundleFiles == {"payloads", "marker", "preview", "artifact"}

StageCalls == [step : {"claim", "join", "check", "write", "recheck", "succeed", "verify"}, gen : Gens, at : 1 .. 5]

DraftTypeOK ==
    /\ corpus \in Gens
    /\ oper \in [Gens -> {"none", "claimed", "succeeded"}]
    /\ dlease \in [Gens -> SUBSET Callers]
    /\ bundle \in [Gens -> SUBSET (BundleFiles \cup {"manifest"})]
    /\ stage \in [Callers -> StageCalls \cup {StIdle}]
    /\ results \subseteq Gens

DraftInit ==
    /\ corpus = 0
    /\ oper = [g \in Gens |-> "none"]
    /\ dlease = [g \in Gens |-> {}]
    /\ bundle = [g \in Gens |-> {}]
    /\ stage = [c \in Callers |-> StIdle]
    /\ tbudget = [calls |-> 0, faults |-> 0]
    /\ results = {}

StGo(c, step) == stage' = [stage EXCEPT ![c].step = step]
StEnd(c) == stage' = [stage EXCEPT ![c] = StIdle]
Free(c, g) == dlease' = [dlease EXCEPT ![g] = @ \ {c}]

\* The corpus is loaded and the operation key derived from its generation.
StartStage(c) ==
    /\ stage[c] = StIdle
    /\ tbudget.calls < MaxStages
    /\ tbudget' = [tbudget EXCEPT !.calls = @ + 1]
    /\ stage' = [stage EXCEPT ![c] = [step |-> "claim", gen |-> corpus, at |-> 1]]
    /\ UNCHANGED <<corpus, oper, dlease, bundle, results>>

\* claim_operation: a finished operation is only verified.
ClaimDraft(c) ==
    LET g == stage[c].gen IN
    /\ stage[c].step = "claim"
    /\ oper' = [oper EXCEPT ![g] = IF @ = "none" THEN "claimed" ELSE @]
    /\ StGo(c, IF oper[g] = "succeeded" THEN "verify" ELSE "join")
    /\ UNCHANGED <<corpus, dlease, bundle, tbudget, results>>

\* _acquire_or_join: the lease, the result of whoever had it, or a timeout.
AcquireOrJoin(c) ==
    LET g == stage[c].gen IN
    /\ stage[c].step = "join"
    /\ \/ dlease[g] = {} /\ dlease' = [dlease EXCEPT ![g] = {c}] /\ StGo(c, "check")
       \/ dlease[g] # {} /\ oper[g] = "succeeded" /\ StGo(c, "verify") /\ UNCHANGED dlease
       \/ dlease[g] # {} /\ oper[g] # "succeeded" /\ StEnd(c) /\ UNCHANGED dlease
    /\ UNCHANGED <<corpus, oper, bundle, tbudget, results>>

\* With the lease: the row once more, then the generation.
CheckStage(c) ==
    LET g == stage[c].gen IN
    /\ stage[c].step = "check"
    /\ CASE oper[g] = "succeeded" -> StGo(c, "verify") /\ Free(c, g)
         [] oper[g] # "succeeded" /\ corpus = g -> StGo(c, "write") /\ UNCHANGED dlease
         [] OTHER -> StEnd(c) /\ Free(c, g)
    /\ UNCHANGED <<corpus, oper, bundle, tbudget, results>>

\* A writer that takes the marker for the end of the bundle.
WrittenAtMarker(at) == at >= 2

\* All files are written.
Written(at) == at = Len(DraftFiles)

\* One file after another; the bytes are a function of the operation, so a
\* writer whose lease ran out repeats what the other writes.  Before the run
\* manifest the generation is read again.
WriteDraft(c) ==
    LET g == stage[c].gen  at == stage[c].at IN
    /\ stage[c].step = "write"
    /\ bundle' = [bundle EXCEPT ![g] = @ \cup {DraftFiles[at]}]
    /\ CASE Written(at) -> StGo(c, "succeed")
         [] ~Written(at) /\ DraftFiles[at] = "artifact" -> StGo(c, "recheck")
         [] OTHER -> stage' = [stage EXCEPT ![c].at = @ + 1]
    /\ UNCHANGED <<corpus, oper, dlease, tbudget, results>>

Recheck(c) ==
    /\ stage[c].step = "recheck"
    /\ IF corpus = stage[c].gen
       THEN stage' = [stage EXCEPT ![c].step = "write", ![c].at = @ + 1] /\ UNCHANGED dlease
       ELSE StEnd(c) /\ Free(c, stage[c].gen)
    /\ UNCHANGED <<corpus, oper, bundle, tbudget, results>>

\* The result becomes durable; the lease is released.
SucceedDraft(c) ==
    LET g == stage[c].gen IN
    /\ stage[c].step = "succeed"
    /\ oper' = [oper EXCEPT ![g] = "succeeded"]
    /\ results' = results \cup {g}
    /\ StEnd(c) /\ Free(c, g)
    /\ UNCHANGED <<corpus, bundle, tbudget>>

\* _verify_result: paths, hashes and the generation of an earlier result.
VerifyResult(c) ==
    LET g == stage[c].gen IN
    /\ stage[c].step = "verify"
    /\ results' = IF corpus = g /\ BundleFiles \subseteq bundle[g] THEN results \cup {g} ELSE results
    /\ StEnd(c)
    /\ UNCHANGED <<corpus, oper, dlease, bundle, tbudget>>

\* A promotion moves ledger/CURRENT.
PromoteCorpus ==
    /\ corpus < MaxPromotions
    /\ corpus' = corpus + 1
    /\ UNCHANGED <<oper, dlease, bundle, stage, tbudget, results>>

\* The lease of a slow writer runs out, or the writer dies.
StageFault(c) ==
    /\ stage[c] # StIdle
    /\ tbudget.faults < MaxDeaths
    /\ tbudget' = [tbudget EXCEPT !.faults = @ + 1]
    /\ Free(c, stage[c].gen)
    /\ StEnd(c) \/ UNCHANGED stage
    /\ UNCHANGED <<corpus, oper, bundle, results>>

DraftNext ==
    \/ \E c \in Callers :
         StartStage(c) \/ ClaimDraft(c) \/ AcquireOrJoin(c) \/ CheckStage(c) \/ WriteDraft(c)
         \/ Recheck(c) \/ SucceedDraft(c) \/ VerifyResult(c) \/ StageFault(c)
    \/ PromoteCorpus

-----------------------------------------------------------------------------
\* A result that any caller was given, by its own work or by joining another,
\* has its whole bundle on disk (stage, _verify_result).
ResultsWhole == \A g \in results : BundleFiles \subseteq bundle[g]

-----------------------------------------------------------------------------
\* The files before the one a writer is at are on disk, and the whole bundle
\* is when the writer looks at the generation again or goes on to the end.
StageStands(call, files) ==
    /\ call.step \in {"claim", "join", "check"} => call.at = 1
    /\ call.step = "recheck" => call.at = 4
    /\ call.step \in {"write", "recheck"} => \A i \in 1 .. 5 : i < call.at => DraftFiles[i] \in files[call.gen]
    /\ call.step \in {"recheck", "succeed"} => BundleFiles \subseteq files[call.gen]

\* The inductive invariant of draft saving.
DraftInv ==
    /\ DraftTypeOK
    /\ ResultsWhole
    /\ \A c \in Callers : stage[c] # StIdle => StageStands(stage[c], bundle)
=============================================================================
