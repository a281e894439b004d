------------------------------ MODULE Platform ------------------------------
(* The platform services over one record store: emergency controls, the     *)
(* workflow engine they can stop, notifications, the external outbox,       *)
(* packages, MCP governance, traces, evaluations, replays, the protocol     *)
(* gateways and restricted encryption.  The stop is the one record another  *)
(* service reads (assert_runtime_allowed); the rest share no records, and a *)
(* behaviour exercises what its quota names.                                *)
EXTENDS Emergency, Workflows, Notifications, Outbox, Packages, McpGovernance,
        Telemetry, Evals, Replay, Gateways, Secrets

CONSTANT Quotas    \* bounds, one quota per behaviour

\* What a quota bounds: the calls of each service and the approvals given.
Rations == {"emergency", "approvals", "workflows", "inbox", "outbox", "packages", "mcp",
            "traces", "evals", "replays", "gateways", "secrets"}

ASSUME PlatformAssumption == Quotas \subseteq [Rations -> Nat]

VARIABLE quota     \* the quota of this behaviour

vars == <<evars, wvars, nvars, ovars, pvars, gvars, zvars, vvars, xvars, yvars, svars, quota>>

TypeOK ==
    /\ EmergencyTypeOK /\ WorkflowTypeOK /\ NotificationTypeOK /\ OutboxTypeOK
    /\ PackageTypeOK /\ McpTypeOK /\ TraceTypeOK /\ EvalTypeOK /\ ReplayTypeOK
    /\ GatewayTypeOK /\ SecretTypeOK
    /\ quota \in Quotas

\* A service outside the quota starts in one of its initial states only.
Init ==
    /\ EmergencyInit /\ WorkflowInit /\ NotificationInit /\ OutboxInit /\ PackageInit /\ McpInit
    /\ TraceInit /\ EvalInit /\ ReplayInit /\ GatewayInit /\ SecretInit
    /\ quota \in Quotas
    /\ quota["packages"] = 0 => current.rev = 0
    /\ quota["workflows"] = 0 => kind = CHOOSE k \in Kinds : TRUE

\* assert_runtime_allowed opens start, run_ready_steps and the decisions.
WorkflowsMove ==
    /\ \E c \in Callers : (RuntimeAllowed /\ GatedCall(c)) \/ OpenCall(c) \/ WorkflowStep(c)
    /\ UNCHANGED kind

Next ==
    \/ /\ quota["emergency"] > 0 /\ EmergencyNext
       /\ ebudget'.calls <= quota["emergency"] /\ ebudget'.approvals <= quota["approvals"]
       /\ UNCHANGED <<wvars, nvars, ovars, pvars, gvars, zvars, vvars, xvars, yvars, svars, quota>>
    \/ /\ quota["workflows"] > 0 /\ WorkflowsMove /\ wbudget'.calls <= quota["workflows"]
       /\ UNCHANGED <<evars, nvars, ovars, pvars, gvars, zvars, vvars, xvars, yvars, svars, quota>>
    \/ /\ quota["inbox"] > 0 /\ InboxNext /\ nbudget'.calls <= quota["inbox"]
       /\ UNCHANGED <<evars, wvars, ovars, pvars, gvars, zvars, vvars, xvars, yvars, svars, quota>>
    \/ /\ quota["outbox"] > 0 /\ OutboxNext /\ obudget'.calls <= quota["outbox"]
       /\ UNCHANGED <<evars, wvars, nvars, pvars, gvars, zvars, vvars, xvars, yvars, svars, quota>>
    \/ /\ quota["packages"] > 0 /\ PackageNext /\ pbudget'.calls <= quota["packages"]
       /\ UNCHANGED <<evars, wvars, nvars, ovars, gvars, zvars, vvars, xvars, yvars, svars, quota>>
    \/ /\ quota["mcp"] > 0 /\ McpNext /\ gbudget'.calls <= quota["mcp"]
       /\ UNCHANGED <<evars, wvars, nvars, ovars, pvars, zvars, vvars, xvars, yvars, svars, quota>>
    \/ /\ quota["traces"] > 0 /\ TraceNext /\ zbudget'.calls <= quota["traces"]
       /\ UNCHANGED <<evars, wvars, nvars, ovars, pvars, gvars, vvars, xvars, yvars, svars, quota>>
    \/ /\ quota["evals"] > 0 /\ EvalNext /\ vbudget'.calls <= quota["evals"]
       /\ UNCHANGED <<evars, wvars, nvars, ovars, pvars, gvars, zvars, xvars, yvars, svars, quota>>
    \/ /\ quota["replays"] > 0 /\ ReplayNext /\ xbudget'.calls <= quota["replays"]
       /\ UNCHANGED <<evars, wvars, nvars, ovars, pvars, gvars, zvars, vvars, yvars, svars, quota>>
    \/ /\ quota["gateways"] > 0 /\ GatewayNext /\ ybudget'.calls <= quota["gateways"]
       /\ UNCHANGED <<evars, wvars, nvars, ovars, pvars, gvars, zvars, vvars, xvars, svars, quota>>
    \/ /\ quota["secrets"] > 0 /\ SecretNext /\ sbudget'.calls <= quota["secrets"]
       /\ UNCHANGED <<evars, wvars, nvars, ovars, pvars, gvars, zvars, vvars, xvars, yvars, quota>>

Spec == Init /\ [][Next]_vars
=============================================================================
