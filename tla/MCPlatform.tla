----------------------------- MODULE MCPlatform -----------------------------
(* Small instances of the platform services, mostly one at a time.          *)
EXTENDS Platform, TLC

Only(service, calls) == [s \in Rations |-> IF s = service THEN calls ELSE 0]

MCQuotas ==
    {Only("emergency", 4), [Only("emergency", 3) EXCEPT !["approvals"] = 1],
     Only("workflows", 5), [Only("workflows", 2) EXCEPT !["emergency"] = 1],
     Only("inbox", 4), Only("outbox", 9), Only("packages", 5), Only("mcp", 6),
     Only("traces", 5), Only("evals", 6), Only("replays", 6),
     Only("gateways", 5), Only("secrets", 4)}

\* Two calls of the emergency service, nothing else.
MCBreakerQuotas == {Only("emergency", 2)}

\* Two commands with a gate, a wait or a node no executor handles between.
MCOrder == <<"a", "b", "c">>
MCEdges == {<<"a", "b">>, <<"b", "c">>}
MCKinds ==
    {[n \in {"a", "b", "c"} |-> IF n = "b" THEN between ELSE "command"] :
       between \in {"approval", "wait", "other"}}

\* Two revisions of one definition, and one of another.
MCRendered == [d \in {"d1", "d2", "d3"} |-> IF d = "d3" THEN "n" ELSE "m"]

\* A session that may be resumed and may call tools.
MCRequested == [o \in {"s1"} |-> {"messages", "session_resume", "tool_calls", "unheard_of"}]
MCSymmetry == Permutations(Callers)
=============================================================================
