------------------------------ MODULE Telemetry ------------------------------
(* Traces and spans (telemetry/service.py).  Spans of one trace come from   *)
(* several processes; a span is stored, updated and ended by revisions of   *)
(* its record, close_trace sums up what it finds, and an export writes what *)
(* an approval was given for.                                               *)
EXTENDS PlatformStore, FiniteSets

CONSTANTS Spans,          \* span ids; "root" is the root span of the trace
          MaxTraceCalls   \* bound of a behaviour

ASSUME SpansAssumption == IsFiniteSet(Spans) /\ "root" \in Spans /\ "none" \notin Spans

VARIABLES trace,     \* head of the trace record
          spans,     \* heads of the span records
          exported,  \* the file an export wrote
          granted,   \* the fingerprint the export approval covers
          zcall,     \* the call of each caller
          zbudget    \* bounds: calls, deaths

zvars == <<trace, spans, exported, granted, zcall, zbudget>>

NoTrace == [rev |-> 0, status |-> "unset", counted |-> 0]
NoSpan == [rev |-> 0, parent |-> "none", status |-> "unset", text |-> "clean"]
TraceIdle == [step |-> "idle"]
SpanEnded == {"ok", "error"}

TraceHeads == [rev : Nat, status : {"unset"} \cup SpanEnded, counted : 0..Cardinality(Spans)]
SpanHeads == [rev : Nat, parent : Spans \cup {"none"}, status : {"unset"} \cup SpanEnded,
              text : {"clean", "redacted"}]

\* Calls about a span remember what they will append, a closing call the
\* trace's revision and its sum, an export the heads it read.
SpanCalls == [step : {"prior", "append"}, span : Spans, new : SpanHeads]
CloseCalls == [step : {"sum", "close"}, status : SpanEnded, rev : Nat, count : 0..Cardinality(Spans)]
TraceCalls == SpanCalls \cup CloseCalls \cup [step : {"create"}] \cup [step : {"write"}, heads : SUBSET (Spans \X Nat)]

TraceTypeOK ==
    /\ trace \in TraceHeads
    /\ spans \in [Spans -> SpanHeads]
    /\ exported \subseteq Spans \X Nat /\ granted \subseteq Spans \X Nat
    /\ zcall \in [Callers -> TraceCalls \cup {TraceIdle}]

TraceInit ==
    /\ trace = NoTrace
    /\ spans = [s \in Spans |-> NoSpan]
    /\ exported = {} /\ granted = {}
    /\ zcall = [c \in Callers |-> TraceIdle]
    /\ zbudget = [calls |-> 0, deaths |-> 0]

-----------------------------------------------------------------------------
ZEnd(c) == zcall' = [zcall EXCEPT ![c] = TraceIdle]

TraceCall(c, call) ==
    /\ zcall[c] = TraceIdle
    /\ zbudget.calls < MaxTraceCalls
    /\ zbudget' = [zbudget EXCEPT !.calls = @ + 1]
    /\ zcall' = [zcall EXCEPT ![c] = call]
    /\ UNCHANGED <<trace, spans, exported, granted>>

\* _trace_span_records, _all_head_records.
Recorded == {s \in Spans : spans[s].rev > 0}

CreateTrace(c) == trace.rev = 0 /\ TraceCall(c, [step |-> "create"])

\* Another process may have created it since.
AppendTrace(c) ==
    /\ zcall[c].step = "create"
    /\ trace' = IF HeadUnmoved(trace, 0) THEN Appended(trace, NoTrace) ELSE trace
    /\ ZEnd(c)
    /\ UNCHANGED <<spans, exported, granted, zbudget>>

\* _sanitize_span: what the scanner finds in an attribute becomes a digest;
\* found in any other field, the span is refused.
Sanitized(text) == IF text = "secret" THEN "redacted" ELSE text

\* record_span: the trace is there, a span without a parent is its root, any
\* other parent is there.
RecordSpan(c, s, parent, status, text) ==
    /\ text # "restricted"
    /\ trace.rev > 0
    /\ IF parent = "none" THEN s = "root" ELSE spans[parent].rev > 0
    /\ TraceCall(c, [step |-> "prior", span |-> s,
                     new |-> [rev |-> 0, parent |-> parent, status |-> status, text |-> Sanitized(text)]])

\* A span whose place in the trace may change.
IdentityAny(prior, new) == TRUE

\* Span identity fields cannot change.
IdentityKept(prior, new) == prior.parent = new.parent

\* The prior head: nothing but its status, sums and attributes may change,
\* and none of those once it has ended.
ReadPrior(c) ==
    LET prior == spans[zcall[c].span] IN
    /\ zcall[c].step = "prior"
    /\ IF prior.rev > 0 /\ (~IdentityKept(prior, zcall[c].new) \/ prior.status \in SpanEnded) THEN ZEnd(c)
       ELSE zcall' = [zcall EXCEPT ![c].step = "append", ![c].new.rev = prior.rev]
    /\ UNCHANGED <<trace, spans, exported, granted, zbudget>>

AppendSpan(c) ==
    LET s == zcall[c].span  new == zcall[c].new IN
    /\ zcall[c].step = "append"
    /\ spans' = IF HeadUnmoved(spans[s], new.rev) THEN [spans EXCEPT ![s] = Appended(@, new)] ELSE spans
    /\ ZEnd(c)
    /\ UNCHANGED <<trace, exported, granted, zbudget>>

\* close_trace: the trace, then its spans, then the revision with the sums.
CloseTrace(c, status) ==
    /\ trace.rev > 0
    /\ TraceCall(c, [step |-> "sum", status |-> status, rev |-> trace.rev, count |-> 0])

SumSpans(c) ==
    /\ zcall[c].step = "sum"
    /\ zcall' = [zcall EXCEPT ![c].step = "close", ![c].count = Cardinality(Recorded)]
    /\ UNCHANGED <<trace, spans, exported, granted, zbudget>>

AppendClosed(c) ==
    LET call == zcall[c] IN
    /\ call.step = "close"
    /\ trace' = IF HeadUnmoved(trace, call.rev)
                THEN Appended(trace, [rev |-> 0, status |-> call.status, counted |-> call.count]) ELSE trace
    /\ ZEnd(c)
    /\ UNCHANGED <<spans, exported, granted, zbudget>>

-----------------------------------------------------------------------------
\* export_fingerprint, which people look at before they approve.
Fingerprinted == {<<s, spans[s].rev>> : s \in Recorded}

Grant ==
    /\ granted # Fingerprinted
    /\ granted' = Fingerprinted
    /\ UNCHANGED <<trace, spans, exported, zcall, zbudget>>

\* export_otlp: the heads are read, hashed and compared with the approval;
\* what is written is made of the heads that were read, sanitized once more.
ExportTraces(c) ==
    /\ exported = {}
    /\ Fingerprinted = granted /\ granted # {}
    /\ TraceCall(c, [step |-> "write", heads |-> Fingerprinted])

WriteExport(c) ==
    /\ zcall[c].step = "write"
    /\ exported' = zcall[c].heads
    /\ ZEnd(c)
    /\ UNCHANGED <<trace, spans, granted, zbudget>>

TracerDies(c) ==
    /\ zcall[c] # TraceIdle
    /\ zbudget.deaths < MaxDeaths
    /\ zbudget' = [zbudget EXCEPT !.deaths = @ + 1]
    /\ ZEnd(c)
    /\ UNCHANGED <<trace, spans, exported, granted>>

TraceNext ==
    \/ \E c \in Callers :
         \/ CreateTrace(c) \/ AppendTrace(c) \/ ReadPrior(c) \/ AppendSpan(c) \/ SumSpans(c)
         \/ AppendClosed(c) \/ ExportTraces(c) \/ WriteExport(c) \/ TracerDies(c)
         \/ \E s \in Spans, parent \in Spans \cup {"none"}, status \in {"unset", "ok"},
               text \in {"clean", "secret", "restricted"} : RecordSpan(c, s, parent, status, text)
         \/ \E status \in SpanEnded : CloseTrace(c, status)
    \/ Grant

-----------------------------------------------------------------------------
\* The spans of a trace are one tree: the root has no parent, every other span
\* has a recorded one, and no spans are each other's ancestors, whatever
\* overlapping calls store and update (record_span: "Span parent is missing",
\* "Span identity fields cannot change").
SpansRooted ==
    /\ \A s \in Recorded : IF s = "root" THEN spans[s].parent = "none" ELSE spans[s].parent \in Recorded
    /\ \A S \in (SUBSET Recorded) \ {{}} : \E s \in S : spans[s].parent \notin S

\* What a call about a span rests on: its parent is recorded, and as long as
\* the head has not moved the parent is the one on record.
SpanCallStands(call) ==
    /\ IF call.new.parent = "none" THEN call.span = "root" ELSE call.new.parent \in Recorded
    /\ call.step = "append" =>
          /\ call.span = "root" => call.new.parent = "none"
          /\ call.new.rev <= spans[call.span].rev
          /\ call.new.rev > 0 /\ call.new.rev = spans[call.span].rev => call.new.parent = spans[call.span].parent

\* The inductive invariant behind SpansRooted.
TraceInv ==
    /\ TraceTypeOK
    /\ SpansRooted
    /\ Recorded # {} => "root" \in Recorded
    /\ \A c \in Callers : zcall[c] \in SpanCalls => SpanCallStands(zcall[c])
=============================================================================
