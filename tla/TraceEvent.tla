------------------------------ MODULE TraceEvent ------------------------------
(***************************************************************************)
(* The upper word of an event: what a core puts into it (e_trace.c of      *)
(* e-lib) and how the host takes it apart and makes one of its own         *)
(* (trace_event_to_struct, trace_struct_to_event, trace_to_event).  How    *)
(* wide the fields are is a parameter; they lie as here, data lowest.      *)
(***************************************************************************)
EXTENDS Integers

CONSTANTS Size        \* values of each field: 2^8, 2^12, 2^4, 2^6, 2^2

Fields == {"data", "coreId", "breakpoint", "eventId", "severity"}
Offset ==
    LET breakpoint == Size.data * Size.coreId
        eventId == breakpoint * Size.breakpoint
    IN [data |-> 1, coreId |-> Size.data, breakpoint |-> breakpoint, eventId |-> eventId,
        severity |-> eventId * Size.eventId]

trace_event_to_struct(e) == [f \in Fields |-> (e \div Offset[f]) % Size[f]]

\* The fields are disjoint, so that their union is their sum.
trace_struct_to_event(s) ==
    LET Placed(f) == (s[f] % Size[f]) * Offset[f]
    IN Placed("severity") + Placed("eventId") + Placed("coreId") + Placed("breakpoint") + Placed("data")
trace_to_event(s) == trace_struct_to_event([f \in Fields |-> s[f] % Size[f]])

\* On a core: severity, event and breakpoint come shifted (T_EVENT_..., T_BP_...),
\* logCoreid is masked and shifted; the data is taken as it is.
logCoreid(id) == (id % Size.coreId) * Offset.coreId
trace_write_word(severity, event, breakpoint, id, data) ==
    severity * Offset.severity + event * Offset.eventId + breakpoint * Offset.breakpoint + logCoreid(id) + data
=============================================================================
