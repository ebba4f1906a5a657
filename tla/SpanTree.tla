------------------------------- MODULE SpanTree -------------------------------
(***************************************************************************)
(* The in-memory tracer: spans opened and closed in any order, from the    *)
(* main context and from a task that copied it.  The active span and the   *)
(* correlation context are context variables: a token restores the value   *)
(* it replaced, once, and only in the context that created it.             *)
(***************************************************************************)
EXTENDS Naturals, Sequences

CONSTANTS
    MaxSpans,      \* spans of a history
    MaxScopes      \* use_context blocks of a history

SpanAssumption == MaxSpans \in Nat \ {0} /\ MaxScopes \in Nat

Contexts == {"main", "task"}

VARIABLES
    spans,      \* in start order: parent, trace, run, home context, value its token restores, start, end
    current,    \* per context, the active span or 0
    ambient,    \* per context, the correlation run or 0
    scopes,     \* per context, the values the open use_context blocks restore
    copied,     \* the task's context exists
    nested,     \* per context, its spans were closed innermost first, in it
    opened, clock

spanVars == <<spans, current, ambient, scopes, copied, nested, opened, clock>>

SpanInit ==
    /\ spans = <<>> /\ copied = FALSE /\ opened = 0 /\ clock = 0
    /\ current = [c \in Contexts |-> 0] /\ ambient = [c \in Contexts |-> 0] /\ scopes = [c \in Contexts |-> <<>>]
    /\ nested = [c \in Contexts |-> TRUE]

Open(s) == spans[s].end = 0
(* The nearest ancestor still open; parents are older, so the walk ends. *)
_live_ancestor(all, span) ==
    LET up[s \in 0..Len(all)] == IF s = 0 \/ all[s].end = 0 THEN s ELSE up[all[s].parent]
    IN  up[span]

\* A parent that has ended is not skipped.
start_span_closed(c) ==
    /\ Len(spans) < MaxSpans
    /\ spans' = Append(spans, [parent |-> current[c], trace |-> IF current[c] = 0 THEN Len(spans) + 1 ELSE spans[current[c]].trace,
                               run |-> ambient[c], home |-> c, old |-> current[c], start |-> clock + 1, end |-> 0])
    /\ current' = [current EXCEPT ![c] = Len(spans) + 1] /\ clock' = clock + 1
    /\ UNCHANGED <<ambient, scopes, copied, nested, opened>>
start_span(c) ==
    /\ Len(spans) < MaxSpans
    /\ LET parent == _live_ancestor(spans, current[c])
       IN  spans' = Append(spans,
             [parent |-> parent, trace |-> IF parent = 0 THEN Len(spans) + 1 ELSE spans[parent].trace,
              run |-> IF ambient[c] # 0 \/ parent = 0 THEN ambient[c] ELSE spans[parent].run,
              home |-> c, old |-> current[c], start |-> clock + 1, end |-> 0])
    /\ current' = [current EXCEPT ![c] = Len(spans) + 1] /\ clock' = clock + 1
    /\ UNCHANGED <<ambient, scopes, copied, nested, opened>>

(* Every span holds its own token, so it is used at most once. *)
Restored(c, s) == IF spans[s].home = c THEN spans[s].old ELSE current[c]
_end_span(c, s) ==
    /\ Open(s)
    /\ spans' = [spans EXCEPT ![s].end = clock + 1] /\ clock' = clock + 1
    /\ current' = [current EXCEPT ![c] = _live_ancestor(spans', Restored(c, s))]
    /\ nested' = [nested EXCEPT ![c] = @ /\ current[c] = s, ![spans[s].home] = @ /\ spans[s].home = c /\ current[c] = s]
    /\ UNCHANGED <<ambient, scopes, copied, opened>>

use_context(c) ==
    /\ opened < MaxScopes /\ opened' = opened + 1
    /\ ambient' = [ambient EXCEPT ![c] = opened + 1] /\ scopes' = [scopes EXCEPT ![c] = Append(@, ambient[c])]
    /\ UNCHANGED <<spans, current, copied, nested, clock>>
LeaveContext(c) ==
    /\ scopes[c] # <<>>
    /\ ambient' = [ambient EXCEPT ![c] = scopes[c][Len(scopes[c])]] /\ scopes' = [scopes EXCEPT ![c] = SubSeq(@, 1, Len(@) - 1)]
    /\ UNCHANGED <<spans, current, copied, nested, opened, clock>>
(* A task starts with a copy of the context of its creator. *)
CopyContext ==
    /\ ~copied /\ copied' = TRUE
    /\ current' = [current EXCEPT !["task"] = current["main"]] /\ ambient' = [ambient EXCEPT !["task"] = ambient["main"]]
    /\ UNCHANGED <<spans, scopes, nested, opened, clock>>

SpanNext ==
    \/ CopyContext
    \/ \E c \in Contexts : (c = "task" => copied) /\
        (start_span(c) \/ use_context(c) \/ LeaveContext(c) \/ \E s \in 1..Len(spans) : _end_span(c, s))
SpanSpec == SpanInit /\ [][SpanNext]_spanVars

-------------------------------------------------------------------------------
(* The tree can be exported: a span's parent was open when the span        *)
(* started, whichever context closed it, and shares its trace.             *)
ParentWasOpen ==
    \A s \in 1..Len(spans) : LET p == spans[s].parent IN p # 0 =>
        /\ p < s /\ spans[p].trace = spans[s].trace
        /\ spans[p].end = 0 \/ spans[p].end > spans[s].start

(* While a context closes its spans innermost first, the next span it      *)
(* starts hangs below the last one it has open, or below the open part of  *)
(* what it inherited: no level is skipped and none is left behind.         *)
NestedScopesNest ==
    \A c \in Contexts : nested[c] =>
        \A s \in 1..Len(spans) : Open(s) /\ spans[s].home = c => current[c] >= s
===============================================================================
