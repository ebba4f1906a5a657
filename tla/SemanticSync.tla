----------------------------- MODULE SemanticSync ----------------------------
(***************************************************************************)
(* semantic/sync.py and the promotion of services/semantic.py and cli.py:  *)
(* a model is regenerated from its pipeline (the candidate) and merged,    *)
(* against the last generated draft (the base), into the curated file that *)
(* people edit.  Files are replaced atomically, one after the other, and   *)
(* the process may die in between.                                         *)
(***************************************************************************)
EXTENDS Naturals, FiniteSets

CONSTANTS
    Pipelines,    \* the payloads a pipeline generates over its life
    Names,        \* names of dimensions and metrics
    Keys,         \* keys of an item; "type" and "sql" are special
    ModelKeys,    \* keys of the model itself
    Similar,      \* pairs of names close enough to suggest a renaming
    Widening,     \* pairs of types of which the second contains the first
    HumanValue    \* what a person writes

Collections == {"dimensions", "metrics"}
Fields == {"hash", "generated", "grain", "model", "items"}
SyncAssumption ==
    \A p \in Pipelines :
        /\ DOMAIN p = Fields
        /\ p.items = [c \in Collections |-> [n \in Names |-> [k \in Keys |-> p.items[c][n][k]]]]

VARIABLES
    pipeline,     \* the payload the pipeline generates now
    draft,        \* .drafts/<key>.yaml, or NoFile
    curated,      \* <key>.yaml, or NoFile
    promoting     \* the payload a promotion has still to write over curated, or NoFile

syncVars == <<pipeline, draft, curated, promoting>>

NoFile == [hash |-> "no file"]
Absent == "absent"
Generated == {p.items[c][n][k] : p \in Pipelines, c \in Collections, n \in Names, k \in Keys}
Item == [Keys -> {Absent, HumanValue} \union Generated]
NoItem == [k \in Keys |-> Absent]      \* the name is not in the collection
Has(model, c, n) == model.items[c][n] # NoItem

SyncTypeOK ==
    /\ pipeline \in Pipelines
    /\ \A f \in {draft, curated, promoting} :
         f # NoFile => DOMAIN f = Fields /\ f.items \in [Collections -> [Names -> Item]]

----------------------------------------------------------------------------
(* The merge.  Every merge returns the value kept, whether it differs from
   the base because of the pipeline, and whether a person must decide.      *)

Kept(v) == [value |-> v, changed |-> FALSE, conflict |-> FALSE]
Taken(v) == [value |-> v, changed |-> TRUE, conflict |-> FALSE]
Refused(v) == [value |-> v, changed |-> FALSE, conflict |-> TRUE]
Flags(merge) == [changed |-> merge.changed, conflict |-> merge.conflict]

_type_conflict(base, current, candidate) ==
    Absent \in {base, current, candidate} \/ current # base \/ <<base, candidate>> \notin Widening

\* A regeneration that forgets the edits.
_merge_scalar_regenerated(base, current, candidate) ==
    IF candidate = base THEN Kept(current) ELSE Taken(candidate)

_merge_scalar(base, current, candidate) ==
    IF candidate = base THEN Kept(current) ELSE IF current = base THEN Taken(candidate) ELSE Refused(current)

\* One key of an item: as a scalar, but a type may only widen.
MergeKey(key, base, current, candidate) ==
    IF key = "type" /\ candidate # base
    THEN IF _type_conflict(base, current, candidate) THEN Refused(current) ELSE Taken(candidate)
    ELSE _merge_scalar(base, current, candidate)

_merge_dict(base, current, candidate) ==
    LET merged == [k \in Keys |-> MergeKey(k, base[k], current[k], candidate[k])]
    IN  [value |-> [k \in Keys |-> merged[k].value],
         changed |-> \E k \in Keys : merged[k].changed,
         conflict |-> \E k \in Keys : merged[k].conflict]

_suggest_renames(c, base, candidate) ==
    \E removed \in base.generated, added \in Names :
        /\ <<removed, added>> \in Similar
        /\ Has(base, c, removed) /\ ~Has(candidate, c, removed)
        /\ Has(candidate, c, added) /\ ~Has(base, c, added)

_metric_depending_on_column(model, column) ==
    \E m \in Names : Has(model, "metrics", m) /\ model.items["metrics"][m]["sql"] = column

MergeItem(c, n, base, cur, candidate) ==
    LET b == base.items[c][n]
        h == cur.items[c][n]
        g == candidate.items[c][n]
        now == IF h = NoItem THEN b ELSE h
    IN  IF b = NoItem THEN IF g # NoItem THEN Taken(g) ELSE Kept(h)
        ELSE IF g # NoItem THEN _merge_dict(b, now, g)
        ELSE IF c = "dimensions" /\ h # NoItem /\ _metric_depending_on_column(cur, n) THEN Refused(now)
        ELSE [value |-> NoItem, changed |-> h # NoItem, conflict |-> FALSE]

_check_provenance(base, cur) == cur.hash # base.hash \/ cur.generated # base.generated

\* The report of a synchronisation: the payload (NoFile when a person must
\* decide), whether it reports changes, whether it reports conflicts.
Report(payload, changed, conflict) == [payload |-> payload, changed |-> changed, conflict |-> conflict]

_diff_payloads(base, candidate) == base.items # candidate.items

MergeModels(base, cur, candidate) ==
    LET scalars == [k \in ModelKeys |-> _merge_scalar(base.model[k], cur.model[k], candidate.model[k])]
        items == [c \in Collections |-> [n \in Names |-> MergeItem(c, n, base, cur, candidate)]]
        all == {Flags(scalars[k]) : k \in ModelKeys} \union {Flags(items[c][n]) : c \in Collections, n \in Names}
        conflict == \/ base.grain # candidate.grain
                    \/ \E r \in all : r.conflict
                    \/ \E c \in Collections : _suggest_renames(c, base, candidate)
        merged == [candidate EXCEPT !.model = [k \in ModelKeys |-> scalars[k].value],
                                    !.items = [c \in Collections |-> [n \in Names |-> items[c][n].value]]]
    IN  Report(IF conflict THEN NoFile ELSE merged, \E r \in all : r.changed, conflict)

_plan_merge(candidate, base, cur) ==
    IF cur = NoFile THEN Report(candidate, base = NoFile \/ _diff_payloads(base, candidate), FALSE)
    ELSE IF base = NoFile THEN Report(NoFile, FALSE, TRUE)
    ELSE IF base.hash = candidate.hash THEN Report(base, FALSE, FALSE)
    ELSE IF _check_provenance(base, cur) THEN Report(NoFile, FALSE, TRUE)
    ELSE MergeModels(base, cur, candidate)

sync == _plan_merge(pipeline, draft, curated)

\* Promotion would make a key disappear that the curated file has.
CurationLoss(payload) ==
    curated # NoFile /\
        \/ \E k \in ModelKeys : curated.model[k] # Absent /\ payload.model[k] = Absent
        \/ \E c \in Collections, n \in Names :
              /\ Has(curated, c, n) /\ Has(payload, c, n)
              /\ \E k \in Keys : curated.items[c][n][k] # Absent /\ payload.items[c][n][k] = Absent

AlreadyCurrent == ~sync.conflict /\ curated # NoFile /\ ~sync.changed
WouldPromote == ~sync.conflict /\ ~AlreadyCurrent /\ ~CurationLoss(sync.payload)

----------------------------------------------------------------------------
(* The actions. *)

SyncInit ==
    /\ pipeline \in Pipelines
    /\ draft = NoFile /\ curated = NoFile /\ promoting = NoFile

\* Somebody changes the pipeline.
ChangePipeline == pipeline' \in Pipelines \ {pipeline} /\ UNCHANGED <<draft, curated, promoting>>

\* Somebody edits the curated file: a value, a model key, an item of their own
\* or the removal of one.
Curate ==
    /\ curated # NoFile
    /\ \/ \E c \in Collections, n \in Names, k \in Keys :
            Has(curated, c, n) /\ curated' = [curated EXCEPT !.items[c][n][k] = HumanValue]
       \/ \E k \in ModelKeys : curated' = [curated EXCEPT !.model[k] = HumanValue]
       \/ \E c \in Collections, n \in Names :
            ~Has(curated, c, n) /\ curated' = [curated EXCEPT !.items[c][n] = [k \in Keys |-> HumanValue]]
       \/ \E c \in Collections, n \in Names :
            Has(curated, c, n) /\ curated' = [curated EXCEPT !.items[c][n] = NoItem]
    /\ UNCHANGED <<pipeline, draft, promoting>>

\* sync --write-draft
WriteDraft ==
    /\ promoting = NoFile
    /\ ~sync.conflict /\ sync.payload # draft
    /\ draft' = sync.payload
    /\ UNCHANGED <<pipeline, curated, promoting>>

\* sync --promote writes the draft, then the curated file; the catalogue entry
\* that follows is derived from it.
Promote ==
    /\ promoting = NoFile /\ WouldPromote
    /\ draft' = sync.payload /\ promoting' = sync.payload
    /\ UNCHANGED <<pipeline, curated>>
WriteCurated ==
    /\ promoting # NoFile
    /\ curated' = promoting /\ promoting' = NoFile
    /\ UNCHANGED <<pipeline, draft>>
PromotionDies == promoting # NoFile /\ promoting' = NoFile /\ UNCHANGED <<pipeline, draft, curated>>

SyncNext == ChangePipeline \/ Curate \/ WriteDraft \/ Promote \/ WriteCurated \/ PromotionDies

SyncSpec == SyncInit /\ [][SyncNext]_syncVars

----------------------------------------------------------------------------
(* Properties. *)

Edited(c, n, k) == Has(curated, c, n) /\ Has(draft, c, n) /\ curated.items[c][n][k] # draft.items[c][n][k]

\* Promotion never silently replaces what a person wrote: an edited value of an
\* item the pipeline still generates, an edited model key and an item that only
\* people know survive in the promoted file.
PromotionKeepsEdits ==
    promoting = NoFile /\ draft # NoFile /\ curated # NoFile /\ WouldPromote =>
        LET new == sync.payload
        IN  /\ \A k \in ModelKeys : curated.model[k] # draft.model[k] => new.model[k] = curated.model[k]
            /\ \A c \in Collections, n \in Names :
                 /\ \A k \in Keys : Edited(c, n, k) /\ Has(pipeline, c, n) => new.items[c][n][k] = curated.items[c][n][k]
                 /\ ~Has(draft, c, n) /\ ~Has(pipeline, c, n) => new.items[c][n] = curated.items[c][n]

\* What the documentation says of the no-op: "already current" is answered only
\* when the curated file comes from the pipeline as it is.
NoopMeansCurrent == promoting = NoFile /\ AlreadyCurrent => curated.hash = pipeline.hash
==============================================================================
