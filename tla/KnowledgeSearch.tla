---------------------------- MODULE KnowledgeSearch ----------------------------
(***************************************************************************)
(* Search and walks over the knowledge graph.  A node's lexical score and  *)
(* the cosine of its vector are numbers the caller gives; node identifiers *)
(* are numbers, so that ties have an order.                                *)
(***************************************************************************)
EXTENDS Naturals, Sequences, FiniteSets, SequencesExt, FiniteSetsExt, TLC

NoEmbedder == <<0>>     \* the error, no node is numbered 0
Modes == {"bm25", "dense", "hybrid"}

(* A ranking: by falling score, then by identifier. *)
Ranked(items, score) == SetToSortSeq(items, LAMBDA x, y : score[x] > score[y] \/ (score[x] = score[y] /\ x < y))
Rank(ranking, x) == CHOOSE i \in DOMAIN ranking : ranking[i] = x
Take(s, k) == SubSeq(s, 1, IF k < Len(s) THEN k ELSE Len(s))

Selected(index, ask) == {n \in DOMAIN index.nodes : ask.kinds = "any" \/ index.nodes[n].kind = ask.kinds}
Lexical(index, ask) == Ranked({n \in Selected(index, ask) : index.nodes[n].score > 0}, [n \in DOMAIN index.nodes |-> index.nodes[n].score])
(* Only nodes of the graph keep their vectors. *)
Dense(index, ask) == Ranked(Selected(index, ask) \intersect DOMAIN index.vectors \intersect DOMAIN index.nodes, index.vectors)

(* The sum over the rankings of 1 / (k + rank), over one denominator. *)
RrfK == 60
Denominator(n) == FoldSet(LAMBDA r, d : (RrfK + r) * d, 1, 1..n)
Share(ranking, x, n) == IF x \in ToSet(ranking) THEN Denominator(n) \div (RrfK + Rank(ranking, x)) ELSE 0
reciprocal_rank_fusion(left, right) ==
    LET n     == IF Len(left) > Len(right) THEN Len(left) ELSE Len(right)
        items == ToSet(left) \union ToSet(right)
    IN  Ranked(items, [x \in items |-> Share(left, x, n) + Share(right, x, n)])

_search_with_vectors(index, ask, mode) ==
    IF ~index.embedder THEN NoEmbedder
    ELSE IF mode = "dense" THEN Take(Dense(index, ask), ask.k)
    ELSE Take(reciprocal_rank_fusion(Lexical(index, ask), Dense(index, ask)), ask.k)
search(index, ask) ==
    LET mode == IF ask.mode = "" THEN index.default_mode ELSE ask.mode
    IN  IF mode # "bm25" THEN _search_with_vectors(index, ask, mode)
        ELSE Take(Lexical(index, ask), ask.k)

(* Edges with a missing end are dropped when the index is built. *)
Adjacent(index, x) == {y \in DOMAIN index.nodes : \E e \in index.edges : {e.from, e.to} = {x, y} /\ e.strong}
(* The queue is explored one ring of equal distance at a time. *)
Ring(index, near) == UNION {Adjacent(index, x) : x \in near}
(* One hop too many. *)
Distances_past(index, from, max_depth) ==
    LET rings[d \in Nat] == IF d = 0 THEN [seen |-> {from}, at |-> <<{from}>>]
                            ELSE LET p == rings[d - 1]
                                     new == Ring(index, p.at[d]) \ p.seen
                                 IN  [seen |-> p.seen \union new, at |-> Append(p.at, new)]
    IN  [x \in rings[max_depth + 1].seen |-> (CHOOSE d \in 1..(max_depth + 2) : x \in rings[max_depth + 1].at[d]) - 1]
Distances(index, from, max_depth) ==
    LET rings[d \in Nat] == IF d = 0 THEN [seen |-> {from}, at |-> <<{from}>>]
                            ELSE LET p == rings[d - 1]
                                     new == Ring(index, p.at[d]) \ p.seen
                                 IN  [seen |-> p.seen \union new, at |-> Append(p.at, new)]
    IN  [x \in rings[max_depth].seen |-> (CHOOSE d \in 1..(max_depth + 1) : x \in rings[max_depth].at[d]) - 1]
neighbors(index, from, max_depth, kinds) ==
    IF from \notin DOMAIN index.nodes \/ max_depth < 1 THEN {}
    ELSE LET distance == Distances(index, from, max_depth)
         IN  {[node |-> x, hops |-> distance[x]] : x \in Selected(index, [kinds |-> kinds]) \intersect (DOMAIN distance \ {from})}

knowledge_embedding_settings(env) ==
    LET mode == IF env.mode # "" THEN env.mode ELSE IF env.model # "" THEN "hybrid" ELSE "bm25"
    IN  IF env.model \notin {"", "e5"} \/ mode \notin Modes \/ (mode # "bm25" /\ env.model = "") THEN "invalid" ELSE mode
from_config(env, loadable) ==
    LET mode == knowledge_embedding_settings(env)
    IN  CASE mode = "invalid" \/ (mode # "bm25" /\ ~loadable /\ env.mode # "") -> [ok |-> FALSE]
          [] mode = "bm25" \/ ~loadable -> [ok |-> TRUE, embedder |-> FALSE, mode |-> "bm25"]
          [] OTHER -> [ok |-> TRUE, embedder |-> TRUE, mode |-> mode]

-------------------------------------------------------------------------------
(* A node is found at the length of its shortest path of strong edges, and *)
(* exactly when that is at most max_depth, whatever cycles and dead ends   *)
(* the graph has.                                                          *)
NeighborsAreNearest(index, from, max_depth) ==
    LET nodes == DOMAIN index.nodes
        Walk(p) == p[1] = from /\ \A i \in 1..(Len(p) - 1) : p[i + 1] \in Adjacent(index, p[i])
        reached(d) == {p[d + 1] : p \in {q \in [1..(d + 1) -> nodes] : Walk(q)}}
        nearest(x) == Min({d \in 0..max_depth : x \in reached(d)})
    IN  from \in nodes /\ max_depth >= 1 =>
        neighbors(index, from, max_depth, "any") = {[node |-> x, hops |-> nearest(x)] : x \in UNION {reached(d) : d \in 1..max_depth} \ {from}}

(* A hit that both rankings place before another stays before it, and the  *)
(* kind filter holds for every mode: fusion invents no order of its own.   *)
FusionKeepsAgreement(index, ask) ==
    LET lexical == Lexical(index, ask)
        dense   == Dense(index, ask)
        fused   == search(index, [ask EXCEPT !.mode = "hybrid", !.k = Cardinality(DOMAIN index.nodes) + 1])
        before(ranking, x, y) == x \in ToSet(ranking) /\ (y \notin ToSet(ranking) \/ Rank(ranking, x) < Rank(ranking, y))
    IN  index.embedder =>
        /\ ToSet(fused) = ToSet(lexical) \union ToSet(dense) /\ ToSet(fused) \subseteq Selected(index, ask)
        /\ \A x, y \in ToSet(fused) : before(lexical, x, y) /\ before(dense, x, y) => Rank(fused, x) < Rank(fused, y)

(* The index from_config builds can answer in its default mode, and it is  *)
(* never silently another mode than one the configuration names.           *)
ConfiguredModeIsServed(env, loadable, index, ask) ==
    LET built == from_config(env, loadable)
    IN  built.ok =>
        /\ (env.mode # "" => built.mode = env.mode)
        /\ search([index EXCEPT !.embedder = built.embedder, !.default_mode = built.mode], [ask EXCEPT !.mode = ""]) # NoEmbedder
===============================================================================
