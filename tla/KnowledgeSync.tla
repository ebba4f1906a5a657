----------------------------- MODULE KnowledgeSync -----------------------------
(***************************************************************************)
(* The knowledge graph: sources that change and cannot always be read, the *)
(* batch that copies them into the store in four writes, and the job that  *)
(* embeds nodes.  A process may die between two writes.                    *)
(***************************************************************************)
EXTENDS Naturals, FiniteSets

CONSTANTS
    Outages,       \* what Unity Catalog may refuse: "none", "lineage", "columns", "tables", "schemas"
    MaxEdits       \* changes of the sources

KnowledgeAssumption == "none" \in Outages /\ MaxEdits \in Nat

(* Two tables of one domain, a column of the first; the column edge, a     *)
(* join the pipelines know, a derivation the catalog knows.                *)
Nodes == {"a", "b", "a.c"}
Edges == {"column", "join", "lineage"}
Ends == [e \in Edges |-> IF e = "column" THEN {"a", "a.c"} ELSE {"a", "b"}]

VARIABLES
    world,      \* registry (present, its nodes, the version of their texts, its join), catalog (nodes, lineage, outage)
    nodes,      \* knowledge_nodes: content and the content that was embedded
    edges,      \* knowledge_edges
    sync,       \* the batch: phase, the world it read, the graph, what it will remove
    embed,      \* the embedding job: what it read
    overlapped, \* nodes rewritten while their vector was computed
    synced,     \* a batch ran to its end and the sources have not changed since
    worldChanges

knowledgeVars == <<world, nodes, edges, sync, embed, overlapped, synced, worldChanges>>

NoRow == [live |-> FALSE, known |-> FALSE, source |-> "", text |-> 0, vector |-> 0]
NoEdge == [live |-> FALSE, known |-> FALSE, source |-> ""]
IdleSync == [phase |-> "idle", graph |-> [n \in {} |-> NoRow], links |-> [e \in {} |-> NoEdge], gone |-> {}, goneEdges |-> {}, of |-> {}]
IdleEmbed == [on |-> FALSE, read |-> [n \in {} |-> 0]]

(* Text 0 is empty; the catalog knows no text for these nodes. *)
World == [registry : BOOLEAN, owned : SUBSET Nodes, text : 1..2, join : BOOLEAN, listed : SUBSET Nodes, lineage : BOOLEAN, outage : Outages]
Possible(w) == ("a.c" \in w.owned => "a" \in w.owned) /\ ("a.c" \in w.listed => "a" \in w.listed) /\ (w.join => {"a", "b"} \subseteq w.owned)

KnowledgeInit ==
    /\ world = [registry |-> TRUE, owned |-> {"a"}, text |-> 1, join |-> FALSE, listed |-> Nodes, lineage |-> TRUE, outage |-> "none"]
    /\ nodes = [n \in Nodes |-> NoRow] /\ edges = [e \in Edges |-> NoEdge]
    /\ sync = IdleSync /\ embed = IdleEmbed /\ overlapped = {} /\ synced = FALSE /\ worldChanges = 0

Change ==
    /\ worldChanges < MaxEdits /\ worldChanges' = worldChanges + 1
    /\ \/ \E b \in BOOLEAN : world' = [world EXCEPT !.registry = b]
       \/ \E s \in SUBSET Nodes : world' = [world EXCEPT !.owned = s]
       \/ \E v \in 1..2 : world' = [world EXCEPT !.text = v]
       \/ \E b \in BOOLEAN : world' = [world EXCEPT !.join = b]
       \/ \E s \in SUBSET Nodes : world' = [world EXCEPT !.listed = s]
       \/ \E b \in BOOLEAN : world' = [world EXCEPT !.lineage = b]
       \/ \E o \in Outages : world' = [world EXCEPT !.outage = o]
    /\ world' # world /\ Possible(world')
    /\ synced' = FALSE
    /\ UNCHANGED <<nodes, edges, sync, embed, overlapped>>

(* What the catalog answers: nothing, the tables, or all of it.  An empty  *)
(* listing cannot be told from a refusal.                                  *)
Answered(w) == IF w.outage \in {"schemas", "tables"} THEN {}
               ELSE IF w.outage = "columns" THEN w.listed \ {"a.c"} ELSE w.listed
protected_domains == world.outage \in {"tables", "columns"} \/ (world.outage # "schemas" /\ world.listed = {})
lineage_read(w) == w.outage # "lineage"

(* Pipelines first: a lower source adds only what is not there yet. *)
Owned(w) == IF w.registry THEN w.owned ELSE {}
Node(source, text) == [NoRow EXCEPT !.live = TRUE, !.known = TRUE, !.source = source, !.text = text]
Provided(w) == [n \in Owned(w) \union Answered(w) |-> IF n \in Owned(w) THEN Node("pipeline", w.text) ELSE Node("unity_catalog", 0)]
Link(source) == [live |-> TRUE, known |-> TRUE, source |-> source]
Linked(w) ==
    (IF "a.c" \in DOMAIN Provided(w) THEN {"column"} ELSE {}) \union (IF w.registry /\ w.join THEN {"join"} ELSE {})
    \union (IF w.lineage /\ lineage_read(w) /\ w.outage # "schemas" /\ {"a", "b"} \subseteq DOMAIN Provided(w) THEN {"lineage"} ELSE {})
Links(w) == [e \in Linked(w) |-> Link(IF e = "join" \/ (e = "column" /\ "a.c" \in Owned(w)) THEN "pipeline" ELSE "unity_catalog")]

Consulted == (IF world.registry THEN {"pipeline"} ELSE {}) \union {"unity_catalog"}
(* A refused domain protects nothing. *)
Protected_none == {}
Protected == {n \in Nodes : protected_domains /\ nodes[n].live /\ nodes[n].source = "unity_catalog"}

(* The sources and the store are read, then the removals are decided. *)
Collect ==
    /\ sync.phase = "idle"
    /\ sync' = [phase |-> "nodes", graph |-> Provided(world), links |-> Links(world),
                gone |-> {n \in Nodes : nodes[n].live /\ n \notin DOMAIN Provided(world) /\ nodes[n].source \in Consulted /\ n \notin Protected},
                goneEdges |-> {e \in Edges : /\ edges[e].live /\ e \notin DOMAIN Links(world) /\ edges[e].source \in Consulted
                                             /\ Ends[e] \intersect Protected = {}
                                             /\ ~(e = "lineage" /\ edges[e].source = "unity_catalog" /\ ~lineage_read(world))},
                of |-> {world}]
    /\ synced' = FALSE
    /\ UNCHANGED <<world, nodes, edges, embed, overlapped, worldChanges>>

(* Rows whose fingerprint changed, or that come back, are replaced; their  *)
(* embedding is dropped.                                                   *)
Same(row, new) == row.live /\ row.source = new.source /\ row.text = new.text
Rewritten == {n \in DOMAIN sync.graph : ~Same(nodes[n], sync.graph[n])}
upsert_nodes ==
    /\ sync.phase = "nodes" /\ sync' = [sync EXCEPT !.phase = "edges"]
    /\ nodes' = [n \in Nodes |-> IF n \in Rewritten THEN sync.graph[n] ELSE nodes[n]]
    /\ overlapped' = (overlapped \ Rewritten) \union (Rewritten \intersect DOMAIN embed.read)
    /\ UNCHANGED <<world, edges, embed, synced, worldChanges>>
upsert_edges ==
    /\ sync.phase = "edges" /\ sync' = [sync EXCEPT !.phase = "mark"]
    /\ edges' = [e \in Edges |-> IF e \in DOMAIN sync.links THEN sync.links[e] ELSE edges[e]]
    /\ UNCHANGED <<world, nodes, embed, overlapped, synced, worldChanges>>
mark_removed ==
    /\ sync.phase = "mark" /\ sync' = [sync EXCEPT !.phase = "mark edges"]
    /\ nodes' = [n \in Nodes |-> IF n \in sync.gone THEN [nodes[n] EXCEPT !.live = FALSE] ELSE nodes[n]]
    /\ UNCHANGED <<world, edges, embed, overlapped, synced, worldChanges>>
mark_edges_removed ==
    /\ sync.phase = "mark edges" /\ sync' = IdleSync
    /\ edges' = [e \in Edges |-> IF e \in sync.goneEdges THEN [edges[e] EXCEPT !.live = FALSE] ELSE edges[e]]
    /\ synced' = (sync.of = {world})
    /\ UNCHANGED <<world, nodes, embed, overlapped, worldChanges>>
SyncCrash ==
    /\ sync.phase # "idle" /\ sync' = IdleSync
    /\ UNCHANGED <<world, nodes, edges, embed, overlapped, synced, worldChanges>>

(* The nodes to embed are read, their vectors computed, then written to    *)
(* the rows as they are by then.                                           *)
nodes_to_embed ==
    /\ ~embed.on
    /\ LET pending == {n \in Nodes : nodes[n].live /\ nodes[n].vector = 0}
       IN  pending # {} /\ embed' = [on |-> TRUE, read |-> [n \in pending |-> nodes[n].text + 1]]
    /\ UNCHANGED <<world, nodes, edges, sync, overlapped, synced, worldChanges>>
set_embeddings ==
    /\ embed.on /\ embed' = IdleEmbed
    /\ nodes' = [n \in Nodes |-> IF n \in DOMAIN embed.read THEN [nodes[n] EXCEPT !.vector = embed.read[n]] ELSE nodes[n]]
    /\ UNCHANGED <<world, edges, sync, overlapped, synced, worldChanges>>

KnowledgeNext == Change \/ Collect \/ upsert_nodes \/ upsert_edges \/ mark_removed \/ mark_edges_removed \/ SyncCrash \/ nodes_to_embed \/ set_embeddings
KnowledgeSpec == KnowledgeInit /\ [][KnowledgeNext]_knowledgeVars

-------------------------------------------------------------------------------
(* The stored rows, the batch and the embedding job have their shapes. *)
KnowledgeTypeOK ==
    /\ nodes \in [Nodes -> [live : BOOLEAN, known : BOOLEAN, source : {"", "pipeline", "unity_catalog"}, text : 0..2, vector : 0..3]]
    /\ edges \in [Edges -> [live : BOOLEAN, known : BOOLEAN, source : {"", "pipeline", "unity_catalog"}]]
    /\ sync.phase \in {"idle", "nodes", "edges", "mark", "mark edges"} /\ sync.gone \subseteq Nodes /\ sync.goneEdges \subseteq Edges
    /\ embed.on \in BOOLEAN /\ overlapped \subseteq Nodes /\ world \in World

(* "A source that could not be read removes nothing": a node that came     *)
(* from Unity Catalog is only withdrawn by a batch that could list it.     *)
UnreadSourceRemovesNothing == \A n \in sync.gone : nodes[n].source = "unity_catalog" =>
    \A w \in sync.of : w.outage \notin {"schemas", "tables", "columns"}

(* After a batch that read every source ran to its end, whatever crashes   *)
(* and partial batches came before it, the live nodes and edges are those  *)
(* the sources provide, each from its first source in the priority order.  *)
(* A catalog without a table is excepted: it looks like a refusal.         *)
SyncedStoreMirrorsSources ==
    synced /\ world.registry /\ world.outage = "none" /\ world.listed # {} /\ sync.phase = "idle" =>
        /\ {n \in Nodes : nodes[n].live} = DOMAIN Provided(world)
        /\ \A n \in DOMAIN Provided(world) : Same(nodes[n], Provided(world)[n])
        /\ {e \in Edges : edges[e].live} = DOMAIN Links(world)
        /\ \A e \in DOMAIN Links(world) : edges[e].source = Links(world)[e].source

(* A stored vector is that of the text stored with it, as embed_nodes      *)
(* assumes, unless a batch rewrote nodes while the vectors were computed.  *)
VectorDescribesNode == \A n \in Nodes : nodes[n].vector \in {0, nodes[n].text + 1} \/ n \in overlapped

(* The index mirrors its sources, and withdraws and describes nothing else. *)
IndexMirrorsSources ==
    KnowledgeTypeOK /\ SyncedStoreMirrorsSources /\ UnreadSourceRemovesNothing /\ VectorDescribesNode
===============================================================================
