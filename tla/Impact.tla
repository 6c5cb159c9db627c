------------------------------- MODULE Impact -------------------------------
(***************************************************************************)
(* drft impact: what a change to some paths reaches, and the diagnostics   *)
(* that say how far the answer can be trusted (run_impact of               *)
(* src/src/main.rs with compute and diagnostics of src/src/impact.rs).     *)
(*                                                                         *)
(* The traversal takes one node of its queue in a step.  The lockfile is   *)
(* read when the traversal is over, whatever another process has made of   *)
(* it by then.  Left out: betweenness, a ranking by floating-point         *)
(* numbers, with the order of the answer, and how it is printed (Report).  *)
(***************************************************************************)
EXTENDS Corpus, FiniteSets

CONSTANTS
  Trees,     \* the trees considered
  Earlier,   \* those a lockfile may have been written of
  KeyOrder,  \* every link target, in the order of the spellings
  SeedLists, \* the operands given
  Bounds,    \* values of --depth
  Policies,  \* severities and ignores, as Drift has them
  NoHash

Target == ToSet(KeyOrder)

ASSUME ImpactAssumption ==
  /\ KeyOrder \in Seq(Target)
  /\ Path \cup Uri \cup Bare \subseteq Target
  /\ Trees \subseteq Tree
  /\ \A c \in Content : \A l \in c.body \cup {v.link : v \in c.values} :
       l.to \in Target \cup {Blank}
  /\ Bounds \subseteq (Nat \ {0}) \cup {None}
  /\ SeedLists \subseteq Seq(Path) \ {<<>>}

VARIABLES
  tree,      \* the files under the root
  request,   \* seeds, direction, bound and policy
  pc,
  graph,     \* the composed graph
  found,     \* the findings of its construction
  hinted,    \* and the hints on declared keys
  visited,   \* nodes reached, seeds included
  queue,     \* of these, the nodes to expand, with their depth
  reached,   \* the answer, in the order of the traversal
  read,      \* the edges the traversal has looked at
  expanded,  \* the nodes it looked at them from
  lock,      \* the lockfile as it was read
  answer     \* what is printed

vars == <<tree, request, pc, graph, found, hinted, visited, queue, reached, read,
          expanded, lock, answer>>

LinksOf ==
  [c \in Content |-> {l.to : l \in c.body} \cup {v.link.to : v \in c.values}]

D == INSTANCE Drift WITH Path <- Target, Version <- Content, Absent <- None

NothingYet == [impacted |-> {}, diagnostics |-> {}, incomplete |-> FALSE]

Init ==
  /\ tree \in Trees
  /\ request \in [seeds : SeedLists, direction : {"inbound", "outbound", "both"},
                  bound : Bounds, policy : Policies]
  /\ pc = "build"
  /\ graph = EmptyGraph /\ found = {} /\ hinted = {}
  /\ visited = {} /\ queue = <<>> /\ reached = <<>>
  /\ read = {} /\ expanded = {}
  /\ lock = None /\ answer = NothingYet

-----------------------------------------------------------------------------
(* The graph and the seeds                                                 *)

Starts(seeds) == [i \in DOMAIN seeds |-> [node |-> seeds[i], depth |-> 0]]
FirstOfEach(seeds) == FoldLeft(LAMBDA s, x : IF Contains(s, x) THEN s ELSE Append(s, x),
                               <<>>, seeds)

\* The first operand that is no node of the graph is the error.
BuildGraph ==
  LET composed == Compose(BuildSet(tree))
      seeds == FirstOfEach(request.seeds)
  IN  /\ pc = "build"
      /\ graph' = composed
      /\ found' = ConstructionFindings(tree)
      /\ hinted' = EdgeKeysHints(tree)
      /\ IF ToSet(seeds) \subseteq DOMAIN composed.nodes
         THEN /\ pc' = "walk"
              /\ visited' = ToSet(seeds)
              /\ queue' = Starts(seeds)
         ELSE /\ pc' = "not_found"
              /\ UNCHANGED <<visited, queue>>
      /\ UNCHANGED <<tree, request, reached, read, expanded, lock, answer>>

-----------------------------------------------------------------------------
(* The traversal                                                           *)

Edges == DOMAIN graph.edges

InKeyOrder(S) ==
  FoldLeft(LAMBDA s, k : IF k \in S THEN Append(s, k) ELSE s, <<>>, KeyOrder)

Dependents(n) == InKeyOrder({k \in Target : <<k, n>> \in Edges})
Dependencies(n) == InKeyOrder({k \in Target : <<n, k>> \in Edges})

\* A dependent holds the link, so its lines are told; a dependency does not.
Inward(n) ==
  IF request.direction = "outbound" THEN <<>>
  ELSE LET s == Dependents(n)
       IN  [i \in DOMAIN s |-> [node |-> s[i], lines |-> Lines(graph.edges[<<s[i], n>>])]]

Outward(n) ==
  IF request.direction = "inbound" THEN <<>>
  ELSE LET s == Dependencies(n) IN [i \in DOMAIN s |-> [node |-> s[i], lines |-> {}]]

Neighbors_OutwardFirst(n) == Outward(n) \o Inward(n)
Neighbors(n) == Inward(n) \o Outward(n)

AtBound(depth) == request.bound # None /\ depth >= request.bound

Enqueued_First(q, x) == <<x>> \o q
Enqueued(q, x) == Append(q, x)

\* The neighbors met for the first time, from `via`.
Meet(via, depth) ==
  FoldLeft(LAMBDA w, x :
             IF x.node \in w.visited THEN w
             ELSE [visited |-> w.visited \cup {x.node},
                   queue |-> Enqueued(w.queue, [node |-> x.node, depth |-> depth + 1]),
                   reached |-> Append(w.reached, [node |-> x.node, via |-> via,
                                                  depth |-> depth + 1, lines |-> x.lines])],
           [visited |-> visited, queue |-> Tail(queue), reached |-> reached],
           Neighbors(via))

Expand ==
  /\ pc = "walk" /\ queue # <<>> /\ ~AtBound(Head(queue).depth)
  /\ LET n == Head(queue).node
         met == Meet(n, Head(queue).depth)
     IN  /\ visited' = met.visited
         /\ queue' = met.queue
         /\ reached' = met.reached
         /\ read' = read \cup {<<x.node, n>> : x \in ToSet(Inward(n))}
                         \cup {<<n, x.node>> : x \in ToSet(Outward(n))}
         /\ expanded' = expanded \cup {n}
  /\ UNCHANGED <<tree, request, pc, graph, found, hinted, lock, answer>>

SkipAtBound ==
  /\ pc = "walk" /\ queue # <<>> /\ AtBound(Head(queue).depth)
  /\ queue' = Tail(queue)
  /\ UNCHANGED <<tree, request, pc, graph, found, hinted, visited, reached, read,
                 expanded, lock, answer>>

-----------------------------------------------------------------------------
(* The answer and its diagnostics                                          *)

Holders(S) == {e[1] : e \in {d \in Edges : d[2] \in S}}

\* reverse_reach_count: those that depend on n, however indirectly.
AllDependents(n) ==
  LET near[k \in 0 .. Len(KeyOrder)] ==
        IF k = 0 THEN {n} ELSE near[k - 1] \cup Holders(near[k - 1])
  IN  near[Len(KeyOrder)] \ {n}

Impacted ==
  {[node |-> r.node, via |-> r.via, depth |-> r.depth, lines |-> r.lines,
    radius |-> Cardinality(AllDependents(r.node))] : r \in ToSet(reached)}

Depths(impacted) ==
  {[node |-> s, depth |-> 0] : s \in ToSet(request.seeds) \cap DOMAIN graph.nodes}
  \cup {[node |-> r.node, depth |-> r.depth] : r \in impacted}

Frontier_WithLimit(impacted) ==
  {x.node : x \in {y \in Depths(impacted) : request.bound = None \/ y.depth <= request.bound}}

Frontier(impacted) ==
  {x.node : x \in {y \in Depths(impacted) : request.bound = None \/ y.depth < request.bound}}

Inspected(frontier, s, t) ==
  \/ request.direction # "outbound" /\ t \in frontier
  \/ request.direction # "inbound" /\ s \in frontier

\* The composed graph as the lockfile and its rules see it.
DriftGraph(g) ==
  [t \in Target |->
     IF t \notin DOMAIN g.nodes THEN None
     ELSE [kind |-> FsType(g, t),
           hash |-> IF FsHash(g, t) = None THEN NoHash ELSE FsHash(g, t),
           links |-> {e[2] : e \in {d \in DOMAIN g.edges : d[1] = t}}]]

\* Usable lockfiles, each written of some tree, and none.
Baselines == {None} \cup {D!Snapshot(DriftGraph(Compose(BuildSet(t)))) : t \in Earlier}

AsFinding(f) == Finding(f.rule, f.subject, f.target, None, {}, {})

(* What was linked at the frontier when the baseline was written, and is   *)
(* gone since.                                                             *)
Removed(base, frontier) ==
  IF base = None THEN {}
  ELSE {AsFinding(f) : f \in
         {h \in D!RemovedEdges(DriftGraph(graph), base) :
            Inspected(frontier, h.subject, h.target)}
         \cup
         {h \in D!RemovedNodes(DriftGraph(graph), base) :
            \E t \in Target : /\ base[h.subject].edges[t] # None
                              /\ Inspected(frontier, h.subject, t)}}

Diagnostics(impacted, base) ==
  LET frontier == Frontier(impacted)
      inspected == {e \in Edges : Inspected(frontier, e[1], e[2])}
  IN  D!ApplyPolicy(found \cup EvaluateEdges(graph, inspected) \cup Removed(base, frontier),
                    request.policy)

Answer ==
  /\ pc = "walk" /\ queue = <<>>
  /\ \E base \in Baselines :
       /\ lock' = base
       /\ answer' = [impacted |-> Impacted,
                     diagnostics |-> Diagnostics(Impacted, base),
                     incomplete |-> D!ApplyPolicy(found, request.policy) # {}]
  /\ pc' = "done"
  /\ UNCHANGED <<tree, request, graph, found, hinted, visited, queue, reached, read,
                 expanded>>

Next == BuildGraph \/ Expand \/ SkipAtBound \/ Answer

Spec == Init /\ [][Next]_vars

-----------------------------------------------------------------------------
(* Properties                                                              *)

(* The links a graph is to find in a file it reads, as their author wrote  *)
(* them, where they are links to somewhere.                                *)
Authored(g, p) ==
  LET c == tree[p].bytes
  IN  IF g.parser = "markdown"
      THEN {l \in c.body : l.to \notin Bare \cup {Blank}}
      ELSE IF c.block = "mapping" THEN {l \in Declared(g, c) : l.to # Blank} ELSE {}

(* What a document answers to, if some graph reads it as one.              *)
DocumentAnchors(t) == IF t \in Texts(tree) THEN tree[t].bytes.anchors ELSE {}
IsDocument(t) == \E g \in Configured : g.parser = "markdown" /\ t \in ReadBy(g, tree)

Dangling(l) == l.to \notin Uri /\ l.to \notin Entries(tree)
(* It names a place which its document has not; a URI is not looked up, and*)
(* a bare '#' names a position in no document.                             *)
Misses(l) ==
  /\ l.to \in Entries(tree) \ (Uri \cup Bare) /\ IsDocument(l.to)
  /\ l.frag \notin {None, Top}
  /\ l.frag \notin DocumentAnchors(l.to) /\ Decoded[l.frag] \notin DocumentAnchors(l.to)

Says(rule, p, l, frag) ==
  \E f \in Structural(graph) :
    /\ f.rule = rule /\ f.subject = p /\ f.target = l.to /\ f.frag = frag
    /\ l.line \in f.lines

(* The links of the whole tree, by their ends.                             *)
Ends ==
  {<<p, tree[p].to>> : p \in {q \in Entries(tree) : tree[q].to # None}}
  \cup UNION {UNION {{<<p, l.to>> : l \in Authored(g, p)} : p \in ReadBy(g, tree)} :
             g \in Configured}

DetachedIsAlone ==
  {f.subject : f \in {h \in Structural(graph) : h.rule = "detached-node"}} =
    {p \in Entries(tree) : tree[p].kind # "directory" /\ \A e \in Ends : p \notin {e[1], e[2]}}

(* A graph whose declared keys gave no edge says so, and sends its author  *)
(* to the spelling of the keys only if every file was read.                *)
NoGraphIsSilent ==
  \A g \in Configured : g.parser = "frontmatter" /\ g.keys # {} =>
    LET files == {p \in g.files \cap Entries(tree) : tree[p].kind = "file"}
        unread == {p \in files : p \notin Texts(tree) \/ tree[p].bytes.block = "unreadable"}
    IN  IF \E p \in ReadBy(g, tree) : Authored(g, p) # {}
        THEN \A h \in hinted : h.graph # g.name
        ELSE \E h \in hinted :
               /\ h.graph = g.name
               /\ h.why = "nothing_found" => unread = {} /\ files # {}
               /\ h.why = "all_unreadable" => unread = files
               /\ h.why = "no_file" => files = {}

(* Every link that an author wrote in a file some graph reads is an edge,  *)
(* and is reported with its line exactly if it leads nowhere or to a place *)
(* its document has not; a text that is not UTF-8, or a block, is reported *)
(* with each graph that missed it, a graph without any edge hints why, and *)
(* what is said to be detached is.  However many links share a target, and *)
(* graphs a file.                                                          *)
EveryLinkIsAccountedFor ==
  pc # "build" =>
    /\ \A g \in Configured : \A p \in ReadBy(g, tree) : \A l \in Authored(g, p) :
         /\ <<p, l.to>> \in Edges
         /\ Dangling(l) <=> Says("unresolved-edge", p, l, None)
         /\ l.frag # None => (Misses(l) <=> Says("unresolved-fragment", p, l, l.frag))
    /\ \A g \in Configured : \A p \in g.files \cap InvalidText(tree) :
         \E f \in found : f.rule = "unreadable-text" /\ f.subject = p /\ g.name \in f.graphs
    /\ \A g \in Configured : \A p \in UnreadableBlocks(g, tree) :
         \E f \in found : f.rule = "unreadable-frontmatter" /\ f.subject = p /\ f.graphs = {g.name}
    /\ DetachedIsAlone
    /\ NoGraphIsSilent

(* Composition loses nothing any graph said: from the composed graph, each *)
(* namespace gives back its fragment, whatever else was merged into the    *)
(* same paths and the same edges.                                          *)
NamespacesKeepTheirGraph ==
  pc # "build" =>
    \A i \in DOMAIN BuildSet(tree) :
      LET fragment == BuildSet(tree)[i]
          said == {e \in DOMAIN fragment.edges : fragment.edges[e] # {}}
      IN  /\ View(graph.nodes, fragment.label) = fragment.nodes
          /\ View(graph.edges, fragment.label) = [e \in said |-> fragment.edges[e]]
          /\ {e \in Edges : fragment.label \in graph.edges[e].graphs} = DOMAIN fragment.edges

(* Those within k hops of the seeds.                                       *)
Near(k) ==
  LET step(S) == S \cup (IF request.direction # "outbound" THEN Holders(S) ELSE {})
                   \cup (IF request.direction # "inbound"
                         THEN {e[2] : e \in {d \in Edges : d[1] \in S}} ELSE {})
      near[j \in 0 .. k] == IF j = 0 THEN ToSet(request.seeds) ELSE step(near[j - 1])
  IN  near[k]

Reach == IF request.bound = None THEN Len(KeyOrder) ELSE request.bound

(* The answer is every node within the bound and no other, once each, at   *)
(* its distance from the nearest seed and through a neighbor one hop       *)
(* closer: cycles, seeds that reach each other and repeated seeds change   *)
(* nothing.  And a node's radius is what an unbounded impact of it answers.*)
ReachedAtShortestDistance ==
  pc = "done" =>
    /\ {r.node : r \in answer.impacted} = Near(Reach) \ ToSet(request.seeds)
    /\ \A r, q \in answer.impacted : r.node = q.node => r = q
    /\ \A r \in answer.impacted :
         /\ r.node \in Near(r.depth) \ Near(r.depth - 1)
         /\ r.via \in Near(r.depth - 1)
         /\ \/ request.direction # "outbound" /\ <<r.node, r.via>> \in Edges
            \/ request.direction # "inbound" /\ <<r.via, r.node>> \in Edges
    /\ request.direction = "inbound" /\ request.bound = None /\ Len(request.seeds) = 1 =>
         Cardinality(answer.impacted) = Cardinality(AllDependents(request.seeds[1]))

(* A reviewer sent to a node that links to what may change is sent to every*)
(* line where it does, whichever graphs found the link and in whichever    *)
(* direction the node was also reached.                                    *)
ReviewPointsAtTheLink ==
  pc = "done" /\ request.direction # "outbound" =>
    \A r \in answer.impacted :
      r.lines = UNION {{l.line : l \in {k \in Authored(g, r.node) : k.to = r.via}} :
                         g \in {h \in Configured : r.node \in ReadBy(h, tree)}}

(* The diagnostics are those of the construction, of the edges the         *)
(* traversal looked at, and of the edges it would have looked at had they  *)
(* not been removed since the baseline; up to the policy, and no others.   *)
DiagnosticsMatchTheTraversal ==
  pc = "done" =>
    answer.diagnostics =
      D!ApplyPolicy(found \cup EvaluateEdges(graph, read) \cup Removed(lock, expanded),
                    request.policy)

=============================================================================
