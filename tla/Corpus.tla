------------------------------- MODULE Corpus -------------------------------
(***************************************************************************)
(* From a tree of files to the composed graph and the findings that come   *)
(* from its shape: the walk's entries, what the parsers take from a file's *)
(* text, the builders' fragments (src/src/builders, src/src/graphs/mod.rs),*)
(* their composition (src/src/compose.rs) and the structural rules         *)
(* (src/src/rules/structural.rs).                                          *)
(*                                                                         *)
(* A content is what its parsers find in it, and is its own hash.  A graph *)
(* is its label, its nodes and its edges, each a function to metadata; the *)
(* metadata of an edge is the set of the occurrences of its link.  Left    *)
(* out: how a path is spelled and resolved, the causes a finding suggests, *)
(* globs (a graph's files are given as a set) and wording.                 *)
(***************************************************************************)
EXTENDS Integers, Sequences, SequencesExt

CONSTANTS
  Path,        \* where files may be
  Uri,         \* link targets outside the tree
  Bare,        \* values that open with '#': a position in no document
  Content,     \* contents of files
  Decoded,     \* the anchor a fragment names once percent-decoded
  TextGraphs,  \* the configured graphs, in the order of their names
  None

Top == "#"     \* the fragment that every document answers to
Blank == ""    \* a value of whitespace

ASSUME CorpusAssumption ==
  /\ TextGraphs \in Seq(ToSet(TextGraphs))
  /\ \A i, j \in DOMAIN TextGraphs :
       TextGraphs[i].name = TextGraphs[j].name => i = j
  /\ \A i \in DOMAIN TextGraphs :
       TextGraphs[i].name # "fs" /\ TextGraphs[i].parser \in {"markdown", "frontmatter"}

Configured == {TextGraphs[i] : i \in DOMAIN TextGraphs}

(* What the walk yields of a path.  Only files have bytes, unless the read *)
(* failed; a symlink has at most one target inside the root.               *)
File(c) == [kind |-> "file", bytes |-> c, to |-> None]
Directory == [kind |-> "directory", bytes |-> None, to |-> None]
Symlink(t) == [kind |-> "symlink", bytes |-> None, to |-> t]

Entry ==
  {File(c) : c \in Content \cup {None}} \cup {Directory}
  \cup {Symlink(p) : p \in Path \cup {None}}
Tree == [Path -> Entry \cup {None}]

ASSUME NoneAssumption ==
  /\ None \notin Content /\ None \notin Path /\ None \notin Entry
  /\ \A c \in Content : c.anchors # None

Entries(tree) == {p \in DOMAIN tree : tree[p] # None}
HasBytes(tree, p) == tree[p].bytes # None

(* The files the text builders are handed, decoded, and those they are not.*)
Texts(tree) == {p \in Entries(tree) : HasBytes(tree, p) /\ tree[p].bytes.utf8}
InvalidText(tree) == {p \in Entries(tree) : HasBytes(tree, p) /\ ~tree[p].bytes.utf8}

ReadBy(g, tree) == Texts(tree) \cap g.files

-----------------------------------------------------------------------------
(* Links and edges                                                         *)

(* Only a declared value can cite what names no document.                  *)
NamesTarget(link, policy) ==
  /\ link.to # Blank
  /\ link.to \in Bare => policy = "declared"

Occurrence(link) ==
  [line |-> link.line, frag |-> IF link.to \in Bare THEN None ELSE link.frag]

LinkEdges_FirstOfTarget(source, links, policy) ==
  LET named == {l \in links : NamesTarget(l, policy)}
  IN  [e \in {<<source, l.to>> : l \in named} |->
         {Occurrence(CHOOSE l \in named : l.to = e[2])}]

(* One edge for each target; each link to it adds an occurrence.           *)
LinkEdges(source, links, policy) ==
  LET named == {l \in links : NamesTarget(l, policy)}
  IN  [e \in {<<source, l.to>> : l \in named} |->
         {Occurrence(l) : l \in {k \in named : k.to = e[2]}}]

EdgesOf(files, links, policy) ==
  [e \in UNION {DOMAIN LinkEdges(p, links[p], policy) : p \in files} |->
     LinkEdges(e[1], links[e[1]], policy)[e]]

-----------------------------------------------------------------------------
(* Builders                                                                *)

Metadata(type, hash, anchors) == [type |-> type, hash |-> hash, anchors |-> anchors]

FsGraph(tree) ==
  [label |-> "fs",
   nodes |-> [p \in Entries(tree) |->
                Metadata(tree[p].kind, tree[p].bytes, None)],
   edges |-> [e \in {<<p, tree[p].to>> :
                       p \in {q \in Entries(tree) : tree[q].to # None}} |-> {}]]

(* A file that was read has its anchors listed, be there none.             *)
MarkdownGraph(g, tree) ==
  LET read == ReadBy(g, tree)
  IN  [label |-> g.name,
       nodes |-> [p \in read |-> Metadata(None, None, tree[p].bytes.anchors)],
       edges |-> EdgesOf(read, [p \in read |-> tree[p].bytes.body], "body")]

HasMapping(tree, p) == tree[p].bytes.block = "mapping"

(* The strings reached through a declared key, at whatever depth.          *)
Declared(g, content) ==
  {v.link : v \in {w \in content.values : w.under \cap g.keys # {}}}

(* The author's block is the node's metadata, whatever its keys.           *)
FrontmatterGraph(g, tree) ==
  LET read == {p \in ReadBy(g, tree) : HasMapping(tree, p)}
  IN  [label |-> g.name,
       nodes |-> [p \in read |-> Metadata(None, None, tree[p].bytes.claims)],
       edges |-> EdgesOf(read, [p \in read |-> Declared(g, tree[p].bytes)],
                         "declared")]

Build(g, tree) ==
  IF g.parser = "markdown" THEN MarkdownGraph(g, tree) ELSE FrontmatterGraph(g, tree)

BuildSet(tree) ==
  <<FsGraph(tree)>> \o [i \in DOMAIN TextGraphs |-> Build(TextGraphs[i], tree)]

-----------------------------------------------------------------------------
(* Findings and hints of the construction                                  *)

Finding(rule, subject, target, frag, lines, graphs) ==
  [rule |-> rule, subject |-> subject, target |-> target, frag |-> frag,
   lines |-> lines, graphs |-> graphs]

UnreadableBlocks(g, tree) ==
  {p \in ReadBy(g, tree) : g.parser = "frontmatter" /\ tree[p].bytes.block = "unreadable"}

UnreadableFrontmatter(tree) ==
  {Finding("unreadable-frontmatter", x[2], None, None, {1}, {x[1].name}) :
     x \in {y \in Configured \X Entries(tree) : y[2] \in UnreadableBlocks(y[1], tree)}}

\* One finding for each file, naming every graph that missed it.
UnreadableText(tree) ==
  {Finding("unreadable-text", p, None, None, {},
           {g.name : g \in {h \in Configured : p \in h.files}}) :
     p \in {q \in InvalidText(tree) : \E g \in Configured : q \in g.files}}

ConstructionFindings(tree) == UnreadableFrontmatter(tree) \cup UnreadableText(tree)

(* Why the declared keys of a graph gave no edge, if they gave none.       *)
Candidates(g, tree) == {p \in Entries(tree) \cap g.files : tree[p].kind = "file"}
Unread(g, tree) ==
  {p \in Candidates(g, tree) :
     ~HasBytes(tree, p) \/ p \in InvalidText(tree) \/ p \in UnreadableBlocks(g, tree)}

EdgeKeysHint(g, tree) ==
  LET n == Candidates(g, tree)  f == Unread(g, tree)
  IN  CASE f # {} /\ f = n -> "all_unreadable"
        [] f # {} /\ f # n -> "some_unreadable"
        [] f = {} /\ n # {} -> "nothing_found"
        [] OTHER -> "no_file"

EdgeKeysHints(tree) ==
  {[graph |-> g.name, why |-> EdgeKeysHint(g, tree)] :
     g \in {h \in Configured : /\ h.parser = "frontmatter" /\ h.keys # {}
                               /\ DOMAIN FrontmatterGraph(h, tree).edges = {}}}

-----------------------------------------------------------------------------
(* Composition: by path, by pair of ends; each graph under its namespace.  *)

NoMetadata == [of |-> <<>>, graphs |-> {}]

Nested_KeepsFirst(entry, label, metadata) ==
  IF entry.graphs = {} THEN [of |-> [n \in {label} |-> metadata], graphs |-> {label}]
  ELSE entry

Nested(entry, label, metadata) ==
  [of |-> [n \in DOMAIN entry.of \cup {label} |->
             IF n = label THEN metadata ELSE entry.of[n]],
   graphs |-> entry.graphs \cup {label}]

\* An edge without occurrences tells only that its graph has it.
Attributed(entry, label, occurrences) ==
  IF occurrences = {} THEN [entry EXCEPT !.graphs = @ \cup {label}]
  ELSE Nested(entry, label, occurrences)

Merged(Into(_, _, _), entries, label, more) ==
  [k \in DOMAIN entries \cup DOMAIN more |->
     IF k \notin DOMAIN more THEN entries[k]
     ELSE Into(IF k \in DOMAIN entries THEN entries[k] ELSE NoMetadata, label, more[k])]

Merge(composed, fragment) ==
  [nodes |-> Merged(Nested, composed.nodes, fragment.label, fragment.nodes),
   edges |-> Merged(Attributed, composed.edges, fragment.label, fragment.edges)]

EmptyGraph == [nodes |-> <<>>, edges |-> <<>>]
Compose(set) == FoldLeft(Merge, EmptyGraph, set)

(* What nodes and edges print of one namespace.                            *)
View(entries, label) ==
  LET carrying == {k \in DOMAIN entries : label \in DOMAIN entries[k].of}
  IN  [k \in carrying |-> entries[k].of[label]]

-----------------------------------------------------------------------------
(* Structural rules                                                        *)

IsUri(t) == t \in Uri

\* Resolution is namespace presence.
IsResolved(graph, t) == t \in DOMAIN graph.nodes /\ "fs" \in DOMAIN graph.nodes[t].of

FsType(graph, p) == graph.nodes[p].of["fs"].type
FsHash(graph, p) == graph.nodes[p].of["fs"].hash

Occurrences(edge) == UNION {edge.of[n] : n \in DOMAIN edge.of}
Lines(edge) == {o.line : o \in Occurrences(edge)}

AnchorNamespaces == {g.name : g \in {h \in Configured : h.parser = "markdown"}}

PublishedBy_Anyone(graph, t) ==
  {n \in DOMAIN graph.nodes[t].of : graph.nodes[t].of[n].anchors # None}

(* The namespaces that may say what a document answers to: those of a      *)
(* parser that finds anchors, never the author's own metadata.             *)
PublishedBy(graph, t) ==
  {n \in DOMAIN graph.nodes[t].of \cap AnchorNamespaces :
     graph.nodes[t].of[n].anchors # None}

Anchors(graph, t) == UNION {graph.nodes[t].of[n].anchors : n \in PublishedBy(graph, t)}

Answers(anchors, frag) == frag \in {None, Top} \/ {frag, Decoded[frag]} \cap anchors # {}

MissingFragments(graph, e) ==
  IF PublishedBy(graph, e[2]) = {} THEN {}
  ELSE {o.frag : o \in {q \in Occurrences(graph.edges[e]) :
                          ~Answers(Anchors(graph, e[2]), q.frag)}}

UnresolvedEdges(graph, E) ==
  {Finding("unresolved-edge", e[1], e[2], None, Lines(graph.edges[e]), graph.edges[e].graphs) :
     e \in {d \in E : ~IsUri(d[2]) /\ ~IsResolved(graph, d[2])}}

UnresolvedFragments(graph, E) ==
  UNION {{Finding("unresolved-fragment", e[1], e[2], f,
                  {o.line : o \in {q \in Occurrences(graph.edges[e]) : q.frag = f}},
                  graph.edges[e].graphs) : f \in MissingFragments(graph, e)} :
         e \in {d \in E : ~IsUri(d[2]) /\ IsResolved(graph, d[2])}}

EvaluateEdges(graph, E) == UnresolvedEdges(graph, E) \cup UnresolvedFragments(graph, E)

Connected(graph) == UNION {{e[1], e[2]} : e \in DOMAIN graph.edges}

DetachedNodes(graph) ==
  {Finding("detached-node", p, None, None, {}, graph.nodes[p].graphs) :
     p \in {q \in DOMAIN graph.nodes \ Connected(graph) : FsType(graph, q) # "directory"}}

Structural(graph) == EvaluateEdges(graph, DOMAIN graph.edges) \cup DetachedNodes(graph)

=============================================================================
