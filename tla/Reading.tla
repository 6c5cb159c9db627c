------------------------------ MODULE Reading ------------------------------
(***************************************************************************)
(* drft nodes and drft edges next to drft impact: operands to node keys,   *)
(* selectors one after the other, and the projection of the composed graph *)
(* (run_nodes, run_edges and the resolvers of src/src/main.rs, with        *)
(* src/src/nodes.rs, src/src/edges.rs and src/src/projection.rs).          *)
(*                                                                         *)
(* A key is the sequence of its names.  A pattern is one name after the    *)
(* other, with or without a "/**" behind.  Left out: absolute operands,    *)
(* patterns that do not compile, corrections suggested for a miss, and how *)
(* a projection is printed (Report).                                       *)
(***************************************************************************)
EXTENDS Impact

CONSTANTS
  Parts,    \* the names a path consists of
  Matching, \* the names that one name matches as part of a pattern
  Commands  \* what is asked

Name == DOMAIN Matching
Selector ==
  [glob : BOOLEAN, parts : Seq(Name \cup {".."}), slash : BOOLEAN, deep : BOOLEAN]

ASSUME ReadingAssumption ==
  /\ \A c \in Commands : /\ c.verb \in {"impact", "nodes", "edges"}
                         /\ c.cwd \in Seq(Name) /\ c.selectors \in Seq(Selector)
  /\ \A p \in Path : Parts[p] \in Seq(Name)
  /\ \A p, q \in Path : Parts[p] = Parts[q] => p = q
  \* The characters of a pattern make a pattern of an operand.
  /\ \A c \in Commands : \A s \in ToSet(c.selectors) :
       s.glob \/ \A x \in ToSet(s.parts) : x = ".." \/ Matching[x] = {x}

VARIABLES
  command,  \* the command, its directory, selectors and filters
  todo,     \* selectors to resolve
  picked,   \* nodes they resolved to
  said,     \* selectors hinted to match nothing
  printed   \* the projection

readingVars == <<command, todo, picked, said, printed>>
allVars == <<vars, readingVars>>

Unasked == [seeds |-> CHOOSE s \in SeedLists : TRUE, direction |-> "inbound",
            bound |-> None, policy |-> CHOOSE p \in Policies : TRUE]

ReadingInit ==
  /\ Init
  /\ command \in Commands
  /\ command.verb # "impact" => request = Unasked
  /\ todo = <<>> /\ picked = {} /\ said = <<>> /\ printed = <<>>

-----------------------------------------------------------------------------
(* Operands and selectors                                                  *)

Nodes == DOMAIN graph.nodes

\* Lexical: from the directory of the reader, and never out of the root.
GraphKey(cwd, parts) ==
  LET key == FoldLeft(LAMBDA k, x : IF k = None THEN None
                                    ELSE IF x # ".." THEN Append(k, x)
                                    ELSE IF k = <<>> THEN None ELSE Front(k),
                      cwd, parts)
  IN  IF key = <<>> THEN None ELSE key

MatchedBy(pattern, deep) ==
  {k \in Nodes : /\ IF deep THEN Len(Parts[k]) > Len(pattern) ELSE Len(Parts[k]) = Len(pattern)
                 /\ \A i \in DOMAIN pattern : Parts[k][i] \in Matching[pattern[i]]}

NamesDirectory(key) ==
  \E k \in Nodes : Parts[k] = key /\ FsType(graph, k) = "directory"

Resolved_DirectoryToo(s) ==
  IF s.glob THEN MatchedBy(s.parts, s.deep)
  ELSE LET key == GraphKey(command.cwd, s.parts)
       IN  IF key = None THEN {}
           ELSE {k \in Nodes : Parts[k] = key} \cup MatchedBy(key, TRUE)

(* A directory stands for what is below it: its key becomes a pattern.     *)
Resolved(s) ==
  IF s.glob THEN MatchedBy(s.parts, s.deep)
  ELSE LET key == GraphKey(command.cwd, s.parts)
       IN  IF key = None THEN {}
           ELSE {k \in Nodes : Parts[k] = key /\ ~NamesDirectory(key) /\ ~s.slash}
                \cup MatchedBy(key, TRUE)

NotFound(s) ==
  ~s.glob /\ Resolved(s) = {} /\ ~NamesDirectory(GraphKey(command.cwd, s.parts))

Declarable == {"fs"} \cup {g.name : g \in Configured}

BuildToSelect ==
  /\ pc = "build" /\ command.verb # "impact"
  /\ graph' = Compose(BuildSet(tree))
  /\ found' = ConstructionFindings(tree)
  /\ hinted' = EdgeKeysHints(tree)
  /\ pc' = IF command.namespaces \subseteq Declarable THEN "select" ELSE "failed"
  /\ todo' = FirstOfEach(command.selectors)
  /\ UNCHANGED <<tree, request, visited, queue, reached, read, expanded, lock, answer,
                 command, picked, said, printed>>

Resolve ==
  /\ pc = "select" /\ todo # <<>> /\ ~NotFound(Head(todo))
  /\ LET keys == Resolved(Head(todo))
     IN  /\ picked' = picked \cup keys
         /\ said' = IF keys = {} THEN Append(said, Head(todo)) ELSE said
  /\ todo' = Tail(todo)
  /\ UNCHANGED <<vars, command, printed>>

Miss ==
  /\ pc = "select" /\ todo # <<>> /\ NotFound(Head(todo))
  /\ pc' = "failed"
  /\ UNCHANGED <<tree, request, graph, found, hinted, visited, queue, reached, read,
                 expanded, lock, answer, readingVars>>

-----------------------------------------------------------------------------
(* The projection                                                          *)

Kept(m, fields) == [f \in DOMAIN m |-> IF f \in fields THEN m[f] ELSE None]
Carries(m, fields) == \E f \in fields \cap DOMAIN m : m[f] # None

(* A field names what it is in every occurrence; those without it go.      *)
EdgeBlock_EveryOccurrence(occurrences, fields) ==
  IF "occurrences" \in fields THEN occurrences ELSE {Kept(o, fields) : o \in occurrences}

EdgeBlock(occurrences, fields) ==
  IF "occurrences" \in fields THEN occurrences
  ELSE {Kept(o, fields) : o \in {q \in occurrences : Carries(q, fields)}}

Block(m) ==
  IF command.fields = {} THEN m
  ELSE IF command.verb = "nodes" THEN Kept(m, command.fields) ELSE EdgeBlock(m, command.fields)

NothingKept(m) ==
  /\ command.fields # {}
  /\ IF command.verb = "nodes" THEN ~Carries(m, command.fields)
     ELSE EdgeBlock(m, command.fields) = {}

FilterMetadata(entry) ==
  LET shown == {n \in DOMAIN entry.of : /\ command.namespaces = {} \/ n \in command.namespaces
                                        /\ ~NothingKept(entry.of[n])}
  IN  [n \in shown |-> Block(entry.of[n])]

FilteredOut(metadata) ==
  DOMAIN metadata = {} /\ (command.namespaces # {} \/ command.fields # {})

Projection(entries, keys) ==
  LET all == [k \in keys |-> FilterMetadata(entries[k])]
  IN  Restrict(all, {k \in keys : ~FilteredOut(all[k])})

ProjectNodes ==
  Projection(graph.nodes, IF command.selectors = <<>> THEN Nodes ELSE picked)

\* Selectors pick the sources; without any, every edge.
ProjectEdges ==
  Projection(graph.edges,
             {e \in Edges : command.selectors = <<>> \/ e[1] \in picked})

Project ==
  /\ pc = "select" /\ todo = <<>>
  /\ printed' = IF command.verb = "nodes" THEN ProjectNodes ELSE ProjectEdges
  /\ pc' = "printed"
  /\ UNCHANGED <<tree, request, graph, found, hinted, visited, queue, reached, read,
                 expanded, lock, answer, command, todo, picked, said>>

Impacting == command.verb = "impact" /\ Next /\ UNCHANGED readingVars

ReadingNext == Impacting \/ BuildToSelect \/ Resolve \/ Miss \/ Project

ReadingSpec == ReadingInit /\ [][ReadingNext]_allVars

-----------------------------------------------------------------------------
(* Properties                                                              *)

IsBelow(p, k) == Len(Parts[k]) > Len(p) /\ SubSeq(Parts[k], 1, Len(p)) = p
At(s) == GraphKey(command.cwd, s.parts)
IsDirectoryAt(key) == \E k \in Entries(tree) : Parts[k] = key /\ tree[k].kind = "directory"

(* What a selector stands for among the files.                             *)
Meant(s) ==
  IF s.glob THEN MatchedBy(s.parts, s.deep)
  ELSE {k \in Entries(tree) :
          /\ At(s) # None
          /\ \/ IsBelow(At(s), k)
             \/ Parts[k] = At(s) /\ tree[k].kind # "directory" /\ ~s.slash}

Scope ==
  IF command.selectors = <<>> THEN Entries(tree)
  ELSE UNION {Meant(s) : s \in ToSet(command.selectors)}

Mistaken ==
  \/ ~(command.namespaces \subseteq Declarable)
  \/ \E s \in ToSet(command.selectors) : ~s.glob /\ Meant(s) = {} /\ ~IsDirectoryAt(At(s))

Filtering == command.namespaces # {} \/ command.fields # {}

Whole ==
  command.fields = {} \/ (command.verb = "edges" /\ "occurrences" \in command.fields)
Wanted(m) == Whole \/ Carries(m, command.fields)
Told(m) == IF Whole THEN m ELSE Kept(m, command.fields)

(* What one graph has to say, of its own fragment.                         *)
ToldOfNodes(fragment) ==
  [k \in {j \in DOMAIN fragment.nodes \cap Scope : Wanted(fragment.nodes[j])} |->
     Told(fragment.nodes[k])]
ToldOfEdges(fragment) ==
  [e \in {d \in DOMAIN fragment.edges : d[1] \in Scope /\ \E o \in fragment.edges[d] : Wanted(o)} |->
     {Told(o) : o \in {q \in fragment.edges[e] : Wanted(q)}}]

Asked(g) == command.namespaces = {} \/ g \in command.namespaces
ToldBy(fragment) ==
  IF ~Asked(fragment.label) THEN <<>>
  ELSE IF command.verb = "nodes" THEN ToldOfNodes(fragment) ELSE ToldOfEdges(fragment)

PrintedOf(g) == [k \in {j \in DOMAIN printed : g \in DOMAIN printed[j]} |-> printed[k][g]]

(* nodes and edges answer with what each graph asked for says of the paths *)
(* the selectors stand for, from whichever directory and in whichever      *)
(* spelling, and with nothing else.  An entry is left out only by a filter *)
(* that finds nothing in it.  A path that names nothing is an error, and a *)
(* selector whose answer is empty is hinted at once.                       *)
ProjectionAnswersTheSelectors ==
  /\ pc = "failed" => Mistaken
  /\ pc = "printed" =>
       /\ ~Mistaken
       /\ ToSet(said) = {s \in ToSet(command.selectors) : Meant(s) = {}}
       /\ \A i, j \in DOMAIN said : said[i] = said[j] => i = j
       /\ \A i \in DOMAIN BuildSet(tree) :
            LET fragment == BuildSet(tree)[i]
            IN  PrintedOf(fragment.label) = ToldBy(fragment)
       /\ \A k \in DOMAIN printed : Filtering => DOMAIN printed[k] # {}
       /\ ~Filtering => DOMAIN printed = IF command.verb = "nodes" THEN Scope
                                         ELSE {e \in Edges : e[1] \in Scope}

(* A directory named without a pattern is what is below it, from wherever  *)
(* it is named ("docs, docs/, and docs/** name one set").                  *)
DirectoryIsItsSubtree ==
  pc = "printed" /\ ~Filtering /\ command.verb = "nodes" /\ Len(command.selectors) = 1 =>
    LET s == command.selectors[1]
    IN  ~s.glob /\ IsDirectoryAt(At(s)) =>
          /\ DOMAIN printed = {k \in Entries(tree) : IsBelow(At(s), k)}
          /\ said # <<>> => \A k \in Entries(tree) : ~IsBelow(At(s), k)

=============================================================================
