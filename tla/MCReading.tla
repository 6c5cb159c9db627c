------------------------------ MODULE MCReading -----------------------------
(***************************************************************************)
(* A corpus of four places for files, two of them in a directory of its    *)
(* own, a name where no file is, a URI and a bare '#': links in bodies and *)
(* under declared keys, several to one target, cycles, a symlink, a        *)
(* directory, and files that cannot be read in whole or in part.           *)
(***************************************************************************)
EXTENDS Reading

MCKeyOrder ==
  <<"#x", "a", "b1", "b1/b", "b2", "b[1]", "b[1]/d", "gone", "https:u">>
MCPath == {"a", "b1", "b1/b", "b2", "b[1]", "b[1]/d", "gone"}

MCDecoded == [f \in {"h", "%68", "zz"} |-> IF f = "%68" THEN "h" ELSE f]

L(to, frag, line) == [to |-> to, frag |-> frag, line |-> line]
Under(keys, link) == [under |-> keys, link |-> link]

Plain == [utf8 |-> TRUE, body |-> {}, anchors |-> {}, block |-> "none",
          values |-> {}, claims |-> None]

Hub == [Plain EXCEPT
  !.body = {L("b1/b", "h", 3), L("b1/b", "zz", 5), L("b2", Top, 5), L("#x", None, 6),
            L("https:u", None, 7)},
  !.anchors = {"h"}]

Loop == [Plain EXCEPT !.body = {L("a", "%68", 2), L("b1/b", None, 4), L("b2", "h", 4)}]

\* Declared, nested and undeclared values; claims an anchor it has not got.
Declaring == [Plain EXCEPT
  !.block = "mapping", !.claims = {"zz"},
  !.values = {Under({"sources"}, L("a", None, 2)), Under({"meta", "sources"}, L("gone", None, 3)),
              Under({"title"}, L("b2", None, 4)), Under({"sources"}, L("#x", None, 5))},
  !.body = {L("b[1]/d", None, 9), L("a", "h", 10)}, !.anchors = {"h"}]

Torn == [Plain EXCEPT !.block = "unreadable", !.values = {Under({"sources"}, L("a", None, 2))},
                      !.body = {L("a", None, 8)}]

\* The long way from a hub to what a declaring file links to at once.
Chain == [Plain EXCEPT !.body = {L("b[1]/d", None, 2)}]
Ending == [Plain EXCEPT !.body = {L("gone", None, 1)}]

Binary == [Plain EXCEPT !.utf8 = FALSE]

MCContent == {Hub, Loop, Declaring, Torn, Chain, Ending, Binary}

\* Two graphs of declarations, one of which finds none, and two of bodies
\* that overlap.
MCTextGraphs ==
  <<[name |-> "cited", parser |-> "frontmatter", files |-> {"b1/b", "gone"}, keys |-> {"author"}],
    [name |-> "declared", parser |-> "frontmatter", files |-> {"a", "b1/b", "b[1]/d"}, keys |-> {"sources"}],
    [name |-> "markdown", parser |-> "markdown", files |-> {"a", "b1/b", "b[1]/d"}, keys |-> {}],
    [name |-> "more", parser |-> "markdown", files |-> {"b1/b", "b2"}, keys |-> {}]>>

MCTrees ==
  {[p \in MCPath |-> CASE p = "a" -> File(va) [] p = "b2" -> vc [] p = "gone" -> None
                       [] p = "b1/b" -> vb [] p = "b[1]/d" -> vd [] OTHER -> Directory] :
     va \in {Hub, Loop}, vb \in {File(Declaring), File(Torn), None},
     vc \in {File(Chain), Symlink("a"), Directory}, vd \in {File(Ending), File(Binary), File(None)}}

\* The lock was written when b still declared its sources, or of a lone hub.
MCEarlier ==
  {t \in MCTrees : /\ t["a"] = File(Hub) /\ t["b[1]/d"] = File(Ending)
                   /\ t["b1/b"] # File(Torn) /\ t["b2"] # Directory}

MCSeedLists == {<<"a">>, <<"b1/b">>, <<"b2", "a", "b2">>, <<"b[1]/d">>}

Quiet == [rule \in D!Rule \cup {"unresolved-edge", "unresolved-fragment", "detached-node",
                                "unreadable-text", "unreadable-frontmatter"} |-> "warn"]
MCPolicies ==
  {[severity |-> Quiet, ignored |-> {}],
   [severity |-> [Quiet EXCEPT !["unresolved-fragment"] = "off"],
    ignored |-> {<<"unresolved-edge", "b1/b">>, <<"unreadable-text", "b[1]/d">>}]}

-----------------------------------------------------------------------------
(* Reading from the root, and from directories below it.                   *)

MCParts ==
  [k \in MCPath |-> CASE k = "b1/b" -> <<"b1", "b">>
                       [] k = "b[1]/d" -> <<"b[1]", "d">> [] OTHER -> <<k>>]
MCName == UNION {ToSet(MCParts[k]) : k \in MCPath}
MCMatching ==
  [x \in MCName \cup {"*"} |-> IF x = "*" THEN MCName ELSE IF x = "b[1]" THEN {"b1"} ELSE {x}]

Named(parts) == [glob |-> FALSE, parts |-> parts, slash |-> FALSE, deep |-> FALSE]
Slashed(parts) == [Named(parts) EXCEPT !.slash = TRUE]
Pattern(parts, deep) == [glob |-> TRUE, parts |-> parts, slash |-> FALSE, deep |-> deep]

Bracketed == Pattern(<<"b[1]">>, TRUE)

MCSelectorsAtRoot ==
  {<<>>, <<Named(<<"a">>), Bracketed, Named(<<"a">>)>>, <<Named(<<"b1">>)>>,
   <<Slashed(<<"b1">>), Bracketed, Bracketed>>, <<Slashed(<<"b2">>)>>, <<Named(<<"gone">>)>>,
   <<Pattern(<<"*">>, FALSE), Pattern(<<"gone">>, TRUE)>>, <<Named(<<"b1", "..", "..", "a">>)>>}
MCSelectorsBelow ==
  {<<Named(<<"b">>), Named(<<"..", "a">>)>>, <<Named(<<>>)>>, <<Pattern(<<"*">>, TRUE), Named(<<"..", "b2">>)>>}

MCFilters ==
  {[namespaces |-> {}, fields |-> {}], [namespaces |-> {"markdown"}, fields |-> {}],
   [namespaces |-> {"fs", "declared"}, fields |-> {}], [namespaces |-> {"typo"}, fields |-> {}],
   [namespaces |-> {}, fields |-> {"anchors", "line"}],
   [namespaces |-> {"fs", "more"}, fields |-> {"hash", "frag"}],
   [namespaces |-> {}, fields |-> {"occurrences", "type"}]}

Reads(cwd, selectors) ==
  {[verb |-> v, cwd |-> cwd, selectors |-> s, namespaces |-> f.namespaces, fields |-> f.fields] :
     v \in {"nodes", "edges"}, s \in selectors, f \in MCFilters}

MCJustImpact == [verb |-> "impact", cwd |-> <<>>, selectors |-> <<>>, namespaces |-> {}, fields |-> {}]
MCCommands ==
  {MCJustImpact} \cup Reads(<<>>, MCSelectorsAtRoot) \cup Reads(<<"b1">>, MCSelectorsBelow)

\* From inside a directory whose name is a pattern of another.
MCBracketCommands == Reads(<<"b[1]">>, {<<Named(<<>>)>>, <<Named(<<"d">>)>>})

=============================================================================
