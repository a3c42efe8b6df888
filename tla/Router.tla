------------------------------- MODULE Router -------------------------------
(***************************************************************************)
(* gee-web/day7-panic-recover/gee: the tries of router.go and trie.go, one *)
(* per method, as values.  A text, of a pattern or a path, is what is      *)
(* between its slashes: "/v1/" is <<"", "v1", "">>.  What is parsed is the *)
(* sequence of its parts.                                                  *)
(***************************************************************************)
EXTENDS Naturals, Sequences, FiniteSetsExt

CONSTANTS
    Parts,      \* what is between the slashes
    Empty,      \* nothing, between two slashes or at an end of the text
    Param,      \* the parts that start with ":"
    Star,       \* the parts that start with "*"
    NoPattern   \* the pattern "" of a node that no route ends at

ASSUME PartsAssumption ==
    /\ Param \subseteq Parts /\ Star \subseteq Parts
    /\ Param \cap Star = {}
    /\ Empty \in Parts \ (Param \cup Star)
    /\ NoPattern \notin Seq(Parts)

Wild == Param \cup Star

\* Only one * is allowed: what follows it is cut off, in paths as well.
Ended(parts) == parts # << >> /\ parts[Len(parts)] \in Star

\* Two slashes are one, and one at an end is none.
ParsePattern(text) ==
    LET upTo[n \in 0 .. Len(text)] ==
            IF n = 0 THEN << >>
            ELSE IF text[n] = Empty \/ Ended(upTo[n - 1]) THEN upTo[n - 1]
            ELSE Append(upTo[n - 1], text[n])
    IN  upTo[Len(text)]

\* A node is known by the parts on the way to it, and has those of its
\* children, in order: no two are equal, as insert goes to the one there is.
Node == [pattern |-> NoPattern, children |-> << >>]
NewRoot == [q \in {<< >>} |-> Node]

\* matchChildren and, for the first of them, matchChild.
\* Mutant: search looks for equal parts only where there is one.
Matching_Exact(n, part) ==
    LET equal == {i \in DOMAIN n.children : n.children[i] = part}
    IN  IF equal # {} THEN equal
        ELSE {i \in DOMAIN n.children : n.children[i] \in Wild}
Matching(n, part) ==
    {i \in DOMAIN n.children : n.children[i] \in Wild \cup {part}}

\* The node at q, a new one if there is none.
At(trie, q) == IF q \in DOMAIN trie THEN trie[q] ELSE Node

\* Where insert goes from q: to the first child that matches, or to a new one.
Child(trie, q, part) ==
    LET n == At(trie, q)
        found == Matching(n, part)
    IN  Append(q, IF found = {} THEN part ELSE n.children[Min(found)])

\* The nodes insert comes to, one at each height.
Way(trie, pattern) ==
    LET way[h \in 0 .. Len(pattern)] ==
            IF h = 0 THEN << >> ELSE Child(trie, way[h - 1], pattern[h])
    IN  way

Insert(trie, pattern) ==
    LET way == Way(trie, pattern)
        n == Len(pattern)
        Grows(q) == \E h \in 1 .. n : way[h - 1] = q /\ way[h] \notin DOMAIN trie
    IN  [q \in DOMAIN trie \cup {way[h] : h \in 0 .. n} |->
            [pattern |-> IF q = way[n] THEN pattern ELSE At(trie, q).pattern,
             children |-> IF Grows(q)
                          THEN Append(At(trie, q).children, pattern[Len(q) + 1])
                          ELSE At(trie, q).children]]

\* What search returns from a node that is no deeper than the path is long:
\* the pattern of the node found, NoPattern if there is none.
Results(trie, parts) ==
    LET result[q \in {p \in DOMAIN trie : Len(p) <= Len(parts)}] ==
            IF Len(q) = Len(parts) \/ (q # << >> /\ q[Len(q)] \in Star)
            THEN trie[q].pattern
            ELSE LET children == trie[q].children
                     Below(i) == result[Append(q, children[i])]
                     found == {i \in Matching(trie[q], parts[Len(q) + 1]) :
                                  Below(i) # NoPattern}
                 IN  IF found = {} THEN NoPattern ELSE Below(Min(found))
    IN  result
Search(trie, parts) == Results(trie, parts)[<< >>]

\* addRoute; a child that matches is taken even if it stands for more.  A node
\* keeps the pattern as it is parsed, which is all that getRoute makes of it.
AddRoute(trie, text) == Insert(trie, ParsePattern(text))

\* getRoute, but for the parameters.
GetRoute(trie, path) == Search(trie, ParsePattern(path))

\* The parts a parameter of the pattern found stands for: one, or the rest.
Params(pattern, path) ==
    LET parts == ParsePattern(path)
    IN  [i \in {j \in DOMAIN pattern : pattern[j] \in Wild} |->
            IF pattern[i] \in Param THEN << parts[i] >>
            ELSE SubSeq(parts, i, Len(parts))]

-----------------------------------------------------------------------------
(* Reference definitions *)

\* What a pattern means: a fixed part matches itself, a ":" any one part, and
\* a "*" at least one, all that are left.
Matches(pattern, path) ==
    LET parts == ParsePattern(path)
        n == Len(pattern)
    IN  /\ IF n > 0 /\ pattern[n] \in Star THEN Len(parts) >= n ELSE Len(parts) = n
        /\ \A i \in 1 .. n : pattern[i] \in Wild \cup {parts[i]}

\* The j-th of the patterns competes, at some level, with a wildcard that was
\* registered before any pattern had its own part there.
Shadowed(patterns, j) ==
    \E h \in DOMAIN patterns[j], i \in 1 .. j - 1 :
        LET Same(k, l) == Len(patterns[k]) >= l
                          /\ SubSeq(patterns[k], 1, l) = SubSeq(patterns[j], 1, l)
        IN  /\ Same(i, h - 1) /\ Len(patterns[i]) >= h
            /\ patterns[i][h] \in Wild \ {patterns[j][h]}
            /\ \A k \in 1 .. i - 1 : ~Same(k, h)
=============================================================================
