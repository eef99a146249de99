----------------------------- MODULE UrlRouter -----------------------------
(***************************************************************************)
(* The router of urls (url_router): a trie of patterns.  A route is text:  *)
(* a path in which <name> stands for a part of the path and * for the rest *)
(* of it.  It becomes a pattern, a sequence of parts; an edge of the trie  *)
(* has a piece of a pattern, a node the data of the route that ends there. *)
(*                                                                         *)
(* Characters are strings of one character, texts are sequences of them.   *)
(* The data of a route is its number; 0 is NULL.  The length of a pattern  *)
(* counts the two brackets of a name and the star, as the code does.       *)
(***************************************************************************)
EXTENDS Integers, Sequences, FiniteSets, SequencesExt, Functions

CONSTANTS
  Texts,   \* routes that are added
  Urls,    \* paths that are looked up
  MaxAdds  \* bound of the model: calls of add_route

VARIABLES
  trie,    \* [edges: node -> sequence of [pattern, child], data: node -> route]
  added,   \* the patterns of the routes that were accepted; data is the index
  refused  \* the patterns that were refused

vars == <<trie, added, refused>>

Root == 1
NULL == 0

-----------------------------------------------------------------------------
(* Patterns.                                                               *)

Str(s) == [type |-> "string", str |-> s]
Param(s) == [type |-> "parameter", str |-> s]
Terminal == [type |-> "terminal", str |-> <<>>]

\* What is not a route.
Error == <<[type |-> "error", str |-> <<>>]>>

\* The text, with a slash in front and none at the end.
Trimmed(text) ==
  LET path == IF text = <<>> \/ Head(text) # "/" THEN <<"/">> \o text ELSE text
  IN  IF Len(path) > 1 /\ Last(path) = "/" THEN Front(path) ELSE path

\* One character of a route.  "at" is the part that is being read.
Convert(a, path, i) ==
  LET c == path[i]
      prev == IF i = 1 THEN "" ELSE path[i - 1]
      next == IF i = Len(path) THEN "/" ELSE path[i + 1]
  IN  IF a.state # "going" THEN a ELSE
      CASE c = "<" -> IF a.at.type = "parameter" \/ prev # "/"
                      THEN [a EXCEPT !.state = "error"]
                      ELSE [a EXCEPT !.parts = Append(@, a.at), !.at = Param(<<>>)]
      []   c = ">" -> IF a.at.type # "parameter" \/ next # "/"
                      THEN [a EXCEPT !.state = "error"]
                      ELSE [a EXCEPT !.parts = Append(@, a.at), !.at = Str(<<>>)]
      []   c = "*" -> [state |-> "done", at |-> Terminal,
                       parts |-> a.parts \o <<a.at, Terminal>>]
      []   OTHER -> [a EXCEPT !.at.str = Append(@, c)]

\* convert_path_to_pattern().
Pattern(text) ==
  LET path == Trimmed(text)
      a[i \in 0..Len(path)] ==
        IF i = 0 THEN [state |-> "going", at |-> Str(<<>>), parts |-> <<>>]
                 ELSE Convert(a[i - 1], path, i)
      end == a[Len(path)]
  IN  IF end.state = "error" \/ end.at.type = "parameter" THEN Error
      ELSE IF end.at.str = <<>> THEN end.parts ELSE Append(end.parts, end.at)

PartLen(part) ==
  CASE part.type = "string" -> Len(part.str)
  []   part.type = "parameter" -> Len(part.str) + 2
  []   part.type = "terminal" -> 1

\* pattern_len()
PatternLen(p) == FoldFunction(LAMBDA part, n : n + PartLen(part), 0, p)

\* string_diff(): the length of the common prefix.
StringDiff(s, t) == Len(LongestCommonPrefix({s, t}))

\* pattern_diff(): how far two patterns are alike, -1 if they cannot be in one
\* trie.  Parts are compared by position: where the first has come to the end of
\* a part, the second need not have.
PatternDiff(p, q) ==
  LET n == IF Len(p) < Len(q) THEN Len(p) ELSE Len(q)
      d[i \in 1..n + 1] ==
        IF i > n THEN 0
        ELSE LET common == StringDiff(p[i].str, q[i].str)
             IN  IF common = 0 THEN 0
                 ELSE IF common # Len(p[i].str) THEN common
                 ELSE IF p[i].type # q[i].type \/ d[i + 1] = -1 THEN -1
                 ELSE common + d[i + 1] + (IF p[i].type = "parameter" THEN 2 ELSE 0)
  IN  d[1]

\* One part of pattern_sub(): "found" once a character at the offset was seen,
\* so a star that begins there is not.
SubPart(a, part, offset, len) ==
  LET bracket == IF part.type = "parameter" THEN 1 ELSE 0
      off == a.off + bracket
      skip == IF a.found \/ off >= offset THEN 0 ELSE offset - off
      room == IF a.found THEN len - a.len - bracket ELSE len
      chars == SubSeq(part.str, skip + 1,
                      IF skip + room < Len(part.str) THEN skip + room ELSE Len(part.str))
      found == a.found \/ (room > 0 /\ skip < Len(part.str))
      got == a.len + (IF a.found THEN bracket ELSE 0) + Len(chars)
             + (IF found THEN bracket ELSE 0)
  IN  IF a.found /\ a.len >= len THEN a
      ELSE [found |-> found,
            off |-> off + Len(part.str) + bracket,
            len |-> IF found THEN got ELSE a.len,
            out |-> IF found THEN Append(a.out, [part EXCEPT !.str = chars]) ELSE a.out]

\* pattern_sub()
PatternSub(p, offset, len) ==
  LET a[i \in 0..Len(p)] ==
        IF i = 0 THEN [found |-> (offset = 0), off |-> 0, len |-> 0, out |-> <<>>]
                 ELSE SubPart(a[i - 1], p[i], offset, len)
  IN  a[Len(p)].out

-----------------------------------------------------------------------------
(* The trie.                                                               *)

Nodes(t) == DOMAIN t.edges
Edge(p, child) == [pattern |-> p, child |-> child]

\* A node that is not yet anywhere in the trie.
NewNode(t, data) == [edges |-> Append(t.edges, <<>>), data |-> Append(t.data, data)]

\* find_longest_common_prefix(): the edge that is most like the pattern, the
\* first of them, but the length of what the last edge has in common with it.
CommonPrefix(t, n, p) ==
  LET d == [i \in DOMAIN t.edges[n] |-> PatternDiff(p, t.edges[n][i].pattern)]
  IN  IF -1 \in Range(d) THEN [len |-> -1, edge |-> 0]
      ELSE [len |-> IF d = <<>> THEN 0 ELSE Last(d),
            edge |-> SelectInSeq(d, LAMBDA x : x > 0 /\ \A y \in Range(d) : y <= x)]

\* What is left of a pattern after a prefix of it.
Rest(p, len) == PatternSub(p, len, PatternLen(p) - len)

\* collision_test()
RECURSIVE Collides(_, _, _)
Collides(t, n, p) ==
  LET c == CommonPrefix(t, n, p)
      e == t.edges[n][c.edge]
      sub == Rest(p, c.len)
  IN  \/ c.len = -1
      \/ /\ c.len > 0 /\ c.len = PatternLen(e.pattern)
         /\ PatternLen(sub) = 0 \/ Collides(t, e.child, sub)

\* Mutant of Middle: the node in the middle keeps its data.
MiddleData(t, n, low) == [edges |-> <<low>>, data |-> t.data[n]]

\* What becomes of the node below an edge that is cut.
Middle(t, n, low) == [edges |-> <<low>>, data |-> NULL]

\* branch(): an edge is cut in two.  Its node moves down, to a new place.
Branch(t, n, i, offset) ==
  LET e == t.edges[n][i]
      low == Edge(PatternSub(e.pattern, offset, PatternLen(e.pattern)), Len(t.edges) + 1)
      high == Edge(PatternSub(e.pattern, 0, offset), e.child)
      middle == Middle(t, e.child, low)
  IN  [edges |-> Append([t.edges EXCEPT ![n] = ReplaceAt(@, i, high),
                                        ![e.child] = middle.edges], t.edges[e.child]),
       data |-> Append([t.data EXCEPT ![e.child] = middle.data], t.data[e.child])]

\* connect(): when there is such an edge, the new node is nowhere in the trie.
Connect(t, n, p, child) ==
  IF \E e \in Range(t.edges[n]) : e.pattern = p THEN t
  ELSE [t EXCEPT !.edges[n] = Append(@, Edge(p, child))]

\* insert_route(): the trie, and whether the route was accepted.
RECURSIVE Insert(_, _, _, _)
Insert(t, n, p, data) ==
  LET c == CommonPrefix(t, n, p)
      e == t.edges[n][c.edge]
      cut == Branch(t, n, c.edge, c.len)
      refuse == [trie |-> t, ok |-> FALSE]
  IN  IF Collides(t, n, p) THEN refuse
      ELSE IF c.len = 0
      THEN [trie |-> Connect(NewNode(t, data), n, p, Len(t.edges) + 1), ok |-> TRUE]
      ELSE IF c.len = PatternLen(e.pattern) THEN Insert(t, e.child, Rest(p, c.len), data)
      ELSE IF c.len > PatternLen(e.pattern) THEN refuse
      ELSE IF PatternLen(p) = c.len
      THEN [trie |-> [cut EXCEPT !.data[e.child] = data], ok |-> TRUE]
      ELSE Insert(cut, e.child, Rest(p, c.len), data)

\* One part of match_route() on what is left of the url.
MatchPart(a, part) ==
  LET slash == SelectInSeq(a.left, LAMBDA c : c = "/")
      n == IF slash = 0 THEN Len(a.left) ELSE slash - 1
      took(k, key) == [a EXCEPT !.left = SubSeq(@, k + 1, Len(@)),
                                !.params = (key :> SubSeq(a.left, 1, k)) @@ @]
  IN  IF ~a.ok THEN a
      ELSE IF part.type = "parameter" THEN took(n, part.str)
      ELSE IF part.type = "terminal" THEN took(Len(a.left), <<"*">>)
      ELSE IF IsPrefix(part.str, a.left)
      THEN [a EXCEPT !.left = SubSeq(@, Len(part.str) + 1, Len(@))]
      ELSE [a EXCEPT !.ok = FALSE]

\* match_route()
Match(p, url) ==
  FoldLeft(MatchPart, [ok |-> TRUE, left |-> url, params |-> <<>>], p)

\* Mutant of Merged: the values found further down are lost.
MergedShallow(deep, m) == [deep EXCEPT !.params = m.params]

\* The values of an edge and those from further down, which prevail.
Merged(deep, m) == [deep EXCEPT !.params = @ @@ m.params]

\* find_route(), from the i-th edge of a node.
RECURSIVE Found(_, _, _, _)
Found(t, n, i, url) ==
  IF i > Len(t.edges[n]) THEN [data |-> NULL, params |-> <<>>]
  ELSE LET m == Match(t.edges[n][i].pattern, url)
           deep == Found(t, t.edges[n][i].child, 1, m.left)
       IN  IF m.ok /\ m.left = <<>>
           THEN [data |-> t.data[t.edges[n][i].child], params |-> m.params]
           ELSE IF m.ok /\ deep.data # NULL THEN Merged(deep, m)
           ELSE Found(t, n, i + 1, url)

-----------------------------------------------------------------------------

Init ==
  /\ trie = [edges |-> <<<<>>>>, data |-> <<NULL>>]
  /\ added = <<>>
  /\ refused = {}

\* add_route()
AddRoute(text) ==
  LET p == Pattern(text)
      result == Insert(trie, Root, p, Len(added) + 1)
  IN  /\ Len(added) + Cardinality(refused) < MaxAdds
      /\ p # Error
      /\ trie' = result.trie
      /\ IF result.ok THEN added' = Append(added, p) /\ UNCHANGED refused
         ELSE refused' = refused \union {p} /\ UNCHANGED added

Next == \E text \in Texts : AddRoute(text)

Spec == Init /\ [][Next]_vars

-----------------------------------------------------------------------------
(* Properties.                                                             *)

Find(url) == Found(trie, Root, 1, url)

\* A pattern without names and stars.
Plain(p) == \A part \in Range(p) : part.type = "string"
OnlyPlain == \A p \in Range(added) \union refused : Plain(p)

\* The paths that lead to nodes, for plain patterns.
Text(p) == FlattenSeq([i \in DOMAIN p |-> p[i].str])
RECURSIVE PathsFrom(_, _)
PathsFrom(n, path) ==
  {<<path, n>>} \union
  UNION {PathsFrom(e.child, path \o Text(e.pattern)) : e \in Range(trie.edges[n])}
Paths == PathsFrom(Root, <<>>)

\* Two routes the code takes apart at different places: up to a name that both
\* have, one is a prefix of the other but for that it ends earlier.
Misaligned(p, q) ==
  \E i \in 1..Len(p) - 1 :
    /\ i < Len(q)
    /\ SubSeq(p, 1, i - 1) = SubSeq(q, 1, i - 1)
    /\ p[i] # q[i] /\ IsPrefix(p[i].str, q[i].str)
    /\ p[i + 1].type = "parameter" /\ q[i + 1] = p[i + 1]

\* Every variable has the type of its declaration.
TypeOK ==
  /\ Len(trie.data) = Len(trie.edges)
  /\ \A n \in Nodes(trie) : \A e \in Range(trie.edges[n]) : e.child \in Nodes(trie)
  /\ Range(trie.data) \subseteq 0..Len(added)

\* The nodes are a tree: each has at most one edge that leads to it, and the root
\* none, so what ~node() deletes with its edges is deleted once.
IsTree ==
  /\ TypeOK
  /\ \A n \in Nodes(trie) :
       Cardinality({<<m, i>> \in Nodes(trie) \X (1..MaxAdds) :
                      i \in DOMAIN trie.edges[m] /\ trie.edges[m][i].child = n})
         <= (IF n = Root THEN 0 ELSE 1)

\* A look-up finds only what trying every route on its own would: the data is
\* that of a route that was added and matches, and the values are those that
\* its names stand for.  The exception are routes that branch() takes apart in
\* the wrong place.
FoundIsAdded ==
  \/ \E p, q \in Range(added) : Misaligned(p, q)
  \/ \A url \in Urls :
       LET found == Find(url)
           m == Match(added[found.data], url)
       IN  found.data # NULL => m.ok /\ m.left = <<>> /\ found.params = m.params

\* With routes that have no names and stars, however often they are added and the
\* edges were cut since: the trie spells no route but those that were accepted;
\* one is refused only when there is a node for it, as it was added, or others go
\* on from it; and one is found, with its own data, as long as it is not the
\* beginning of another, which may hide it.  Whatever the routes, the nodes stay
\* a tree.
PlainIsKept ==
  /\ IsTree
  /\ OnlyPlain =>
      /\ \A x \in Paths : trie.data[x[2]] # NULL => x[1] = Text(added[trie.data[x[2]]])
      /\ \A p \in Range(added) \union refused : \E x \in Paths : x[1] = Text(p)
      /\ \A i \in DOMAIN added :
           \/ \E q \in Range(added) : IsStrictPrefix(Text(added[i]), Text(q))
           \/ LET found == Find(Text(added[i])).data
              IN  found # NULL /\ Text(added[found]) = Text(added[i])

\* What the test "Find existing routes" says of its routes (wb_url_router.cc:125):
\* a route that was added, and has no names or stars, is found.
AddedIsFound ==
  \A p \in Range(added) : Plain(p) => Find(Text(p)).data # NULL

=============================================================================
