------------------------------- MODULE Router --------------------------------
(***************************************************************************)
(* How ServeHTTP of the generated server finds the handler of a request:   *)
(* the path as url.URL holds it, the search of the tree of Routes with its *)
(* backtracking, and the arguments it cuts out of the path.                *)
(*                                                                         *)
(* Segments are tokens.  Three of them stand for texts that conversions    *)
(* change: "empty" for the empty text, "a/b" for a text with a slash, and  *)
(* "%41" for a text that looks escaped.                                    *)
(***************************************************************************)
EXTENDS Routes, Endpoint

\* uri.PathEncoder, which escapes like url.PathEscape.
PathEscape(text) ==
    CASE text = "a/b" -> "a%2Fb" [] text = "%41" -> "%2541" [] OTHER -> text

\* url.PathUnescape.
PathUnescape(text) ==
    CASE text = "a%2Fb" -> "a/b" [] text = "%2541" -> "%41"
      [] text = "%41" -> "A" [] OTHER -> text

UnescapeAll(path) == [i \in DOMAIN path |-> PathUnescape(path[i])]

\* net/http keeps a RawPath only if escaping Path anew would not give it back,
\* and ServeHTTP prefers it.
HasRawPath(path) == \E i \in DOMAIN path : path[i] = "a%2Fb"

Elem(path) == IF HasRawPath(path) THEN path ELSE UnescapeAll(path)
ElemIsEscaped(path) == HasRawPath(path)

-----------------------------------------------------------------------------
(* The search.                                                             *)

\* Leaves that do not match an empty last segment: the router looks for one
\* only if something is left of the path.
NeverEmpty ==
    {<<"collections", "*">>,
     <<"network", "private", "network-entity", "request", "*">>}

Matches(pattern, path) ==
    /\ Len(pattern) = Len(path)
    /\ \A i \in DOMAIN path : pattern[i] \in {"*", path[i]}
    /\ path[Len(path)] = "empty" => pattern \notin NeverEmpty

\* "case 'f': // Prefix: fork/" cuts its prefix off and, finding more than one
\* segment behind it, breaks without elem = origElem: the search goes on as if
\* the prefix were not there.
ForkPrefixLost(path) ==
    Len(path) >= 4 /\ path[1] = "collections" /\ path[2] = "fork"

\* What is left of such a path.
WithoutFork(path) == <<"collections">> \o SubSeq(path, 3, Len(path))

\* The patterns that match, each with the path it is matched against.
Found(path) ==
    LET leaves == {p \in DOMAIN Leaves : Matches(p, path)}
        others == {p \in leaves : p[1] = "*"}
        behind == {p \in DOMAIN Leaves :
                     /\ Matches(p, WithoutFork(path))
                     /\ p[1] = "collections" /\ p[2] = "*"}
    IN  IF ForkPrefixLost(path)
        THEN [p \in behind \cup others |->
                IF p \in behind THEN WithoutFork(path) ELSE path]
        ELSE [p \in leaves |-> path]

\* Static prefixes are tried before a parameter at every branch of the tree.
TriedBefore(p, q) ==
    \E i \in DOMAIN p \cap DOMAIN q :
        /\ p[i] # "*" /\ q[i] = "*"
        /\ \A j \in 1 .. i - 1 : (p[j] = "*") = (q[j] = "*")

Best(found) ==
    CHOOSE p \in DOMAIN found :
        \A q \in DOMAIN found \ {p} : TriedBefore(p, q)

\* The arguments: what stands at the places of the parameters.  A mutant takes
\* them in the opposite order.
ArgumentsReversed(pattern, path) ==
    [k \in 1 .. Cardinality(Places(pattern)) |->
        path[CHOOSE i \in Places(pattern) :
                Rank(pattern, i) = Cardinality(Places(pattern)) + 1 - k]]

Arguments(pattern, path) ==
    [k \in 1 .. Cardinality(Places(pattern)) |->
        path[CHOOSE i \in Places(pattern) : Rank(pattern, i) = k]]

NotFound   == [op |-> "404", args |-> <<>>]
NotAllowed == [op |-> "405", args |-> <<>>]

\* The handler ServeHTTP calls, and the arguments it calls it with.
Route(method, path) ==
    LET found   == Found(path)
        pattern == Best(found)
    IN  IF DOMAIN found = {} THEN NotFound
        ELSE IF method \notin DOMAIN Leaves[pattern] THEN NotAllowed
        ELSE [op |-> Leaves[pattern][method],
              args |-> Arguments(pattern, found[pattern])]

=============================================================================
