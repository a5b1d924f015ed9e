-------------------------- MODULE RoundTripProofs ---------------------------
(***************************************************************************)
(* Proofs about RoundTrip: for any identifiers, settings, verdicts of the  *)
(* SecurityHandler and conducts of the implementation of Handler, a call   *)
(* reaches the handler it is meant for, and its answer comes back as what  *)
(* it is.                                                                  *)
(*                                                                         *)
(* The tables of the 196 operations are finite.  What the proofs need of   *)
(* them is stated first, one assumption for each of the generated parts    *)
(* that must agree, and evaluated by TLC over all rows of the tables.      *)
(***************************************************************************)
EXTENDS RoundTrip, FiniteSetTheorems, TLAPS

Patterns == DOMAIN Leaves

\* Identifiers, and what escaping makes of them.
Texts == STRING \cup {"a%2Fb", "%2541"}

\* The routes are finitely many paths of at least one segment.
ASSUME PatternsAssumption ==
    /\ IsFiniteSet(Patterns)
    /\ \A p \in Patterns : p \in Seq(STRING) /\ p # <<>>

\* No segment of a route is a text that a conversion changes, or empty, and no
\* route of several segments has "fork" for its second.
ASSUME WordsAssumption ==
    \A p \in Patterns :
        /\ \A i \in DOMAIN p :
              p[i] \notin {"a%2Fb", "%2541", "%41", "a/b", "empty"}
        /\ Len(p) >= 4 => p[2] # "fork"

\* A route with the same method that also matches what an identifier makes of
\* another one is tried after it, unless the identifier is that of a collection
\* and confusing.
ASSUME PrecedenceAssumption ==
    \A p, q \in Patterns :
        /\ p # q /\ Len(p) = Len(q)
        /\ DOMAIN Leaves[p] \cap DOMAIN Leaves[q] # {}
        /\ \A i \in DOMAIN p :
              \/ q[i] \in {"*", p[i]}
              \/ /\ p[i] = "*"
                 /\ i = 2 /\ q[1] = "collections" => q[2] \notin Confusing
        => TriedBefore(p, q)

\* A handler counts its requests under the route and the method the router
\* finds it by.
ASSUME LeavesAssumption ==
    \A p \in Patterns : \A m \in DOMAIN Leaves[p] :
        /\ Leaves[p][m] \in DOMAIN Server
        /\ Server[Leaves[p][m]].method = m
        /\ Server[Leaves[p][m]].route = p

\* No type of an operation is a word of the model for what has no type.
ASSUME TypesAssumption ==
    \A op \in DOMAIN Server :
        {"none", "foreign", "error"} \cap DOMAIN Server[op].encode.status = {}

\* The two ends of the operation of a service method agree on its route, its
\* query and its body.
ASSUME RequestsAssumption ==
    \A n \in OperationNames :
        LET op == CallOf(n).op
        IN  /\ Client[op].path \in Patterns
            /\ Client[op].method \in DOMAIN Leaves[Client[op].path]
            /\ Leaves[Client[op].path][Client[op].method] = op
            /\ Len(CallOf(n).args) = Cardinality(Places(Client[op].path))
            /\ Client[op].query.required \cup Client[op].query.optional
                  \subseteq Server[op].params.query.required \cup
                            Server[op].params.query.optional
            /\ Client[op].body.type = Server[op].body.type

\* They agree on which status stands for which type, and the type switch of
\* the service method knows every status the decoder knows, or lacks it as
\* ServiceCatalog says.
ASSUME ResponsesAssumption ==
    \A n \in OperationNames :
        LET op     == CallOf(n).op
            encode == Server[op].encode.status
            decode == Client[op].decode
        IN  /\ \A t \in DOMAIN encode :
                  encode[t] \in DOMAIN decode /\ decode[encode[t]].type = t
            /\ \A s \in DOMAIN decode :
                  decode[s].type \in DOMAIN encode /\
                  encode[decode[s].type] = s
            /\ DOMAIN decode \subseteq Declared(Row(n))

-----------------------------------------------------------------------------
(* Patterns and their arguments.                                           *)

\* The ranks of the places of a pattern are the numbers from 1 on, each once:
\* the arguments of a pattern have one place each.
LEMMA RanksAreNumbers ==
    ASSUME NEW p \in Seq(STRING)
    PROVE  /\ IsFiniteSet(Places(p)) /\ Cardinality(Places(p)) \in Nat
           /\ \A i \in Places(p) : Rank(p, i) \in 1 .. Cardinality(Places(p))
<1>1. IsFiniteSet(Places(p))
  BY FS_Interval, FS_Subset DEF Places
<1>2. Cardinality(Places(p)) \in Nat
  BY <1>1, FS_CardinalityType
<1>3. ASSUME NEW i \in Places(p)
      PROVE  Rank(p, i) \in 1 .. Cardinality(Places(p))
  <2> DEFINE R == {j \in 1 .. i : p[j] = "*"}
  <2>1. R \subseteq Places(p) /\ i \in R
    BY DEF Places
  <2>2. IsFiniteSet(R) /\ Cardinality(R) <= Cardinality(Places(p))
    BY <1>1, <2>1, FS_Subset
  <2>3. Cardinality(R) \in Nat /\ Cardinality(R) # 0
    BY <2>1, <2>2, FS_CardinalityType, FS_EmptySet
  <2>4. Rank(p, i) = Cardinality(R)
    BY DEF Rank
  <2> HIDE DEF R
  <2>5. QED
    BY <1>2, <2>2, <2>3, <2>4
<1>4. QED
  BY <1>1, <1>2, <1>3

\* A list with an argument for each place has one for the rank of a place.
LEMMA RankOfPlace ==
    ASSUME NEW p \in Seq(STRING), NEW i \in DOMAIN p, p[i] = "*",
           NEW S, NEW args \in Seq(S), Len(args) = Cardinality(Places(p))
    PROVE  Rank(p, i) \in DOMAIN args
<1>1. i \in Places(p)
  BY DEF Places
<1>2. Rank(p, i) \in 1 .. Cardinality(Places(p))
  BY <1>1, RanksAreNumbers
<1>3. QED
  BY <1>2

\* Two places have different ranks.
LEMMA RanksDiffer ==
    ASSUME NEW p \in Seq(STRING), NEW i \in Places(p), NEW j \in Places(p),
           i < j
    PROVE  Rank(p, i) < Rank(p, j)
<1> DEFINE R(k) == {l \in 1 .. k : p[l] = "*"}
<1>1. i \in Nat /\ j \in Nat /\ i \in R(i) /\ j \in R(j) /\ j \notin R(i)
  BY DEF Places
<1>2. R(i) \subseteq R(j) /\ R(j) \subseteq Places(p)
  BY <1>1 DEF Places
<1>3. IsFiniteSet(R(j)) /\ IsFiniteSet(R(i))
  BY <1>2, RanksAreNumbers, FS_Subset
<1>4. /\ Cardinality(R(i)) <= Cardinality(R(j))
      /\ Cardinality(R(i)) # Cardinality(R(j))
  BY <1>1, <1>2, <1>3, FS_Subset
<1>5. Cardinality(R(i)) \in Nat /\ Cardinality(R(j)) \in Nat
  BY <1>3, FS_CardinalityType
<1>6. Rank(p, i) = Cardinality(R(i)) /\ Rank(p, j) = Cardinality(R(j))
  BY DEF Rank
<1> HIDE DEF R
<1>7. QED
  BY <1>4, <1>5, <1>6

\* So the argument of a rank is cut out at the place with that rank.
LEMMA PlaceOfRank ==
    ASSUME NEW p \in Seq(STRING), NEW i \in Places(p)
    PROVE  (CHOOSE j \in Places(p) : Rank(p, j) = Rank(p, i)) = i
<1> DEFINE c == CHOOSE j \in Places(p) : Rank(p, j) = Rank(p, i)
<1>1. c \in Places(p) /\ Rank(p, c) = Rank(p, i)
  OBVIOUS
<1> HIDE DEF c
<1>2. c \in Nat /\ i \in Nat
  BY <1>1 DEF Places
<1>3. Cardinality(Places(p)) \in Nat /\
      Rank(p, i) \in 1 .. Cardinality(Places(p))
  BY RanksAreNumbers
<1>4. Rank(p, i) \in Nat
  BY <1>3
<1>5. ~(c < i) /\ ~(i < c)
  BY <1>1, <1>2, <1>4, RanksDiffer
<1>6. QED
  BY <1>2, <1>5 DEF c

\* Every rank has a place: the ranks map the places one to one into as many
\* numbers.
LEMMA RankHasPlace ==
    ASSUME NEW p \in Seq(STRING), NEW k \in 1 .. Cardinality(Places(p))
    PROVE  \E i \in Places(p) : Rank(p, i) = k
<1> DEFINE n == Cardinality(Places(p))
           f == [i \in Places(p) |-> Rank(p, i)]
<1>1. n \in Nat /\ \A i \in Places(p) : Rank(p, i) \in 1 .. n
  BY RanksAreNumbers
<1>2. ASSUME NEW i \in Places(p), NEW j \in Places(p), f[i] = f[j]
      PROVE  i = j
  <2>1. (CHOOSE l \in Places(p) : Rank(p, l) = Rank(p, i)) = i
    BY PlaceOfRank
  <2>2. (CHOOSE l \in Places(p) : Rank(p, l) = Rank(p, j)) = j
    BY PlaceOfRank
  <2>3. QED
    BY <1>2, <2>1, <2>2
<1>3. f \in [Places(p) -> 1 .. n]
  BY <1>1
<1>4. f \in Injection(Places(p), 1 .. n)
  BY <1>2, <1>3 DEF Injection, IsInjective
<1>5. IsFiniteSet(1 .. n) /\ Cardinality(1 .. n) = n
  BY <1>1, FS_Interval
<1>6. f \in Surjection(Places(p), 1 .. n)
  BY <1>4, <1>5, FS_Injection
<1>7. PICK i \in Places(p) : f[i] = k
  BY <1>6 DEF Surjection
<1>8. QED
  BY <1>7

\* The arguments cut out of a filled pattern are those put into it.
LEMMA ArgumentsOfFill ==
    ASSUME NEW p \in Seq(STRING), NEW args \in Seq(Texts),
           Len(args) = Cardinality(Places(p))
    PROVE  Arguments(p, Fill(p, args)) = args
<1> DEFINE n == Cardinality(Places(p))
           At(k) == CHOOSE i \in Places(p) : Rank(p, i) = k
<1>1. ASSUME NEW k \in 1 .. n
      PROVE  Fill(p, args)[At(k)] = args[k]
  <2>1. At(k) \in Places(p) /\ Rank(p, At(k)) = k
    BY RankHasPlace
  <2> HIDE DEF At
  <2>2. QED
    BY <2>1 DEF Fill, Places
<1>2. Arguments(p, Fill(p, args)) = [k \in 1 .. n |-> Fill(p, args)[At(k)]]
  BY DEF Arguments
<1>3. args = [k \in 1 .. n |-> args[k]]
  OBVIOUS
<1> HIDE DEF n, At
<1>4. QED
  BY <1>1, <1>2, <1>3

\* A path that matches a pattern is the pattern filled with its arguments.
LEMMA FillOfArguments ==
    ASSUME NEW p \in Seq(STRING), NEW path \in Seq(Texts), Matches(p, path)
    PROVE  Fill(p, Arguments(p, path)) = path
<1> DEFINE a == Arguments(p, path)
<1>1. Len(p) = Len(path) /\ \A i \in DOMAIN path : p[i] \in {"*", path[i]}
  BY DEF Matches
<1>2. ASSUME NEW i \in DOMAIN p, p[i] = "*"
      PROVE  a[Rank(p, i)] = path[i]
  <2>1. i \in Places(p)
    BY <1>2 DEF Places
  <2>2. Rank(p, i) \in 1 .. Cardinality(Places(p))
    BY <2>1, RanksAreNumbers
  <2>3. (CHOOSE j \in Places(p) : Rank(p, j) = Rank(p, i)) = i
    BY <2>1, PlaceOfRank
  <2>4. a[Rank(p, i)] =
          path[CHOOSE j \in Places(p) : Rank(p, j) = Rank(p, i)]
    BY <2>2 DEF Arguments
  <2>5. QED
    BY <2>3, <2>4
<1> HIDE DEF a
<1>3. Fill(p, a) = [i \in DOMAIN p |-> path[i]]
  BY <1>1, <1>2 DEF Fill
<1>4. QED
  BY <1>1, <1>3 DEF a

\* An argument is what stands at its place.
LEMMA ArgumentAtPlace ==
    ASSUME NEW p \in Seq(STRING), NEW path \in Seq(Texts),
           NEW i \in Places(p)
    PROVE  /\ Rank(p, i) \in DOMAIN Arguments(p, path)
           /\ Arguments(p, path)[Rank(p, i)] = path[i]
<1>1. Rank(p, i) \in 1 .. Cardinality(Places(p))
  BY RanksAreNumbers
<1>2. (CHOOSE j \in Places(p) : Rank(p, j) = Rank(p, i)) = i
  BY PlaceOfRank
<1>3. QED
  BY <1>1, <1>2 DEF Arguments

-----------------------------------------------------------------------------
(* Escaping.                                                               *)

Escaped(args) == [i \in DOMAIN args |-> PathEscape(args[i])]

\* What escaping makes of an identifier, and that unescaping undoes it.
LEMMA EscapeOne ==
    ASSUME NEW text \in STRING, text \notin {"a%2Fb", "%2541"}
    PROVE  /\ PathEscape(text) \in Texts
           /\ PathUnescape(PathEscape(text)) = text
           /\ PathEscape(text) = "empty" <=> text = "empty"
           /\ PathEscape(text) \in Confusing <=> text \in Confusing
           /\ PathEscape(text) = "collections" <=> text = "collections"
<1>1. CASE text = "a/b"
  <2>1. PathEscape("a/b") = "a%2Fb"
    BY DEF PathEscape
  <2>2. PathUnescape("a%2Fb") = "a/b"
    BY DEF PathUnescape
  <2>3. PathEscape(text) = "a%2Fb" /\ PathUnescape(PathEscape(text)) = text
    BY <1>1, <2>1, <2>2
  <2>4. QED
    BY <1>1, <2>3 DEF Confusing, Texts
<1>2. CASE text = "%41"
  <2>1. PathEscape("%41") = "%2541"
    BY DEF PathEscape
  <2>2. PathUnescape("%2541") = "%41"
    BY DEF PathUnescape
  <2>3. PathEscape(text) = "%2541" /\ PathUnescape(PathEscape(text)) = text
    BY <1>2, <2>1, <2>2
  <2>4. QED
    BY <1>2, <2>3 DEF Confusing, Texts
<1>3. CASE text \notin {"a/b", "%41"}
  <2>1. PathEscape(text) = text
    BY <1>3 DEF PathEscape
  <2>2. PathUnescape(text) = text
    BY <1>3 DEF PathUnescape
  <2>3. QED
    BY <1>3, <2>1, <2>2 DEF Texts
<1>4. QED
  BY <1>1, <1>2, <1>3

\* A pattern filled with its arguments is a path of the same length.
LEMMA FillIsPath ==
    ASSUME NEW p \in Seq(STRING), NEW args \in Seq(Texts),
           Len(args) = Cardinality(Places(p))
    PROVE  Fill(p, args) \in Seq(Texts) /\ Len(Fill(p, args)) = Len(p)
<1>1. ASSUME NEW i \in DOMAIN p, p[i] = "*"
      PROVE  args[Rank(p, i)] \in Texts
  BY <1>1, RankOfPlace
<1>2. \A i \in DOMAIN p : p[i] \in Texts
  BY DEF Texts
<1>3. \A i \in 1 .. Len(p) : Fill(p, args)[i] \in Texts
  BY <1>1, <1>2 DEF Fill
<1>4. Fill(p, args) = [i \in 1 .. Len(p) |-> Fill(p, args)[i]]
  BY DEF Fill
<1>5. QED
  BY <1>3, <1>4

\* The path the router sees is the route filled with the identifiers, or with
\* what escaping makes of them; decode<Op>Params gets the identifiers back in
\* either case.
LEMMA PathSeen ==
    ASSUME NEW p \in Patterns, NEW args \in Seq(STRING),
           Len(args) = Cardinality(Places(p)),
           \A i \in DOMAIN args : args[i] \notin {"a%2Fb", "%2541"}
    PROVE  \E seen \in Seq(Texts) :
              /\ Len(seen) = Len(args)
              /\ Elem(Fill(p, Escaped(args))) = Fill(p, seen)
              /\ (IF HasRawPath(Fill(p, Escaped(args)))
                  THEN UnescapeAll(seen) ELSE seen) = args
              /\ \A i \in DOMAIN args :
                    /\ seen[i] = "empty" <=> args[i] = "empty"
                    /\ seen[i] \in Confusing <=> args[i] \in Confusing
                    /\ seen[i] = "collections" <=> args[i] = "collections"
<1> DEFINE e == Escaped(args)
           path == Fill(p, e)
<1>1. p \in Seq(STRING)
  BY PatternsAssumption
<1>2. \A i \in DOMAIN args :
        /\ e[i] \in Texts /\ PathUnescape(e[i]) = args[i]
        /\ e[i] = "empty" <=> args[i] = "empty"
        /\ e[i] \in Confusing <=> args[i] \in Confusing
        /\ e[i] = "collections" <=> args[i] = "collections"
  <2>1. ASSUME NEW i \in DOMAIN args
        PROVE  /\ e[i] = PathEscape(args[i]) /\ args[i] \in STRING
               /\ args[i] \notin {"a%2Fb", "%2541"}
    BY DEF Escaped
  <2> HIDE DEF e
  <2>2. ASSUME NEW i \in DOMAIN args
        PROVE  /\ PathEscape(args[i]) \in Texts
               /\ PathUnescape(PathEscape(args[i])) = args[i]
               /\ PathEscape(args[i]) = "empty" <=> args[i] = "empty"
               /\ PathEscape(args[i]) \in Confusing <=> args[i] \in Confusing
               /\ PathEscape(args[i]) = "collections"
                     <=> args[i] = "collections"
    <3> DEFINE t == args[i]
    <3>1. t \in STRING /\ t \notin {"a%2Fb", "%2541"}
      BY <2>1
    <3> HIDE DEF t
    <3>2. /\ PathEscape(t) \in Texts /\ PathUnescape(PathEscape(t)) = t
          /\ PathEscape(t) = "empty" <=> t = "empty"
          /\ PathEscape(t) \in Confusing <=> t \in Confusing
          /\ PathEscape(t) = "collections" <=> t = "collections"
      BY <3>1, EscapeOne
    <3>3. QED
      BY <3>2 DEF t
  <2>3. QED
    BY <2>1, <2>2
<1>3. e = [i \in 1 .. Len(args) |-> e[i]]
  BY DEF Escaped
<1>4. e \in Seq(Texts) /\ Len(e) = Len(args)
  <2> HIDE DEF e
  <2> QED
    BY <1>2, <1>3
<1> HIDE DEF e
<1>5. args \in Seq(Texts)
  <2>1. \A i \in 1 .. Len(args) : args[i] \in Texts
    BY DEF Texts
  <2>2. QED
    BY <2>1
<1>6. CASE HasRawPath(path)
  <2>1. Elem(path) = path
    BY <1>6 DEF Elem
  <2>2. UnescapeAll(e) = [i \in 1 .. Len(args) |-> PathUnescape(e[i])]
    BY <1>4 DEF UnescapeAll
  <2>3. UnescapeAll(e) = args
    BY <1>2, <2>2
  <2> QED
    BY <1>2, <1>4, <1>6, <2>1, <2>3 DEF e
<1>7. CASE ~HasRawPath(path)
  <2>1. Elem(path) = UnescapeAll(path)
    BY <1>7 DEF Elem
  <2>2. DOMAIN path = DOMAIN p
    BY DEF Fill
  <2>3. ASSUME NEW i \in DOMAIN p
        PROVE  PathUnescape(path[i]) = Fill(p, args)[i]
    <3>1. CASE p[i] = "*"
      <4>1. Rank(p, i) \in DOMAIN args
        BY <1>1, <3>1, RankOfPlace
      <4>2. path[i] = e[Rank(p, i)] /\ Fill(p, args)[i] = args[Rank(p, i)]
        BY <3>1 DEF Fill
      <4>3. QED
        BY <1>2, <4>1, <4>2
    <3>2. CASE p[i] # "*"
      <4>1. path[i] = p[i] /\ Fill(p, args)[i] = p[i]
        BY <3>2 DEF Fill
      <4>2. p[i] \notin {"a%2Fb", "%2541", "%41"}
        BY WordsAssumption
      <4>3. PathUnescape(p[i]) = p[i]
        BY <4>2 DEF PathUnescape
      <4>4. QED
        BY <4>1, <4>3
    <3>3. QED
      BY <3>1, <3>2
  <2> HIDE DEF path
  <2>4. UnescapeAll(path) = [i \in DOMAIN p |-> Fill(p, args)[i]]
    BY <2>2, <2>3 DEF UnescapeAll
  <2>5. Fill(p, args) = [i \in DOMAIN p |-> Fill(p, args)[i]]
    BY DEF Fill
  <2>6. Elem(path) = Fill(p, args)
    BY <2>1, <2>4, <2>5
  <2> QED
    BY <1>5, <1>7, <2>6 DEF path, e
<1>8. QED
  BY <1>6, <1>7

-----------------------------------------------------------------------------
(* The search of the tree.                                                 *)

\* A set of numbers that is not empty has a least one.
LEMMA LeastNumber ==
    ASSUME NEW S \in SUBSET Nat, S # {}
    PROVE  \E x \in S : \A y \in S : x <= y
<1> DEFINE R == OpToRel(<, Nat)
<1>1. IsWellFoundedOn(R, Nat)
  BY NatLessThanWellFounded
<1>2. \A x, y \in Nat : x < y => <<x, y>> \in R
  BY DEF OpToRel
<1> HIDE DEF R
<1>3. PICK x \in S : \A y \in S : ~ (<<y, x>> \in R)
  BY <1>1, WFMin
<1>4. ASSUME NEW y \in S PROVE x <= y
  <2>1. x \in Nat /\ y \in Nat
    OBVIOUS
  <2>2. ~ (y < x)
    BY <1>2, <1>3, <2>1
  <2>3. QED
    BY <2>1, <2>2
<1>5. QED
  BY <1>4

\* A strict total order, as a set of pairs.
IsStrictOrder(R, S) ==
    /\ \A x \in S : <<x, x>> \notin R
    /\ \A x, y, z \in S : <<x, y>> \in R /\ <<y, z>> \in R => <<x, z>> \in R
    /\ \A x, y \in S : x # y => <<x, y>> \in R \/ <<y, x>> \in R

\* A finite set with a strict total order has a first element: take an element
\* with a smallest set of elements before it.
LEMMA FirstOfFinite ==
    ASSUME NEW S, IsFiniteSet(S), S # {}, NEW R, IsStrictOrder(R, S)
    PROVE  \E x \in S : \A y \in S \ {x} : <<x, y>> \in R
<1> DEFINE Before(x) == {y \in S : <<y, x>> \in R}
           W == {Before(x) : x \in S}
<1>1. IsWellFoundedOn(StrictSubsetOrdering(S), SUBSET S)
  BY FS_StrictSubsetOrderingWellFounded, FS_FiniteSubsetsOfFinite
<1>2. \A x \in S : Before(x) \in SUBSET S
  OBVIOUS
<1>3. \A x, y \in S :
        <<y, x>> \in R => /\ Before(y) \subseteq Before(x)
                         /\ y \in Before(x) /\ y \notin Before(y)
  BY DEF IsStrictOrder
<1> HIDE DEF Before
<1>4. W \subseteq SUBSET S
  BY <1>2
<1>5. W # {}
  OBVIOUS
<1>6. PICK w \in W : \A v \in W : <<v, w>> \notin StrictSubsetOrdering(S)
  <2> HIDE DEF W
  <2> QED
    BY <1>1, <1>4, <1>5, WFMin
<1>7. PICK x \in S : w = Before(x)
  OBVIOUS
<1>8. ASSUME NEW y \in S, <<y, x>> \in R PROVE FALSE
  <2>1. Before(y) \in W /\ Before(y) \in SUBSET S /\ w \in SUBSET S
    BY <1>2, <1>7
  <2>2. Before(y) \subseteq w /\ Before(y) # w
    BY <1>3, <1>7, <1>8
  <2> HIDE DEF W
  <2>3. <<Before(y), w>> \in StrictSubsetOrdering(S)
    BY <2>1, <2>2 DEF StrictSubsetOrdering
  <2>4. QED
    BY <1>6, <2>1, <2>3
<1>9. QED
  BY <1>8 DEF IsStrictOrder

\* TriedBefore is a strict order on patterns ...
LEMMA TriedBeforeIsTransitive ==
    ASSUME NEW p \in Seq(STRING), NEW q \in Seq(STRING), NEW r \in Seq(STRING),
           TriedBefore(p, q), TriedBefore(q, r)
    PROVE  TriedBefore(p, r)
<1>1. PICK i \in DOMAIN p \cap DOMAIN q :
        /\ p[i] # "*" /\ q[i] = "*"
        /\ \A l \in 1 .. i - 1 : (p[l] = "*") = (q[l] = "*")
  BY DEF TriedBefore
<1>2. PICK j \in DOMAIN q \cap DOMAIN r :
        /\ q[j] # "*" /\ r[j] = "*"
        /\ \A l \in 1 .. j - 1 : (q[l] = "*") = (r[l] = "*")
  BY DEF TriedBefore
<1>3. i \in Nat \ {0} /\ j \in Nat \ {0} /\ i # j
  BY <1>1, <1>2
<1>4. CASE i < j
  <2>1. i \in DOMAIN r /\ i \in 1 .. j - 1
    BY <1>3, <1>4
  <2>2. r[i] = "*"
    BY <1>1, <1>2, <2>1
  <2>3. \A l \in 1 .. i - 1 : l \in 1 .. j - 1
    BY <1>3, <1>4
  <2>4. \A l \in 1 .. i - 1 : (p[l] = "*") = (r[l] = "*")
    BY <1>1, <1>2, <2>3
  <2>5. QED
    BY <1>1, <2>1, <2>2, <2>4 DEF TriedBefore
<1>5. CASE j < i
  <2>1. j \in DOMAIN p /\ j \in 1 .. i - 1
    BY <1>3, <1>5
  <2>2. p[j] # "*"
    BY <1>1, <1>2, <2>1
  <2>3. \A l \in 1 .. j - 1 : l \in 1 .. i - 1
    BY <1>3, <1>5
  <2>4. \A l \in 1 .. j - 1 : (p[l] = "*") = (r[l] = "*")
    BY <1>1, <1>2, <2>3
  <2>5. QED
    BY <1>2, <2>1, <2>2, <2>4 DEF TriedBefore
<1>6. QED
  BY <1>3, <1>4, <1>5

\* ... that puts no pattern before itself ...
LEMMA TriedBeforeIsIrreflexive ==
    ASSUME NEW p
    PROVE  ~TriedBefore(p, p)
BY DEF TriedBefore

\* ... and leaves no two patterns that match the same path unordered.
LEMMA TriedBeforeIsTotal ==
    ASSUME NEW p \in Seq(STRING), NEW q \in Seq(STRING), p # q,
           NEW path \in Seq(Texts), Matches(p, path), Matches(q, path)
    PROVE  TriedBefore(p, q) \/ TriedBefore(q, p)
<1>1. /\ Len(p) = Len(path) /\ Len(q) = Len(path)
      /\ \A i \in 1 .. Len(path) :
            p[i] \in {"*", path[i]} /\ q[i] \in {"*", path[i]}
  BY DEF Matches
<1> DEFINE D == {i \in 1 .. Len(path) : (p[i] = "*") # (q[i] = "*")}
<1>2. D # {}
  <2>1. SUFFICES ASSUME D = {} PROVE FALSE
    OBVIOUS
  <2>2. \A i \in 1 .. Len(path) : p[i] = q[i]
    BY <1>1, <2>1
  <2>3. QED
    BY <1>1, <2>2
<1>3. D \in SUBSET Nat
  OBVIOUS
<1>4. PICK i \in D : \A j \in D : i <= j
  <2> HIDE DEF D
  <2> QED
    BY <1>2, <1>3, LeastNumber
<1>5. i \in DOMAIN p \cap DOMAIN q
  BY <1>1
<1>6. \A j \in 1 .. i - 1 : (p[j] = "*") = (q[j] = "*")
  <2>1. ASSUME NEW j \in 1 .. i - 1 PROVE j \in 1 .. Len(path) /\ ~(i <= j)
    OBVIOUS
  <2>2. QED
    BY <1>4, <2>1
<1>7. QED
  BY <1>5, <1>6 DEF TriedBefore

\* The path that is left when the prefix is lost: one segment less.
LEMMA PathWithoutFork ==
    ASSUME NEW path \in Seq(Texts), ForkPrefixLost(path)
    PROVE  /\ WithoutFork(path) \in Seq(Texts)
           /\ Len(WithoutFork(path)) = Len(path) - 1
           /\ \A i \in 3 .. Len(path) : WithoutFork(path)[i - 1] = path[i]
<1>1. Len(path) >= 4 /\ path[1] = "collections"
  BY DEF ForkPrefixLost
<1>2. "collections" \in Texts
  BY <1>1
<1> DEFINE rest == SubSeq(path, 3, Len(path))
<1>3. /\ rest \in Seq(Texts) /\ Len(rest) = Len(path) - 2
      /\ \A i \in 1 .. Len(path) - 2 : rest[i] = path[i + 2]
  BY <1>1
<1>4. WithoutFork(path) = <<"collections">> \o rest
  BY DEF WithoutFork
<1> HIDE DEF rest
<1>5. <<"collections">> \in Seq(Texts) /\ Len(<<"collections">>) = 1
  BY <1>2
<1>6. \A i \in 3 .. Len(path) : WithoutFork(path)[i - 1] = rest[i - 2]
  BY <1>1, <1>3, <1>4, <1>5
<1>7. \A i \in 3 .. Len(path) : i - 2 \in 1 .. Len(path) - 2
  BY <1>1
<1>8. QED
  BY <1>1, <1>3, <1>4, <1>5, <1>6, <1>7

\* What the search finds are patterns, each matching the path or, if the prefix
\* is lost, what is left of it.
LEMMA FoundMatches ==
    ASSUME NEW path \in Seq(Texts), NEW p \in DOMAIN Found(path)
    PROVE  /\ p \in Patterns
           /\ Found(path)[p] \in Seq(Texts)
           /\ Matches(p, Found(path)[p])
           /\ \/ Found(path)[p] = path
              \/ ForkPrefixLost(path) /\ Found(path)[p] = WithoutFork(path)
           /\ ForkPrefixLost(path) =>
                 \/ p[1] = "collections" /\ Found(path)[p] = WithoutFork(path)
                 \/ p[1] = "*" /\ Found(path)[p] = path
<1> DEFINE leaves == {q \in DOMAIN Leaves : Matches(q, path)}
           others == {q \in leaves : q[1] = "*"}
           behind == {q \in DOMAIN Leaves :
                        /\ Matches(q, WithoutFork(path))
                        /\ q[1] = "collections" /\ q[2] = "*"}
<1>1. CASE ForkPrefixLost(path)
  <2>1. Found(path) = [q \in behind \cup others |->
                         IF q \in behind THEN WithoutFork(path) ELSE path]
    BY <1>1 DEF Found
  <2>2. WithoutFork(path) \in Seq(Texts)
    BY <1>1, PathWithoutFork
  <2>3. CASE p \in behind
    BY <1>1, <2>1, <2>2, <2>3 DEF Patterns
  <2>4. CASE p \in others /\ p \notin behind
    BY <1>1, <2>1, <2>4 DEF Patterns
  <2>5. QED
    BY <2>1, <2>3, <2>4
<1>2. CASE ~ForkPrefixLost(path)
  BY <1>2 DEF Found, Patterns
<1>3. QED
  BY <1>1, <1>2

\* One of the patterns found is tried first.
LEMMA BestIsFound ==
    ASSUME NEW path \in Seq(Texts), DOMAIN Found(path) # {}
    PROVE  /\ Best(Found(path)) \in DOMAIN Found(path)
           /\ \A q \in DOMAIN Found(path) \ {Best(Found(path))} :
                 TriedBefore(Best(Found(path)), q)
<1> DEFINE S == DOMAIN Found(path)
           R == {e \in S \X S : TriedBefore(e[1], e[2])}
<1>1. \A p \in S :
        p \in Patterns /\ p \in Seq(STRING) /\ 1 \in DOMAIN p
  <2>1. ASSUME NEW p \in Patterns
        PROVE  p \in Seq(STRING) /\ 1 \in DOMAIN p
    BY PatternsAssumption
  <2>2. QED
    BY <2>1, FoundMatches
<1>2. IsFiniteSet(S)
  <2>1. S \in SUBSET Patterns
    BY <1>1
  <2>2. QED
    BY <2>1, PatternsAssumption, FS_Subset
<1>3. \A p, q \in S : <<p, q>> \in R <=> TriedBefore(p, q)
  OBVIOUS
<1> HIDE DEF R
<1>4. \A p \in S : <<p, p>> \notin R
  BY <1>3, TriedBeforeIsIrreflexive
<1>5. \A p, q, r \in S : <<p, q>> \in R /\ <<q, r>> \in R => <<p, r>> \in R
  BY <1>1, <1>3, TriedBeforeIsTransitive
<1>6. ASSUME NEW p \in S, NEW q \in S, p # q
      PROVE  TriedBefore(p, q) \/ TriedBefore(q, p)
  <2>1. CASE Found(path)[p] = Found(path)[q]
    <3>1. /\ p \in Seq(STRING) /\ q \in Seq(STRING)
          /\ Found(path)[p] \in Seq(Texts)
          /\ Matches(p, Found(path)[p]) /\ Matches(q, Found(path)[q])
      BY <1>1, FoundMatches
    <3>2. QED
      BY <1>6, <2>1, <3>1, TriedBeforeIsTotal
  <2>2. CASE /\ p[1] # "*" /\ q[1] = "*"
    <3>1. 1 \in DOMAIN p \cap DOMAIN q /\ 1 .. 1 - 1 = {}
      BY <1>1
    <3>2. QED
      BY <2>2, <3>1 DEF TriedBefore
  <2>3. CASE /\ q[1] # "*" /\ p[1] = "*"
    <3>1. 1 \in DOMAIN q \cap DOMAIN p /\ 1 .. 1 - 1 = {}
      BY <1>1
    <3>2. QED
      BY <2>3, <3>1 DEF TriedBefore
  <2>4. /\ \/ Found(path)[p] = path
           \/ ForkPrefixLost(path)
        /\ \/ Found(path)[q] = path
           \/ ForkPrefixLost(path)
        /\ ForkPrefixLost(path) =>
              /\ \/ p[1] = "collections" /\ Found(path)[p] = WithoutFork(path)
                 \/ p[1] = "*" /\ Found(path)[p] = path
              /\ \/ q[1] = "collections" /\ Found(path)[q] = WithoutFork(path)
                 \/ q[1] = "*" /\ Found(path)[q] = path
    BY FoundMatches
  <2>5. "collections" # "*"
    OBVIOUS
  <2>6. CASE ForkPrefixLost(path)
    BY <2>1, <2>2, <2>3, <2>4, <2>5, <2>6
  <2>7. CASE ~ForkPrefixLost(path)
    BY <2>1, <2>4, <2>7
  <2>8. QED
    BY <2>6, <2>7
<1>7. \A p, q \in S : p # q => <<p, q>> \in R \/ <<q, p>> \in R
  BY <1>3, <1>6
<1>8. \E p \in S : \A q \in S \ {p} : <<p, q>> \in R
  <2>1. S # {}
    OBVIOUS
  <2> HIDE DEF S
  <2>2. IsStrictOrder(R, S)
    BY <1>4, <1>5, <1>7 DEF IsStrictOrder
  <2>3. QED
    BY <1>2, <2>1, <2>2, FirstOfFinite
<1>9. \E p \in S : \A q \in S \ {p} : TriedBefore(p, q)
  BY <1>3, <1>8
<1>10. QED
  BY <1>9 DEF Best

\* What Route calls is the leaf of a pattern that matches, with what stands at
\* its places.
LEMMA RouteTaken ==
    ASSUME NEW path \in Seq(Texts), NEW method,
           Route(method, path) \notin {NotFound, NotAllowed}
    PROVE  \E p \in Patterns, cut \in Seq(Texts) :
              /\ Matches(p, cut)
              /\ cut = IF ForkPrefixLost(path) /\ p[1] # "*"
                       THEN WithoutFork(path) ELSE path
              /\ method \in DOMAIN Leaves[p]
              /\ Route(method, path) =
                    [op |-> Leaves[p][method], args |-> Arguments(p, cut)]
<1> DEFINE p == Best(Found(path))
           cut == Found(path)[p]
<1>1. DOMAIN Found(path) # {}
  BY DEF Route
<1>2. p \in DOMAIN Found(path)
  BY <1>1, BestIsFound
<1>3. /\ method \in DOMAIN Leaves[p]
      /\ Route(method, path) =
            [op |-> Leaves[p][method], args |-> Arguments(p, cut)]
  BY <1>1 DEF Route
<1> HIDE DEF p
<1>4. /\ p \in Patterns /\ cut \in Seq(Texts) /\ Matches(p, cut)
      /\ cut = path \/ ForkPrefixLost(path)
      /\ ForkPrefixLost(path) =>
            \/ p[1] = "collections" /\ cut = WithoutFork(path)
            \/ p[1] = "*" /\ cut = path
  BY <1>2, FoundMatches
<1>5. cut = IF ForkPrefixLost(path) /\ p[1] # "*"
            THEN WithoutFork(path) ELSE path
  BY <1>4
<1>6. QED
  BY <1>3, <1>4, <1>5

\* The route of an operation, filled with segments of which none is empty and
\* none confusing, leads to no other handler than its own, which is called with
\* these segments.
LEMMA OwnRoute ==
    ASSUME NEW p \in Patterns, NEW m \in DOMAIN Leaves[p],
           NEW seen \in Seq(Texts), Len(seen) = Cardinality(Places(p)),
           \A i \in DOMAIN seen : seen[i] # "empty",
           NotConfusing(p, seen),
           Route(m, Fill(p, seen)) \notin {NotFound, NotAllowed}
    PROVE  Route(m, Fill(p, seen)) = [op |-> Leaves[p][m], args |-> seen]
<1> DEFINE path == Fill(p, seen)
           leaves == {q \in DOMAIN Leaves : Matches(q, path)}
<1>1. p \in Seq(STRING) /\ Len(p) \in Nat \ {0} /\ Len(p) \in DOMAIN p
  BY PatternsAssumption
<1>2. path \in Seq(Texts) /\ Len(path) = Len(p)
  BY <1>1, FillIsPath
<1>3. ASSUME NEW i \in DOMAIN p
      PROVE  /\ p[i] # "*" => path[i] = p[i]
             /\ path[i] # "empty"
  <2>1. CASE p[i] = "*"
    <3>1. Rank(p, i) \in DOMAIN seen
      BY <1>1, <2>1, RankOfPlace
    <3>2. path[i] = seen[Rank(p, i)]
      BY <2>1 DEF Fill
    <3>3. QED
      BY <2>1, <3>1, <3>2
  <2>2. CASE p[i] # "*"
    <3>1. path[i] = p[i]
      BY <2>2 DEF Fill
    <3>2. QED
      BY <2>2, <3>1, WordsAssumption
  <2>3. QED
    BY <2>1, <2>2
<1> HIDE DEF path
<1>4. DOMAIN path = DOMAIN p
  BY <1>1, <1>2
<1>5. Matches(p, path)
  BY <1>1, <1>2, <1>3, <1>4 DEF Matches
<1>6. Len(path) >= 2 /\ path[1] = "collections" /\ p[2] = "*"
        => path[2] \notin Confusing
  BY DEF NotConfusing, path
<1>7. ~ForkPrefixLost(path)
  <2>1. SUFFICES ASSUME ForkPrefixLost(path) PROVE FALSE
    OBVIOUS
  <2>2. /\ Len(p) >= 4 /\ path[1] = "collections" /\ path[2] = "fork"
        /\ 2 \in DOMAIN p
    BY <1>1, <1>2, <2>1 DEF ForkPrefixLost
  <2>3. p[2] # "fork"
    BY <2>2, WordsAssumption
  <2>4. p[2] = "*"
    BY <1>3, <2>2, <2>3
  <2>5. QED
    BY <1>2, <1>6, <2>2, <2>4 DEF Confusing
<1>8. Found(path) = [q \in leaves |-> path] /\ p \in leaves
  BY <1>5, <1>7 DEF Found, Patterns
<1>9. ASSUME NEW q \in leaves, q # p, m \in DOMAIN Leaves[q]
      PROVE  TriedBefore(p, q)
  <2>1. q \in Patterns /\ Len(q) = Len(p)
    BY <1>2, <1>9 DEF Patterns, Matches
  <2>2. \A i \in DOMAIN p : q[i] \in {"*", path[i]}
    BY <1>4 DEF Matches
  <2>3. ASSUME NEW i \in DOMAIN p
        PROVE  \/ q[i] \in {"*", p[i]}
               \/ /\ p[i] = "*"
                  /\ i = 2 /\ q[1] = "collections" => q[2] \notin Confusing
    <3>1. CASE p[i] # "*"
      BY <1>3, <2>2, <3>1
    <3>2. CASE p[i] = "*" /\ i = 2 /\ q[1] = "collections" /\ q[i] # "*"
      <4>1. path[1] = "collections" /\ path[2] = q[2] /\ Len(path) >= 2
        BY <1>1, <1>2, <2>2, <3>2
      <4>2. QED
        BY <1>6, <3>2, <4>1
    <3>3. QED
      BY <3>1, <3>2
  <2>4. DOMAIN Leaves[p] \cap DOMAIN Leaves[q] # {}
    BY <1>9
  <2>5. QED
    BY <1>9, <2>1, <2>3, <2>4, PrecedenceAssumption
<1>10. Best(Found(path)) = p
  <2> DEFINE b == Best(Found(path))
  <2>1. b \in leaves /\ \A q \in leaves \ {b} : TriedBefore(b, q)
    <3>1. DOMAIN Found(path) = leaves /\ leaves # {}
      BY <1>8
    <3> HIDE DEF leaves
    <3>2. QED
      BY <1>2, <3>1, BestIsFound
  <2>2. m \in DOMAIN Leaves[b]
    BY <1>8 DEF Route, path
  <2> HIDE DEF b
  <2>3. ASSUME b # p PROVE FALSE
    <3>1. TriedBefore(p, b) /\ TriedBefore(b, p)
      BY <1>8, <1>9, <2>1, <2>2, <2>3
    <3>2. b \in Seq(STRING)
      BY <2>1, PatternsAssumption DEF Patterns
    <3>3. TriedBefore(p, p)
      BY <1>1, <3>1, <3>2, TriedBeforeIsTransitive
    <3>4. QED
      BY <3>3, TriedBeforeIsIrreflexive
  <2>4. QED
    BY <2>3 DEF b
<1>11. Found(path)[p] = path /\ DOMAIN Found(path) # {}
  BY <1>8
<1>12. Route(m, path) = [op |-> Leaves[p][m], args |-> Arguments(p, path)]
  BY <1>10, <1>11 DEF Route
<1>13. Arguments(p, path) = seen
  BY <1>1, ArgumentsOfFill DEF path
<1>14. QED
  BY <1>12, <1>13 DEF path

\* An empty segment is an argument of whatever handler the path leads to: no
\* route has an empty segment of its own, and a lost prefix is not empty.
LEMMA EmptyStays ==
    ASSUME NEW p \in Patterns, NEW method,
           NEW seen \in Seq(Texts), Len(seen) = Cardinality(Places(p)),
           NEW k \in DOMAIN seen, seen[k] = "empty",
           NEW to, to = Route(method, Fill(p, seen)),
           to \notin {NotFound, NotAllowed}
    PROVE  \E j \in DOMAIN to.args : to.args[j] = "empty"
<1> DEFINE path == Fill(p, seen)
<1>1. p \in Seq(STRING)
  BY PatternsAssumption
<1>2. path \in Seq(Texts) /\ Len(path) = Len(p)
  BY <1>1, FillIsPath
<1>3. PICK i \in Places(p) : Rank(p, i) = k
  BY <1>1, RankHasPlace
<1>4. i \in 1 .. Len(path) /\ path[i] = "empty"
  BY <1>1, <1>2, <1>3 DEF Fill, Places
<1> HIDE DEF path
<1>5. PICK q \in Patterns, cut \in Seq(Texts) :
        /\ Matches(q, cut)
        /\ cut = path \/ (ForkPrefixLost(path) /\ cut = WithoutFork(path))
        /\ method \in DOMAIN Leaves[q]
        /\ to = [op |-> Leaves[q][method], args |-> Arguments(q, cut)]
  BY <1>2, RouteTaken DEF path
<1>6. \E j \in 1 .. Len(cut) : cut[j] = "empty"
  <2>1. CASE cut = path
    BY <1>4, <2>1
  <2>2. CASE ForkPrefixLost(path) /\ cut = WithoutFork(path)
    <3>1. Len(path) >= 4 /\ path[1] # "empty" /\ path[2] # "empty"
      BY <2>2 DEF ForkPrefixLost
    <3>2. i \in 3 .. Len(path) /\ i - 1 \in 1 .. Len(path) - 1
      BY <1>2, <1>4, <3>1
    <3>3. Len(cut) = Len(path) - 1 /\ cut[i - 1] = path[i]
      BY <1>2, <2>2, <3>2, PathWithoutFork
    <3>4. QED
      BY <1>4, <3>2, <3>3
  <2>3. QED
    BY <1>5, <2>1, <2>2
<1>7. PICK j \in 1 .. Len(cut) : cut[j] = "empty"
  BY <1>6
<1>8. q \in Seq(STRING)
  BY PatternsAssumption
<1>9. j \in Places(q)
  <2>1. Len(q) = Len(cut) /\ q[j] \in {"*", "empty"} /\ j \in DOMAIN q
    BY <1>5, <1>7, <1>8 DEF Matches
  <2>2. q[j] # "empty"
    BY <2>1, WordsAssumption
  <2>3. QED
    BY <2>1, <2>2 DEF Places
<1>10. /\ Rank(q, j) \in DOMAIN Arguments(q, cut)
       /\ Arguments(q, cut)[Rank(q, j)] = "empty"
  BY <1>7, <1>8, <1>9, ArgumentAtPlace
<1>11. QED
  BY <1>5, <1>10

-----------------------------------------------------------------------------
(* The inductive invariant: what each stage leaves behind for the later    *)
(* ones.                                                                   *)

\* The request of a call.
Sent ==
    [method |-> Ours.method,
     path |-> Fill(Ours.path, Escaped(call.args)),
     query |-> Ours.query.required \cup
               (IF call.options THEN Ours.query.optional ELSE {}),
     body |-> Ours.body.type]

Way == Route(wire.method, Elem(wire.path))

\* What a handler is called with.
HandlerArgs ==
    [op |-> matched.op, args |-> Unescaped(matched.args),
     query |-> wire.query \cap (Theirs.params.query.required \cup
                                Theirs.params.query.optional)]

\* The stages before a handler runs, and those after the response is written.
Arriving ==
    {"Send", "Route", "Security", "DecodeParams", "DecodeRequest", "Handle"}
Answered == {"Decode", "Switch", "done"}

CallInv == call.name \in Names /\ call.args \in Lists(call.name)

WireInv == stage \in (Arriving \ {"Send"}) \cup {"EncodeResponse"} \cup Answered
             => wire = Sent

\* The router chose the handler that serves the request.
MatchInv ==
    /\ matched # None => /\ matched = Way
                         /\ Way \notin {NotFound, NotAllowed}
                         /\ stage \notin {"Send", "Route"}
    /\ stage \in {"Security", "DecodeParams", "DecodeRequest", "Handle",
                  "EncodeResponse"} => matched # None

\* Parameters and body have been decoded before the handler is called.
DecodingInv ==
    /\ stage \in {"DecodeRequest", "Handle"}
         => ParamsDecode /\ params = HandlerArgs
    /\ stage = "Handle" => BodyAccepted

RanInv ==
    /\ stage \in Arriving => ran = None
    /\ stage = "EncodeResponse" => ran # None
    /\ ran # None => /\ matched # None /\ ran = HandlerArgs
                     /\ ParamsDecode /\ BodyAccepted

AnswerInv ==
    /\ stage \in Arriving => answer = NoAnswer
    /\ \/ answer = NoAnswer \/ answer.type = "foreign"
       \/ answer.type \in DOMAIN Theirs.encode.status

\* A stage of the server wrote the reply, and no typed response was given up
\* for it ...
ErrorReply ==
    /\ reply.status \in {400, 401, 404, 405, 500, 501}
    /\ reply.body.status = 0
    /\ ran # None => /\ reply.status \in {500, 501}
                     /\ answer = NoAnswer \/ answer.type = "foreign"

\* ... or the encoder of the handler that ran.
TypedReply ==
    /\ ran # None
    /\ answer.type \in DOMAIN Theirs.encode.status
    /\ reply.status = Theirs.encode.status[answer.type]
    /\ reply.body.status \in {0, reply.status}

\* Only a page of the proxy comes without either; nothing has run then.
PageReply ==
    /\ ran = None /\ Intercepted /\ ~reply.json
    /\ reply.status \in {200, 502} /\ reply.body.status = 0

ReplyInv == stage \in Answered => ErrorReply \/ TypedReply \/ PageReply

\* What the generated client has decoded: a declared status, and JSON unless
\* nothing is looked at.
DecodedReply ==
    /\ reply.status \in DOMAIN Ours.decode
    /\ reply.json \/ Ours.decode[reply.status].kind = "nothing"

DecodedInv ==
    /\ decoded # NoAnswer => stage \in {"Switch", "done"}
    /\ decoded # NoAnswer \/ stage = "Switch"
         => DecodedReply /\ decoded.type = Ours.decode[reply.status].type

ResultInv ==
    \/ result = Pending
    \/ result = Plain("DecodeResponse")
    \/ /\ stage = "done" /\ DecodedReply
       /\ result = Switch(Row(call.name), reply)

RTInv ==
    /\ stage \in Arriving \cup {"EncodeResponse"} \cup Answered
    /\ CallInv /\ WireInv /\ MatchInv /\ DecodingInv /\ RanInv
    /\ AnswerInv /\ ReplyInv /\ DecodedInv /\ ResultInv

\* The call starts with nothing done.
LEMMA RTInitInv == RTInit => RTInv
<1> SUFFICES ASSUME RTInit PROVE RTInv
  OBVIOUS
<1>1. stage = "Send" /\ matched = None /\ ran = None /\ answer = NoAnswer
      /\ decoded = NoAnswer /\ result = Pending
  BY DEF RTInit
<1>2. CallInv
  BY DEF RTInit, CallInv
<1>3. QED
  BY <1>1, <1>2 DEF RTInv, WireInv, MatchInv, DecodingInv, RanInv, AnswerInv,
     ReplyInv, DecodedInv, ResultInv, Arriving, Answered

\* What the router and the decoders yield is not mistaken for nothing.
LEMMA RouteIsSome ==
    ASSUME NEW method, NEW path
    PROVE  Route(method, path) # None
<1>1. /\ NotFound # None /\ NotAllowed # None
      /\ \A op, args : [op |-> op, args |-> args] # None
  BY DEF NotFound, NotAllowed, None
<1>2. QED
  BY <1>1 DEF Route

\* What handlers return and what stands for no value differ.
LEMMA HandlerArgsAreSome == HandlerArgs # None
BY DEF HandlerArgs, None

\* ErrorHandler answers under the status it is given, and names none in a body.
LEMMA ErrorWritten ==
    ASSUME NEW status, ErrorHandler(status)
    PROVE  /\ stage' = "Decode"
           /\ reply'.status = status /\ reply'.body.status = 0
BY DEF ErrorHandler, Responds, Body

\* Every stage preserves the invariant.
LEMMA RTNextInv == RTInv /\ [RTNext]_rtvars => RTInv'
<1> SUFFICES ASSUME RTInv, [RTNext]_rtvars PROVE RTInv'
  OBVIOUS
<1>1. CASE Send
  <2>1. CallInv'
    BY <1>1 DEF RTInv, Send, CallInv
  <2>2. WireInv'
    BY <1>1
       DEF RTInv, Send, WireInv, Sent, Ours, Meant, Escaped, Arriving, Answered
  <2>3. MatchInv'
    BY <1>1 DEF RTInv, Send, MatchInv, Way, Arriving, Answered
  <2>4. DecodingInv'
    BY <1>1
       DEF RTInv, Send, DecodingInv, ParamsDecode, HandlerArgs, Unescaped,
           BodyAccepted, Theirs, Arriving, Answered
  <2>5. RanInv'
    BY <1>1
       DEF RTInv, Send, RanInv, ParamsDecode, HandlerArgs, Unescaped,
           BodyAccepted, Theirs, Arriving, Answered
  <2>6. AnswerInv'
    BY <1>1 DEF RTInv, Send, AnswerInv, Theirs, Arriving, Answered
  <2>7. ReplyInv'
    BY <1>1
       DEF RTInv, Send, ReplyInv, ErrorReply, TypedReply, PageReply,
           Intercepted, Theirs, Arriving, Answered
  <2>8. DecodedInv'
    BY <1>1
       DEF RTInv, Send, DecodedInv, DecodedReply, Ours, Meant, Arriving,
           Answered
  <2>9. ResultInv'
    BY <1>1 DEF RTInv, Send, ResultInv, Arriving, Answered
  <2>10. stage' \in Arriving \cup {"EncodeResponse"} \cup Answered
    BY <1>1 DEF Send, Arriving, Answered
  <2>11. QED
    BY <2>1, <2>2, <2>3, <2>4, <2>5, <2>6, <2>7, <2>8, <2>9, <2>10
       DEF RTInv
<1>2. CASE Intercept
  <2>1. PICK status \in {200, 502} :
          Responds(status, FALSE, "page", Body(FALSE, 0, "broken"))
    BY <1>2 DEF Intercept
  <2>2. CallInv'
    BY <1>2 DEF RTInv, Intercept, CallInv
  <2>3. WireInv'
    BY <1>2
       DEF RTInv, Intercept, WireInv, Sent, Ours, Meant, Arriving, Answered
  <2>4. MatchInv'
    BY <1>2 DEF RTInv, Intercept, MatchInv, Way, Arriving, Answered
  <2>5. DecodingInv'
    BY <1>2 DEF RTInv, Intercept, DecodingInv
  <2>6. RanInv'
    BY <1>2 DEF RTInv, Intercept, RanInv, Arriving
  <2>7. AnswerInv'
    BY <1>2 DEF RTInv, Intercept, AnswerInv, Arriving
  <2>8. ReplyInv'
    <3>1. ran' = None
      BY <1>2 DEF RTInv, Intercept, RanInv, Arriving
    <3>2. reply' = [status |-> status, json |-> FALSE, type |-> "page",
                    body |-> Body(FALSE, 0, "broken")]
      BY <2>1 DEF Responds
    <3>3. reply' # None /\ reply'.body.status = 0
      BY <3>2 DEF None, Body
    <3>4. QED
      BY <3>1, <3>2, <3>3 DEF ReplyInv, PageReply, Intercepted
  <2>9. DecodedInv'
    BY <1>2 DEF RTInv, Intercept, DecodedInv, Arriving, Answered
  <2>10. ResultInv'
    BY <1>2 DEF RTInv, Intercept, ResultInv
  <2>11. stage' \in Arriving \cup {"EncodeResponse"} \cup Answered
    BY <1>2 DEF Intercept, Arriving, Answered
  <2>12. QED
    BY <2>2, <2>3, <2>4, <2>5, <2>6, <2>7, <2>8, <2>9, <2>10, <2>11
       DEF RTInv
<1>3. CASE RouteRequest
  <2>1. CallInv'
    BY <1>3 DEF RTInv, RouteRequest, CallInv
  <2>2. WireInv'
    BY <1>3
       DEF RTInv, RouteRequest, WireInv, Sent, Ours, Meant, Arriving, Answered
  <2>3. MatchInv'
    BY <1>3, RouteIsSome
       DEF RTInv, RouteRequest, MatchInv, Way, Arriving, Answered
  <2>4. DecodingInv'
    BY <1>3
       DEF RTInv, RouteRequest, DecodingInv, ParamsDecode, HandlerArgs,
           Unescaped, BodyAccepted, Theirs, Arriving, Answered
  <2>5. RanInv'
    BY <1>3
       DEF RTInv, RouteRequest, RanInv, ParamsDecode, HandlerArgs, Unescaped,
           BodyAccepted, Theirs, Arriving, Answered
  <2>6. AnswerInv'
    BY <1>3 DEF RTInv, RouteRequest, AnswerInv, Theirs, Arriving, Answered
  <2>7. ReplyInv'
    BY <1>3
       DEF RTInv, RouteRequest, ReplyInv, ErrorReply, TypedReply, PageReply,
           Intercepted, Theirs, Responds, Body, RanInv, Arriving, Answered
  <2>8. DecodedInv'
    BY <1>3
       DEF RTInv, RouteRequest, DecodedInv, DecodedReply, Ours, Meant,
           Arriving, Answered
  <2>9. ResultInv'
    BY <1>3 DEF RTInv, RouteRequest, ResultInv, Arriving, Answered
  <2>10. stage' \in Arriving \cup {"EncodeResponse"} \cup Answered
    BY <1>3 DEF RouteRequest, Arriving, Answered
  <2>11. QED
    BY <2>1, <2>2, <2>3, <2>4, <2>5, <2>6, <2>7, <2>8, <2>9, <2>10
       DEF RTInv
<1>4. CASE Secure
  <2>1. CallInv'
    BY <1>4 DEF RTInv, Secure, CallInv, ErrorHandler
  <2>2. WireInv'
    BY <1>4
       DEF RTInv, Secure, WireInv, Sent, Ours, Meant, ErrorHandler, Arriving,
           Answered
  <2>3. MatchInv'
    BY <1>4 DEF RTInv, Secure, MatchInv, Way, ErrorHandler, Arriving, Answered
  <2>4. DecodingInv'
    BY <1>4
       DEF RTInv, Secure, DecodingInv, ParamsDecode, HandlerArgs, Unescaped,
           BodyAccepted, Theirs, ErrorHandler, Arriving, Answered
  <2>5. RanInv'
    BY <1>4
       DEF RTInv, Secure, RanInv, ParamsDecode, HandlerArgs, Unescaped,
           BodyAccepted, Theirs, ErrorHandler, Arriving, Answered
  <2>6. AnswerInv'
    BY <1>4
       DEF RTInv, Secure, AnswerInv, Theirs, ErrorHandler, Arriving, Answered
  <2>7. ReplyInv'
    BY <1>4, ErrorWritten
       DEF RTInv, Secure, ReplyInv, ErrorReply, TypedReply, PageReply,
           Intercepted, Theirs, RanInv, Arriving, Answered
  <2>8. DecodedInv'
    BY <1>4
       DEF RTInv, Secure, DecodedInv, DecodedReply, Ours, Meant, ErrorHandler,
           Arriving, Answered
  <2>9. ResultInv'
    BY <1>4 DEF RTInv, Secure, ResultInv, ErrorHandler, Arriving, Answered
  <2>10. stage' \in Arriving \cup {"EncodeResponse"} \cup Answered
    BY <1>4 DEF Secure, ErrorHandler, Arriving, Answered
  <2>11. QED
    BY <2>1, <2>2, <2>3, <2>4, <2>5, <2>6, <2>7, <2>8, <2>9, <2>10
       DEF RTInv
<1>5. CASE DecodeParams
  <2>1. CallInv'
    BY <1>5 DEF RTInv, DecodeParams, CallInv, ErrorHandler
  <2>2. WireInv'
    BY <1>5
       DEF RTInv, DecodeParams, WireInv, Sent, Ours, Meant, ErrorHandler,
           Arriving, Answered
  <2>3. MatchInv'
    BY <1>5
       DEF RTInv, DecodeParams, MatchInv, Way, ErrorHandler, Arriving, Answered
  <2>4. DecodingInv'
    BY <1>5
       DEF RTInv, DecodeParams, DecodingInv, ParamsDecode, HandlerArgs,
           Unescaped, BodyAccepted, Theirs, ErrorHandler, Arriving, Answered
  <2>5. RanInv'
    BY <1>5
       DEF RTInv, DecodeParams, RanInv, ParamsDecode, HandlerArgs, Unescaped,
           BodyAccepted, Theirs, ErrorHandler, Arriving, Answered
  <2>6. AnswerInv'
    BY <1>5
       DEF RTInv, DecodeParams, AnswerInv, Theirs, ErrorHandler, Arriving,
           Answered
  <2>7. ReplyInv'
    BY <1>5, ErrorWritten
       DEF RTInv, DecodeParams, ReplyInv, ErrorReply, TypedReply, PageReply,
           Intercepted, Theirs, RanInv, Arriving, Answered
  <2>8. DecodedInv'
    BY <1>5
       DEF RTInv, DecodeParams, DecodedInv, DecodedReply, Ours, Meant,
           ErrorHandler, Arriving, Answered
  <2>9. ResultInv'
    BY <1>5
       DEF RTInv, DecodeParams, ResultInv, ErrorHandler, Arriving, Answered
  <2>10. stage' \in Arriving \cup {"EncodeResponse"} \cup Answered
    BY <1>5 DEF DecodeParams, ErrorHandler, Arriving, Answered
  <2>11. QED
    BY <2>1, <2>2, <2>3, <2>4, <2>5, <2>6, <2>7, <2>8, <2>9, <2>10
       DEF RTInv
<1>6. CASE DecodeRequest
  <2>1. CallInv'
    BY <1>6 DEF RTInv, DecodeRequest, CallInv, ErrorHandler
  <2>2. WireInv'
    BY <1>6
       DEF RTInv, DecodeRequest, WireInv, Sent, Ours, Meant, ErrorHandler,
           Arriving, Answered
  <2>3. MatchInv'
    BY <1>6
       DEF RTInv, DecodeRequest, MatchInv, Way, ErrorHandler, Arriving,
           Answered
  <2>4. DecodingInv'
    BY <1>6
       DEF RTInv, DecodeRequest, DecodingInv, ParamsDecode, HandlerArgs,
           Unescaped, BodyAccepted, Theirs, ErrorHandler, Arriving, Answered
  <2>5. RanInv'
    BY <1>6
       DEF RTInv, DecodeRequest, RanInv, ParamsDecode, HandlerArgs, Unescaped,
           BodyAccepted, Theirs, ErrorHandler, Arriving, Answered
  <2>6. AnswerInv'
    BY <1>6
       DEF RTInv, DecodeRequest, AnswerInv, Theirs, ErrorHandler, Arriving,
           Answered
  <2>7. ReplyInv'
    BY <1>6, ErrorWritten
       DEF RTInv, DecodeRequest, ReplyInv, ErrorReply, TypedReply, PageReply,
           Intercepted, Theirs, RanInv, Arriving, Answered
  <2>8. DecodedInv'
    BY <1>6
       DEF RTInv, DecodeRequest, DecodedInv, DecodedReply, Ours, Meant,
           ErrorHandler, Arriving, Answered
  <2>9. ResultInv'
    BY <1>6
       DEF RTInv, DecodeRequest, ResultInv, ErrorHandler, Arriving, Answered
  <2>10. stage' \in Arriving \cup {"EncodeResponse"} \cup Answered
    BY <1>6 DEF DecodeRequest, ErrorHandler, Arriving, Answered
  <2>11. QED
    BY <2>1, <2>2, <2>3, <2>4, <2>5, <2>6, <2>7, <2>8, <2>9, <2>10
       DEF RTInv
<1>7. CASE Handle
  <2>1. CallInv'
    BY <1>7 DEF RTInv, Handle, CallInv
  <2>2. WireInv'
    BY <1>7 DEF RTInv, Handle, WireInv, Sent, Ours, Meant, Arriving, Answered
  <2>3. MatchInv'
    BY <1>7 DEF RTInv, Handle, MatchInv, Way, Arriving, Answered
  <2>4. DecodingInv'
    BY <1>7
       DEF RTInv, Handle, DecodingInv, ParamsDecode, HandlerArgs, Unescaped,
           BodyAccepted, Theirs, Arriving, Answered
  <2>5. RanInv'
    BY <1>7, HandlerArgsAreSome
       DEF RTInv, Handle, RanInv, ParamsDecode, HandlerArgs, Unescaped,
           BodyAccepted, Theirs, DecodingInv, MatchInv, Arriving, Answered
  <2>6. AnswerInv'
    BY <1>7 DEF RTInv, Handle, AnswerInv, Theirs, Arriving, Answered
  <2>7. ReplyInv'
    BY <1>7
       DEF RTInv, Handle, ReplyInv, ErrorReply, TypedReply, PageReply,
           Intercepted, Theirs, Arriving, Answered
  <2>8. DecodedInv'
    BY <1>7
       DEF RTInv, Handle, DecodedInv, DecodedReply, Ours, Meant, Arriving,
           Answered
  <2>9. ResultInv'
    BY <1>7 DEF RTInv, Handle, ResultInv, Arriving, Answered
  <2>10. stage' \in Arriving \cup {"EncodeResponse"} \cup Answered
    BY <1>7 DEF Handle, Arriving, Answered
  <2>11. QED
    BY <2>1, <2>2, <2>3, <2>4, <2>5, <2>6, <2>7, <2>8, <2>9, <2>10
       DEF RTInv
<1>8. CASE HandlerFails
  <2>1. CallInv'
    BY <1>8 DEF RTInv, HandlerFails, CallInv, ErrorHandler
  <2>2. WireInv'
    BY <1>8
       DEF RTInv, HandlerFails, WireInv, Sent, Ours, Meant, ErrorHandler,
           Arriving, Answered
  <2>3. MatchInv'
    BY <1>8
       DEF RTInv, HandlerFails, MatchInv, Way, ErrorHandler, Arriving, Answered
  <2>4. DecodingInv'
    BY <1>8
       DEF RTInv, HandlerFails, DecodingInv, ParamsDecode, HandlerArgs,
           Unescaped, BodyAccepted, Theirs, ErrorHandler, Arriving, Answered
  <2>5. RanInv'
    <3>1. /\ stage = "Handle" /\ stage' = "Decode" /\ ran' = params
          /\ UNCHANGED <<call, wire, matched>>
      BY <1>8 DEF HandlerFails, ErrorHandler
    <3>2. /\ matched # None /\ params = HandlerArgs
          /\ ParamsDecode /\ BodyAccepted
      BY <3>1 DEF RTInv, MatchInv, DecodingInv
    <3>3. HandlerArgs' = HandlerArgs /\ ParamsDecode' /\ BodyAccepted'
      BY <3>1, <3>2
         DEF HandlerArgs, ParamsDecode, BodyAccepted, Unescaped, Theirs
    <3>4. QED
      BY <3>1, <3>2, <3>3 DEF RanInv, Arriving
  <2>6. AnswerInv'
    BY <1>8
       DEF RTInv, HandlerFails, AnswerInv, Theirs, ErrorHandler, Arriving,
           Answered
  <2>7. ReplyInv'
    BY <1>8, ErrorWritten
       DEF RTInv, HandlerFails, ReplyInv, ErrorReply, TypedReply, PageReply,
           Intercepted, Theirs, AnswerInv, Arriving, Answered
  <2>8. DecodedInv'
    BY <1>8
       DEF RTInv, HandlerFails, DecodedInv, DecodedReply, Ours, Meant,
           ErrorHandler, Arriving, Answered
  <2>9. ResultInv'
    BY <1>8
       DEF RTInv, HandlerFails, ResultInv, ErrorHandler, Arriving, Answered
  <2>10. stage' \in Arriving \cup {"EncodeResponse"} \cup Answered
    BY <1>8 DEF HandlerFails, ErrorHandler, Arriving, Answered
  <2>11. QED
    BY <2>1, <2>2, <2>3, <2>4, <2>5, <2>6, <2>7, <2>8, <2>9, <2>10
       DEF RTInv
<1>9. CASE EncodeResponse
  <2>1. CallInv'
    BY <1>9 DEF RTInv, EncodeResponse, CallInv, ErrorHandler
  <2>2. WireInv'
    BY <1>9
       DEF RTInv, EncodeResponse, WireInv, Sent, Ours, Meant, ErrorHandler,
           Arriving, Answered
  <2>3. MatchInv'
    BY <1>9
       DEF RTInv, EncodeResponse, MatchInv, Way, ErrorHandler, Arriving,
           Answered
  <2>4. DecodingInv'
    BY <1>9
       DEF RTInv, EncodeResponse, DecodingInv, ParamsDecode, HandlerArgs,
           Unescaped, BodyAccepted, Theirs, ErrorHandler, Arriving, Answered
  <2>5. RanInv'
    BY <1>9
       DEF RTInv, EncodeResponse, RanInv, ParamsDecode, HandlerArgs, Unescaped,
           BodyAccepted, Theirs, ErrorHandler, Arriving, Answered
  <2>6. AnswerInv'
    BY <1>9
       DEF RTInv, EncodeResponse, AnswerInv, Theirs, ErrorHandler, Arriving,
           Answered
  <2>7. ReplyInv'
    <3>1. /\ stage = "EncodeResponse" /\ ran # None /\ ran' = ran
          /\ answer' = answer /\ matched' = matched
          /\ \/ answer = NoAnswer \/ answer.type = "foreign"
             \/ answer.type \in DOMAIN Theirs.encode.status
      BY <1>9 DEF RTInv, EncodeResponse, RanInv, AnswerInv
    <3>2. CASE answer.type \in DOMAIN Theirs.encode.status
      <4>1. PICK member \in {0, Theirs.encode.status[answer.type]} :
              Responds(Theirs.encode.status[answer.type],
                       answer.type \notin Theirs.encode.bare, answer.type,
                       Body(answer.valid, member, "object"))
        BY <1>9, <3>2 DEF EncodeResponse
      <4>2. /\ reply'.status = Theirs.encode.status[answer.type]
            /\ reply'.body.status = member
        BY <4>1 DEF Responds, Body
      <4>3. TypedReply'
        BY <3>1, <3>2, <4>1, <4>2 DEF TypedReply, Theirs
      <4>4. QED
        BY <4>3 DEF ReplyInv
    <3>3. CASE answer.type \notin DOMAIN Theirs.encode.status
      <4>1. ErrorHandler(500)
        BY <1>9, <3>3 DEF EncodeResponse
      <4>2. reply'.status = 500 /\ reply'.body.status = 0
        BY <4>1, ErrorWritten
      <4>3. QED
        BY <3>1, <3>3, <4>2 DEF ReplyInv, ErrorReply
    <3>4. QED
      BY <3>2, <3>3
  <2>8. DecodedInv'
    BY <1>9
       DEF RTInv, EncodeResponse, DecodedInv, DecodedReply, Ours, Meant,
           ErrorHandler, Arriving, Answered
  <2>9. ResultInv'
    BY <1>9
       DEF RTInv, EncodeResponse, ResultInv, ErrorHandler, Arriving, Answered
  <2>10. stage' \in Arriving \cup {"EncodeResponse"} \cup Answered
    BY <1>9 DEF EncodeResponse, ErrorHandler, Arriving, Answered
  <2>11. QED
    BY <2>1, <2>2, <2>3, <2>4, <2>5, <2>6, <2>7, <2>8, <2>9, <2>10
       DEF RTInv
<1>10. CASE DecodeTyped
  <2>1. CallInv'
    BY <1>10 DEF RTInv, DecodeTyped, CallInv
  <2>2. WireInv'
    BY <1>10
       DEF RTInv, DecodeTyped, WireInv, Sent, Ours, Meant, Arriving, Answered
  <2>3. MatchInv'
    BY <1>10 DEF RTInv, DecodeTyped, MatchInv, Way, Arriving, Answered
  <2>4. DecodingInv'
    BY <1>10
       DEF RTInv, DecodeTyped, DecodingInv, ParamsDecode, HandlerArgs,
           Unescaped, BodyAccepted, Theirs, Arriving, Answered
  <2>5. RanInv'
    BY <1>10
       DEF RTInv, DecodeTyped, RanInv, ParamsDecode, HandlerArgs, Unescaped,
           BodyAccepted, Theirs, Arriving, Answered
  <2>6. AnswerInv'
    BY <1>10 DEF RTInv, DecodeTyped, AnswerInv, Theirs, Arriving, Answered
  <2>7. ReplyInv'
    BY <1>10
       DEF RTInv, DecodeTyped, ReplyInv, ErrorReply, TypedReply, PageReply,
           Intercepted, Theirs, Arriving, Answered
  <2>8. DecodedInv'
    BY <1>10
       DEF RTInv, DecodeTyped, CanDecode, DecodedInv, DecodedReply, Ours,
           Meant, Arriving, Answered
  <2>9. ResultInv'
    BY <1>10 DEF RTInv, DecodeTyped, ResultInv, Arriving, Answered
  <2>10. stage' \in Arriving \cup {"EncodeResponse"} \cup Answered
    BY <1>10 DEF DecodeTyped, Arriving, Answered
  <2>11. QED
    BY <2>1, <2>2, <2>3, <2>4, <2>5, <2>6, <2>7, <2>8, <2>9, <2>10
       DEF RTInv
<1>11. CASE DecodeFails
  <2>1. CallInv'
    BY <1>11 DEF RTInv, DecodeFails, CallInv
  <2>2. WireInv'
    BY <1>11
       DEF RTInv, DecodeFails, WireInv, Sent, Ours, Meant, Arriving, Answered
  <2>3. MatchInv'
    BY <1>11 DEF RTInv, DecodeFails, MatchInv, Way, Arriving, Answered
  <2>4. DecodingInv'
    BY <1>11
       DEF RTInv, DecodeFails, DecodingInv, ParamsDecode, HandlerArgs,
           Unescaped, BodyAccepted, Theirs, Arriving, Answered
  <2>5. RanInv'
    BY <1>11
       DEF RTInv, DecodeFails, RanInv, ParamsDecode, HandlerArgs, Unescaped,
           BodyAccepted, Theirs, Arriving, Answered
  <2>6. AnswerInv'
    BY <1>11 DEF RTInv, DecodeFails, AnswerInv, Theirs, Arriving, Answered
  <2>7. ReplyInv'
    BY <1>11
       DEF RTInv, DecodeFails, ReplyInv, ErrorReply, TypedReply, PageReply,
           Intercepted, Theirs, Arriving, Answered
  <2>8. DecodedInv'
    BY <1>11
       DEF RTInv, DecodeFails, DecodedInv, DecodedReply, Ours, Meant, Arriving,
           Answered
  <2>9. ResultInv'
    BY <1>11 DEF RTInv, DecodeFails, ResultInv, Arriving, Answered
  <2>10. stage' \in Arriving \cup {"EncodeResponse"} \cup Answered
    BY <1>11 DEF DecodeFails, Arriving, Answered
  <2>11. QED
    BY <2>1, <2>2, <2>3, <2>4, <2>5, <2>6, <2>7, <2>8, <2>9, <2>10
       DEF RTInv
<1>12. CASE SwitchResponse
  <2>1. CallInv'
    BY <1>12 DEF RTInv, SwitchResponse, CallInv
  <2>2. WireInv'
    BY <1>12
       DEF RTInv, SwitchResponse, WireInv, Sent, Ours, Meant, Arriving,
           Answered
  <2>3. MatchInv'
    BY <1>12 DEF RTInv, SwitchResponse, MatchInv, Way, Arriving, Answered
  <2>4. DecodingInv'
    BY <1>12
       DEF RTInv, SwitchResponse, DecodingInv, ParamsDecode, HandlerArgs,
           Unescaped, BodyAccepted, Theirs, Arriving, Answered
  <2>5. RanInv'
    BY <1>12
       DEF RTInv, SwitchResponse, RanInv, ParamsDecode, HandlerArgs, Unescaped,
           BodyAccepted, Theirs, Arriving, Answered
  <2>6. AnswerInv'
    BY <1>12 DEF RTInv, SwitchResponse, AnswerInv, Theirs, Arriving, Answered
  <2>7. ReplyInv'
    BY <1>12
       DEF RTInv, SwitchResponse, ReplyInv, ErrorReply, TypedReply, PageReply,
           Intercepted, Theirs, Arriving, Answered
  <2>8. DecodedInv'
    BY <1>12
       DEF RTInv, SwitchResponse, DecodedInv, DecodedReply, Ours, Meant,
           Arriving, Answered
  <2>9. ResultInv'
    BY <1>12
       DEF RTInv, SwitchResponse, ResultInv, DecodedInv, DecodedReply, Ours,
           Meant, Arriving, Answered
  <2>10. stage' \in Arriving \cup {"EncodeResponse"} \cup Answered
    BY <1>12 DEF SwitchResponse, Arriving, Answered
  <2>11. QED
    BY <2>1, <2>2, <2>3, <2>4, <2>5, <2>6, <2>7, <2>8, <2>9, <2>10
       DEF RTInv
<1>13. CASE UNCHANGED rtvars
  <2>1. /\ CallInv' /\ WireInv' /\ MatchInv' /\ DecodingInv' /\ RanInv'
        /\ AnswerInv'
    BY <1>13
       DEF rtvars, RTInv, CallInv, WireInv, MatchInv, DecodingInv, RanInv,
           AnswerInv, BodyAccepted, HandlerArgs, Meant, Ours, ParamsDecode,
           Sent, Theirs, Unescaped, Way, Arriving, Answered
  <2>2. ReplyInv'
    BY <1>13
       DEF rtvars, RTInv, ReplyInv, ErrorReply, TypedReply, PageReply,
           Intercepted, Theirs, Answered
  <2>3. DecodedInv' /\ ResultInv'
    BY <1>13
       DEF rtvars, RTInv, DecodedInv, DecodedReply, ResultInv, Ours, Meant
  <2>4. stage' \in Arriving \cup {"EncodeResponse"} \cup Answered
    BY <1>13 DEF rtvars, RTInv, Arriving, Answered
  <2>5. QED
    BY <2>1, <2>2, <2>3, <2>4 DEF RTInv
<1>14. QED
  BY <1>2, <1>1, <1>3, <1>4, <1>5, <1>6, <1>7, <1>8, <1>9, <1>10, <1>11, <1>12,
     <1>13 DEF RTNext

-----------------------------------------------------------------------------
(* What the invariant says of a call.                                      *)

\* What the tables say of the operation a caller means.
LEMMA CallFacts ==
    ASSUME CallInv
    PROVE  /\ call.name \in OperationNames
           /\ Ours.path \in Patterns
           /\ Ours.method \in DOMAIN Leaves[Ours.path]
           /\ Leaves[Ours.path][Ours.method] = Meant
           /\ call.args \in Seq(STRING)
           /\ Len(call.args) = Cardinality(Places(Ours.path))
           /\ \A i \in DOMAIN call.args : call.args[i] \notin {"a%2Fb", "%2541"}
<1>1. call.name \in OperationNames /\ call.args \in Lists(call.name)
  BY NamesAssumption DEF CallInv
<1>2. /\ call.args \in Seq(STRING)
      /\ Accepts(CallOf(call.name).args, call.args)
      /\ \A i \in DOMAIN call.args : call.args[i] \notin {"a%2Fb", "%2541"}
  BY NamesAssumption DEF CallInv
<1>3. Len(call.args) = Len(CallOf(call.name).args)
  BY <1>2 DEF Accepts
<1>4. QED
  BY <1>1, <1>2, <1>3, RequestsAssumption DEF Ours, Meant

\* What a handler is called with once the router has chosen it, whatever the
\* identifiers are.
LEMMA Chosen ==
    ASSUME RTInv, matched # None
    PROVE  /\ wire = Sent
           /\ matched = Route(Ours.method, Elem(wire.path))
           /\ matched \notin {NotFound, NotAllowed}
           /\ \E seen \in Seq(Texts) :
                /\ Len(seen) = Len(call.args)
                /\ Elem(wire.path) = Fill(Ours.path, seen)
                /\ Unescaped(seen) = call.args
                /\ \A i \in DOMAIN call.args :
                      /\ seen[i] = "empty" <=> call.args[i] = "empty"
                      /\ seen[i] \in Confusing <=> call.args[i] \in Confusing
                      /\ seen[i] = "collections"
                            <=> call.args[i] = "collections"
<1>1. wire = Sent /\ matched = Way /\ Way \notin {NotFound, NotAllowed}
  BY DEF RTInv, WireInv, MatchInv, Arriving, Answered
<1>2. /\ wire.method = Ours.method
      /\ wire.path = Fill(Ours.path, Escaped(call.args))
  BY <1>1 DEF Sent
<1>3. /\ Ours.path \in Patterns /\ call.args \in Seq(STRING)
      /\ Len(call.args) = Cardinality(Places(Ours.path))
      /\ \A i \in DOMAIN call.args : call.args[i] \notin {"a%2Fb", "%2541"}
  BY CallFacts DEF RTInv
<1>4. PICK seen \in Seq(Texts) :
        /\ Len(seen) = Len(call.args)
        /\ Elem(wire.path) = Fill(Ours.path, seen)
        /\ (IF HasRawPath(wire.path) THEN UnescapeAll(seen) ELSE seen)
             = call.args
        /\ \A i \in DOMAIN call.args :
              /\ seen[i] = "empty" <=> call.args[i] = "empty"
              /\ seen[i] \in Confusing <=> call.args[i] \in Confusing
              /\ seen[i] = "collections" <=> call.args[i] = "collections"
  BY <1>2, <1>3, PathSeen
<1>5. Unescaped(seen) = call.args
  BY <1>4 DEF Unescaped, ElemIsEscaped
<1>6. QED
  BY <1>1, <1>2, <1>4, <1>5 DEF Way

\* Lists of the same length have the same indices.
LEMMA SameIndices ==
    ASSUME NEW S, NEW a \in Seq(S), NEW T, NEW b \in Seq(T), Len(a) = Len(b)
    PROVE  DOMAIN a = DOMAIN b
OBVIOUS

\* Where a handler ran, no identifier is empty.
LEMMA RanWithoutEmpty ==
    ASSUME RTInv, ran # None
    PROVE  \A i \in DOMAIN call.args : call.args[i] # "empty"
<1>1. /\ matched # None /\ ParamsDecode
      /\ \A i \in DOMAIN matched.args : matched.args[i] # "empty"
  BY DEF RTInv, RanInv, ParamsDecode
<1>2. SUFFICES ASSUME NEW k \in DOMAIN call.args, call.args[k] = "empty"
               PROVE  FALSE
  OBVIOUS
<1>3. PICK seen \in Seq(Texts) :
        /\ Len(seen) = Len(call.args)
        /\ Elem(wire.path) = Fill(Ours.path, seen)
        /\ \A i \in DOMAIN call.args :
              seen[i] = "empty" <=> call.args[i] = "empty"
  BY <1>1, Chosen
<1>4. CallInv
  BY DEF RTInv
<1>5. /\ Ours.path \in Patterns /\ call.args \in Seq(STRING)
      /\ Len(seen) = Cardinality(Places(Ours.path))
  BY <1>3, <1>4, CallFacts
<1>6. DOMAIN seen = DOMAIN call.args
  BY <1>3, <1>5, SameIndices
<1>7. k \in DOMAIN seen /\ seen[k] = "empty"
  BY <1>2, <1>3, <1>6
<1>8. /\ matched = Route(Ours.method, Fill(Ours.path, seen))
      /\ matched \notin {NotFound, NotAllowed}
  BY <1>1, <1>3, Chosen
<1>9. \E j \in DOMAIN matched.args : matched.args[j] = "empty"
  BY <1>5, <1>7, <1>8, EmptyStays
<1>10. QED
  BY <1>1, <1>9

\* Where a handler ran and no identifier is reserved, it is the handler of the
\* operation meant, and it got the identifiers back.
LEMMA RanOwn ==
    ASSUME RTInv, ran # None, Ordinary
    PROVE  matched.op = Meant /\ Unescaped(matched.args) = call.args
<1>1. CallInv
  BY DEF RTInv
<1>2. matched # None
  BY DEF RTInv, RanInv
<1>3. PICK seen \in Seq(Texts) :
        /\ Len(seen) = Len(call.args)
        /\ Elem(wire.path) = Fill(Ours.path, seen)
        /\ Unescaped(seen) = call.args
        /\ \A i \in DOMAIN call.args :
              /\ seen[i] = "empty" <=> call.args[i] = "empty"
              /\ seen[i] \in Confusing <=> call.args[i] \in Confusing
              /\ seen[i] = "collections" <=> call.args[i] = "collections"
  BY <1>2, Chosen
<1>4. /\ Ours.path \in Patterns /\ Ours.method \in DOMAIN Leaves[Ours.path]
      /\ Leaves[Ours.path][Ours.method] = Meant /\ call.args \in Seq(STRING)
      /\ Len(seen) = Cardinality(Places(Ours.path))
  BY <1>3, <1>1, CallFacts
<1>5. DOMAIN seen = DOMAIN call.args
  BY <1>3, <1>4, SameIndices
<1>6. \A i \in DOMAIN seen : seen[i] # "empty"
  BY <1>3, <1>5, RanWithoutEmpty
<1>7. NotConfusing(Ours.path, seen)
  <2> DEFINE to   == Fill(Ours.path, seen)
             from == Fill(Ours.path, call.args)
  <2>1. Ours.path \in Seq(STRING)
    BY <1>4, PatternsAssumption
  <2>2. ASSUME NEW i \in DOMAIN Ours.path
        PROVE  /\ to[i] = "collections" <=> from[i] = "collections"
               /\ to[i] \in Confusing <=> from[i] \in Confusing
    <3>1. CASE Ours.path[i] = "*"
      <4>1. Rank(Ours.path, i) \in DOMAIN call.args
        BY <1>4, <1>5, <2>1, <3>1, RankOfPlace
      <4>2. /\ to[i] = seen[Rank(Ours.path, i)]
            /\ from[i] = call.args[Rank(Ours.path, i)]
        BY <3>1 DEF Fill
      <4>3. QED
        BY <1>3, <4>1, <4>2
    <3>2. CASE Ours.path[i] # "*"
      BY <3>2 DEF Fill
    <3>3. QED
      BY <3>1, <3>2
  <2>3. DOMAIN to = DOMAIN Ours.path /\ DOMAIN from = DOMAIN Ours.path
    BY DEF Fill
  <2>4. Len(to) = Len(Ours.path) /\ Len(from) = Len(Ours.path)
    BY <2>1, <2>3
  <2>5. Len(from) >= 2 /\ from[1] = "collections" /\ Ours.path[2] = "*"
          => from[2] \notin Confusing
    BY DEF Ordinary, NotConfusing
  <2> HIDE DEF to, from
  <2>6. Len(to) >= 2 /\ to[1] = "collections" /\ Ours.path[2] = "*"
          => to[2] \notin Confusing
    BY <2>1, <2>2, <2>4, <2>5
  <2>7. QED
    BY <2>6 DEF NotConfusing, to
<1>8. /\ matched = Route(Ours.method, Fill(Ours.path, seen))
      /\ matched \notin {NotFound, NotAllowed}
  BY <1>2, <1>3, Chosen
<1>9. matched = [op |-> Meant, args |-> seen]
  BY <1>4, <1>6, <1>7, <1>8, OwnRoute
<1>10. QED
  BY <1>3, <1>9

-----------------------------------------------------------------------------
(* The theorems.                                                           *)

\* The invariant holds throughout every call.
THEOREM RTInvariant == RTSpec => []RTInv
<1>1. RTInit => RTInv
  BY RTInitInv
<1>2. RTInv /\ [RTNext]_rtvars => RTInv'
  BY RTNextInv
<1>3. QED
  BY <1>1, <1>2, PTL DEF RTSpec

\* Whatever texts a caller passes as identifiers, the handler of the operation
\* meant runs, with these identifiers and with the query that was set.
THEOREM OwnHandler == RTSpec => []OwnHandlerRuns
<1>1. RTInv => OwnHandlerRuns
  <2> SUFFICES ASSUME RTInv, ran # None, Ordinary
               PROVE  /\ ran.op = Meant
                      /\ ran.args = call.args
                      /\ ran.query = Ours.query.required \cup
                           (IF call.options THEN Ours.query.optional ELSE {})
    BY DEF OwnHandlerRuns
  <2>1. ran = HandlerArgs /\ matched # None
    BY DEF RTInv, RanInv
  <2>2. matched.op = Meant /\ Unescaped(matched.args) = call.args
    BY RanOwn
  <2>3. call.name \in OperationNames
    BY CallFacts DEF RTInv
  <2>4. wire.query = Ours.query.required \cup
            (IF call.options THEN Ours.query.optional ELSE {})
    BY <2>1, Chosen DEF Sent
  <2>5. wire.query \subseteq Theirs.params.query.required \cup
                             Theirs.params.query.optional
    <3>1. Ours.query.required \cup Ours.query.optional \subseteq
            Theirs.params.query.required \cup Theirs.params.query.optional
      BY <2>2, <2>3, RequestsAssumption DEF Ours, Theirs, Meant
    <3>2. QED
      BY <2>4, <3>1
  <2>6. ran.query = wire.query
    BY <2>1, <2>5 DEF HandlerArgs
  <2>7. ran.op = matched.op /\ ran.args = Unescaped(matched.args)
    BY <2>1 DEF HandlerArgs
  <2>8. QED
    BY <2>2, <2>4, <2>6, <2>7
<1>2. QED
  BY <1>1, RTInvariant, PTL

\* What the type switch makes of a reply the generated client has decoded: a
\* value only of a 200, an APIError of the status of the reply unless the
\* switch lacks the case.
LEMMA SwitchOfReply ==
    ASSUME NEW op, NEW r, r.status \in Declared(op),
           r.body.status \in {0, r.status}
    PROVE  /\ Switch(op, r).kind = "ok" => r.status = 200
           /\ Switch(op, r).kind = "api"
                => Switch(op, r).status = r.status \/ r.status \in op.unhandled
<1>1. /\ Value.kind = "ok" /\ Plain("Conversion").kind = "plain"
      /\ Empty(r.status).kind = "api" /\ UnexpectedResponse.kind = "api"
      /\ FromProblemDetails(r.body, r.status).kind = "api"
  BY DEF Value, Plain, Empty, FromProblemDetails, UnexpectedResponse, APIError
<1>2. /\ Empty(r.status).status = r.status
      /\ FromProblemDetails(r.body, r.status).status = r.status
  BY DEF Empty, FromProblemDetails, APIError
<1>3. r.status = 200 \/ r.status \in op.empty \/ r.status \in op.problem
        \/ r.status \in op.unhandled
  BY DEF Declared
<1>4. Switch(op, r).kind = "ok" => r.status = 200
  BY <1>1 DEF Switch
<1>5. ASSUME Switch(op, r).kind = "api", r.status \notin op.unhandled
      PROVE  Switch(op, r).status = r.status
  BY <1>1, <1>2, <1>3, <1>5 DEF Switch
<1>6. QED
  BY <1>4, <1>5

\* A result that is no plain error is what the type switch makes of the reply.
LEMMA ResultOfReply ==
    ASSUME RTInv, result.kind \in {"ok", "api"}
    PROVE  /\ stage = "done"
           /\ result = Switch(Row(call.name), reply)
           /\ reply.status \in Declared(Row(call.name))
           /\ reply.json \/ Ours.decode[reply.status].kind = "nothing"
           /\ ErrorReply \/ TypedReply \/ PageReply
<1>1. /\ stage = "done" /\ DecodedReply
      /\ result = Switch(Row(call.name), reply)
  BY DEF RTInv, ResultInv, Pending, Plain
<1>2. DOMAIN Ours.decode \subseteq Declared(Row(call.name))
  <2>1. call.name \in OperationNames
    BY CallFacts DEF RTInv
  <2>2. QED
    BY <2>1, ResponsesAssumption DEF Ours, Meant
<1>3. ErrorReply \/ TypedReply \/ PageReply
  BY <1>1 DEF RTInv, ReplyInv, Answered
<1>4. QED
  BY <1>1, <1>2, <1>3 DEF DecodedReply

\* Only a handler that was called and answered 200 gives the caller a value, or
\* the page of a proxy where nothing is looked at.
LEMMA ValueIsAnswered == RTInv => ValuesComeFromHandlers
<1> SUFFICES ASSUME RTInv, result.kind = "ok"
             PROVE  \/ /\ ran # None
                       /\ answer.type \in DOMAIN Theirs.encode.status
                       /\ Theirs.encode.status[answer.type] = 200
                    \/ Intercepted /\ Ours.decode[200].kind = "nothing"
  BY DEF ValuesComeFromHandlers
<1>1. /\ result = Switch(Row(call.name), reply)
      /\ reply.status \in Declared(Row(call.name))
      /\ reply.json \/ Ours.decode[reply.status].kind = "nothing"
      /\ ErrorReply \/ TypedReply \/ PageReply
  BY ResultOfReply
<1>2. reply.body.status \in {0, reply.status}
  BY <1>1 DEF ErrorReply, TypedReply, PageReply
<1>3. reply.status = 200
  BY <1>1, <1>2, SwitchOfReply
<1>4. TypedReply \/ PageReply
  BY <1>1, <1>3 DEF ErrorReply
<1>5. QED
  BY <1>1, <1>3, <1>4 DEF TypedReply, PageReply

\* Errors of the server's own stages never reach the caller as success, and the
\* page of a proxy only where the document has no schema for it.
THEOREM ValuesFromHandlers == RTSpec => []ValuesComeFromHandlers
BY RTInvariant, ValueIsAnswered, PTL

\* Whichever of the operations an empty identifier is passed to, no handler
\* runs and the server gives the caller no value.
THEOREM EmptyRefused == RTSpec => []EmptyIdentifiersAreRefused
<1>1. RTInv => EmptyIdentifiersAreRefused
  BY RanWithoutEmpty, ValueIsAnswered
     DEF EmptyIdentifiersAreRefused, ValuesComeFromHandlers
<1>2. QED
  BY <1>1, RTInvariant, PTL

\* An APIError carries the status the server wrote, whichever stage wrote it,
\* except where the type switch lacks the case.
THEOREM ErrorsKeepStatus == RTSpec => []ErrorsKeepTheServersStatus
<1>1. RTInv => ErrorsKeepTheServersStatus
  <2> SUFFICES ASSUME RTInv, result.kind = "api"
               PROVE  result.status = reply.status \/
                      reply.status \in Row(call.name).unhandled
    BY DEF ErrorsKeepTheServersStatus
  <2>1. /\ result = Switch(Row(call.name), reply)
        /\ reply.status \in Declared(Row(call.name))
        /\ ErrorReply \/ TypedReply \/ PageReply
    BY ResultOfReply
  <2>2. reply.body.status \in {0, reply.status}
    BY <2>1 DEF ErrorReply, TypedReply, PageReply
  <2>3. QED
    BY <2>1, <2>2, SwitchOfReply
<1>2. QED
  BY <1>1, RTInvariant, PTL

\* The method and the route a handler counts its request under, filled with the
\* arguments it was given, are the request line, or what a lost prefix leaves of
\* it.
THEOREM LabelsNameRequest == RTSpec => []LabelsNameTheRequest
<1>1. RTInv => LabelsNameTheRequest
  <2> DEFINE path == Elem(wire.path)
  <2> SUFFICES ASSUME RTInv, matched # None
               PROVE  /\ Theirs.method = wire.method
                      /\ Fill(Theirs.route, matched.args) =
                           IF ForkPrefixLost(path) /\ Theirs.route[1] # "*"
                           THEN WithoutFork(path) ELSE path
    BY DEF LabelsNameTheRequest
  <2>1. /\ wire = Sent /\ matched = Route(Ours.method, path)
        /\ matched \notin {NotFound, NotAllowed}
    BY Chosen
  <2>2. path \in Seq(Texts)
    <3>1. PICK seen \in Seq(Texts) :
            Len(seen) = Len(call.args) /\ path = Fill(Ours.path, seen)
      BY Chosen
    <3>2. CallInv
      BY DEF RTInv
    <3>3. Ours.path \in Seq(STRING) /\ Len(seen) = Cardinality(Places(Ours.path))
      BY <3>1, <3>2, CallFacts, PatternsAssumption
    <3>4. QED
      BY <3>1, <3>3, FillIsPath
  <2> HIDE DEF path
  <2>3. PICK p \in Patterns, cut \in Seq(Texts) :
          /\ Matches(p, cut)
          /\ cut = IF ForkPrefixLost(path) /\ p[1] # "*"
                   THEN WithoutFork(path) ELSE path
          /\ Ours.method \in DOMAIN Leaves[p]
          /\ matched = [op |-> Leaves[p][Ours.method],
                        args |-> Arguments(p, cut)]
    BY <2>1, <2>2, RouteTaken
  <2>4. Theirs.method = Ours.method /\ Theirs.route = p
    BY <2>3, LeavesAssumption DEF Theirs
  <2>5. wire.method = Ours.method
    BY <2>1 DEF Sent
  <2>6. Fill(p, Arguments(p, cut)) = cut
    BY <2>3, PatternsAssumption, FillOfArguments
  <2>7. QED
    BY <2>3, <2>4, <2>5, <2>6 DEF path
<1>2. QED
  BY <1>1, RTInvariant, PTL

\* A typed response of the handler reaches the type switch with its type; what
\* is not typed reaches it as an error response of the operation or not at all.
THEOREM AnswersKeepType == RTSpec => []AnswersKeepTheirType
<1>1. RTInv => AnswersKeepTheirType
  <2> DEFINE encode == Server[Meant].encode.status
             decode == Client[Meant].decode
  <2> SUFFICES ASSUME RTInv, decoded # NoAnswer, ran # None, Ordinary
               PROVE  \/ decoded.type = answer.type
                      \/ /\ answer.type \notin DOMAIN Theirs.encode.status
                         /\ Theirs.encode.status[decoded.type] >= 500
    BY DEF AnswersKeepTheirType
  <2>1. Theirs = Server[Meant]
    BY RanOwn DEF Theirs
  <2>2. /\ reply.status \in DOMAIN decode
        /\ decoded.type = decode[reply.status].type
        /\ ErrorReply \/ TypedReply
    BY DEF RTInv, DecodedInv, DecodedReply, ReplyInv, PageReply, Answered, Ours
  <2>3. /\ call.name \in OperationNames
        /\ Meant \in DOMAIN Server
    <3>1. CallInv
      BY DEF RTInv
    <3>2. QED
      BY <3>1, CallFacts, LeavesAssumption
  <2>4. /\ \A t \in DOMAIN encode : decode[encode[t]].type = t
        /\ encode[decode[reply.status].type] = reply.status
    BY <2>2, <2>3, ResponsesAssumption DEF Meant
  <2>5. CASE TypedReply
    <3>1. answer.type \in DOMAIN encode /\ reply.status = encode[answer.type]
      BY <2>1, <2>5 DEF TypedReply
    <3>2. QED
      BY <2>2, <2>4, <3>1
  <2>6. CASE ErrorReply
    <3>1. /\ reply.status \in {500, 501}
          /\ answer.type \in {"none", "foreign"}
      BY <2>6 DEF ErrorReply, NoAnswer
    <3>2. answer.type \notin DOMAIN encode
      BY <2>3, <3>1, TypesAssumption
    <3>3. encode[decoded.type] = reply.status
      BY <2>2, <2>4
    <3>4. reply.status >= 500
      BY <3>1
    <3>5. QED
      BY <2>1, <3>2, <3>3, <3>4
  <2>7. QED
    BY <2>2, <2>5, <2>6
<1>2. QED
  BY <1>1, RTInvariant, PTL

=============================================================================
