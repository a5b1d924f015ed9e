-------------------------- MODULE GenOpenApiProofs --------------------------
(***************************************************************************)
(* Proofs about the names and references of the generated document: every  *)
(* declaration has a component of its own, whatever names the services     *)
(* share and in whatever order the files are visited; the references of a  *)
(* file lead to the declarations it imports; and a name that nothing else  *)
(* can take stays the name of its component.                               *)
(***************************************************************************)
EXTENDS GenOpenApi, FiniteSetTheorems, SequenceTheorems, WellFoundedInduction,
        NaturalsInduction, TLAPS

-----------------------------------------------------------------------------
(* The invariant.                                                          *)

\* What names are made of.
Tokens == STRING \cup {"underscore", "stroke", "Schema"}

KeysOf(f) == IF declares[f] = "enum" THEN Keys(f) ELSE TypeKeys(f)

HasUnderscore(n) == \E i \in DOMAIN n : n[i] = "underscore"

\* The keys of a declaration that has its name are all there, and lead to it.
KeysInv ==
    /\ \A k \in DOMAIN declToFinal :
          /\ k[1] \in Modelled /\ Named(k[1])
          /\ declToFinal[k] = FinalName(k[1])
    /\ \A f \in Modelled : Named(f) => KeysOf(f) \subseteq DOMAIN declToFinal

\* Final names are taken, differ, and come from a declared name unless they
\* have a suffix.
NamesInv ==
    /\ IsFiniteSet(usedNames)
    /\ \A f \in Modelled : Named(f) => FinalName(f) \in usedNames
    /\ \A f, g \in Modelled :
          Named(f) /\ Named(g) /\ FinalName(f) = FinalName(g) => f = g
    /\ \A n \in usedNames :
          \/ HasUnderscore(n)
          \/ \E g \in Files : /\ Clean(NameOf(g)) = n
                              /\ declares[g] = "error" \/ Named(g)

\* Before pass 3 the components are those of the enums that have their names.
EnumsInv ==
    /\ DOMAIN errorClassToRef = {}
    /\ \A f \in Modelled :
          declares[f] = "enum" /\ Named(f) =>
            FinalName(f) \in DOMAIN components /\ components[FinalName(f)] = f
    /\ \A n \in DOMAIN components : \E f \in Modelled :
          /\ components[n] = f /\ declares[f] = "enum"
          /\ Named(f) /\ FinalName(f) = n

\* Pass 3 finds the components of all declarations and adds those of errors,
\* each under one class name.
ErrorsInv ==
    /\ \A f \in Modelled :
          FinalName(f) \in DOMAIN components /\ components[FinalName(f)] = f
    /\ \A n \in DOMAIN components :
          \/ \E f \in Modelled : components[n] = f /\ FinalName(f) = n
          \/ /\ components[n] \notin Modelled
             /\ \E c \in DOMAIN errorClassToRef : errorClassToRef[c] = n
    /\ DOMAIN errorClassToRef \subseteq Names
    /\ \A c \in DOMAIN errorClassToRef :
          errorClassToRef[c] \in DOMAIN components
    /\ \A c, d \in DOMAIN errorClassToRef :
          /\ components[errorClassToRef[c]] \notin Modelled
          /\ errorClassToRef[c] = errorClassToRef[d]
          => c = d

GenInv ==
    /\ declares \in [Services \X Names -> Kinds]
    /\ pass \in {1, 2, 3}
    /\ pass # 1 => \A f \in Modelled : Named(f)
    /\ KeysInv
    /\ NamesInv
    /\ DOMAIN components \subseteq usedNames
    /\ IF pass = 3 THEN ErrorsInv ELSE EnumsInv
    /\ OverridesKeepTheirComponent

-----------------------------------------------------------------------------
(* Names.                                                                  *)

\* A set of numbers that is not empty has a least one.
LEMMA LeastNumber ==
    ASSUME NEW S \in SUBSET Nat, S # {}
    PROVE  \E x \in S : \A y \in S : x <= y
<1> DEFINE R == OpToRel(<, Nat)
<1>1. IsWellFoundedOn(R, Nat)
  BY NatLessThanWellFounded
<1>2. \A x, y \in Nat : x < y => <<x, y>> \in R
  BY DEF OpToRel
<1> HIDE DEF R
<1>3. PICK x \in S : \A y \in S : ~ (<<y, x>> \in R)
  BY <1>1, WFMin
<1>4. ASSUME NEW y \in S
      PROVE  x <= y
  <2>1. x \in Nat /\ y \in Nat
    OBVIOUS
  <2>2. ~ (y < x)
    BY <1>2, <1>3, <2>1
  <2>3. QED
    BY <2>1, <2>2
<1>5. QED
  BY <1>4

\* The name of a file is made of tokens, and so is the name without dollars.
LEMMA NamesAreTexts ==
    ASSUME NEW f \in Services \X Names
    PROVE  f[2] \in Seq(Tokens) /\ NameOf(f) \in Seq(Tokens)
<1>1. f[2] \in Seq(STRING)
  BY NamesAssumption
<1>2. f[2] \in Seq(Tokens)
  BY <1>1 DEF Tokens
<1>3. "Schema" \in Tokens
  BY DEF Tokens
<1> HIDE DEF Tokens
<1>4. Append(f[2], "Schema") \in Seq(Tokens)
  BY <1>2, <1>3
<1>5. QED
  BY <1>2, <1>4 DEF NameOf

\* A cleaned name is made of tokens, and contains an underscore only where the
\* preferred one has it or a dollar.
LEMMA CleanNames ==
    ASSUME NEW p \in Seq(Tokens)
    PROVE  /\ Clean(p) \in Seq(Tokens)
           /\ DOMAIN Clean(p) = DOMAIN p
           /\ \A i \in DOMAIN p :
                 Clean(p)[i] = "underscore" => p[i] \in {"underscore", "dollar"}
<1>1. "underscore" \in Tokens
  BY DEF Tokens
<1> HIDE DEF Tokens
<1>2. /\ DOMAIN p = 1 .. Len(p) /\ Len(p) \in Nat
      /\ \A i \in 1 .. Len(p) : p[i] \in Tokens
  OBVIOUS
<1>3. Clean(p) \in [1 .. Len(p) -> Tokens]
  BY <1>1, <1>2 DEF Clean
<1>4. Clean(p) \in Seq(Tokens)
  BY <1>2, <1>3
<1>5. QED
  BY <1>2, <1>4 DEF Clean

\* Suffixed names contain an underscore, and different suffixes give different
\* names.
LEMMA SuffixesDiffer ==
    ASSUME NEW n \in Seq(Tokens), NEW i \in Nat
    PROVE  /\ HasUnderscore(Suffixed(n, i))
           /\ Len(Suffixed(n, i)) = Len(n) + 1 + i
<1> DEFINE strokes == [k \in 1 .. i |-> "stroke"]
           bar == <<"underscore">>
<1>1. "underscore" \in Tokens /\ "stroke" \in Tokens
  BY DEF Tokens
<1> HIDE DEF Tokens
<1>2. strokes \in Seq(Tokens) /\ Len(strokes) = i
  BY <1>1
<1>3. bar \in Seq(Tokens) /\ Len(bar) = 1 /\ bar[1] = "underscore"
  BY <1>1
<1>4. Suffixed(n, i) = (n \o bar) \o strokes
  BY DEF Suffixed
<1> HIDE DEF strokes, bar
<1>5. /\ n \o bar \in Seq(Tokens) /\ Len(n \o bar) = Len(n) + 1
      /\ \A j \in 1 .. Len(n) + 1 :
            (n \o bar)[j] = IF j <= Len(n) THEN n[j] ELSE bar[j - Len(n)]
  <2>1. /\ n \o bar \in Seq(Tokens) /\ Len(n \o bar) = Len(n) + Len(bar)
        /\ \A j \in 1 .. Len(n) + Len(bar) :
              (n \o bar)[j] = IF j <= Len(n) THEN n[j] ELSE bar[j - Len(n)]
    BY <1>3, ConcatProperties
  <2>2. QED
    BY <1>3, <2>1
<1> DEFINE stem == n \o bar
<1>6. /\ stem \o strokes \in Seq(Tokens)
      /\ Len(stem \o strokes) = Len(stem) + i
      /\ \A j \in 1 .. Len(stem) + i :
            (stem \o strokes)[j] =
              IF j <= Len(stem) THEN stem[j] ELSE strokes[j - Len(stem)]
  <2>1. stem \in Seq(Tokens)
    BY <1>5
  <2> HIDE DEF stem
  <2>2. QED
    BY <1>2, <2>1, ConcatProperties
<1> DEFINE l == Len(n)
           all == stem \o strokes
<1>7. l \in Nat
  OBVIOUS
<1>8. Len(stem) = l + 1 /\ stem[l + 1] = "underscore"
  <2>1. stem[l + 1] = bar[(l + 1) - l]
    BY <1>5, <1>7
  <2>2. (l + 1) - l = 1
    BY <1>7
  <2>3. QED
    BY <1>3, <1>5, <2>1, <2>2
<1> HIDE DEF stem, l
<1>9. Len(all) = l + 1 + i /\ DOMAIN all = 1 .. (l + 1 + i)
  BY <1>6, <1>7, <1>8
<1>10. l + 1 \in DOMAIN all /\ all[l + 1] = "underscore"
  BY <1>6, <1>7, <1>8, <1>9
<1>11. Suffixed(n, i) = all
  BY <1>4 DEF stem
<1> HIDE DEF all
<1>12. QED
  BY <1>9, <1>10, <1>11 DEF HasUnderscore, l

\* uniqueName gives a name that is free, and the cleaned name itself if that is
\* free: as many suffixes as there are used names, and one more, cannot all be
\* taken.
LEMMA UniqueNames ==
    ASSUME IsFiniteSet(usedNames), NEW p \in Seq(Tokens)
    PROVE  /\ uniqueName(p) \notin usedNames
           /\ uniqueName(p) = Clean(p) \/ HasUnderscore(uniqueName(p))
           /\ Clean(p) \notin usedNames => uniqueName(p) = Clean(p)
<1> DEFINE n == Clean(p)
           size == Cardinality(usedNames)
           free == {i \in 2 .. size + 2 : Suffixed(n, i) \notin usedNames}
           first == CHOOSE i \in free : \A j \in free : i <= j
<1>1. n \in Seq(Tokens)
  BY CleanNames
<1>2. size \in Nat
  BY FS_CardinalityType
<1>3. uniqueName(p) = IF n \notin usedNames THEN n ELSE Suffixed(n, first)
  BY DEF uniqueName
<1> HIDE DEF n, size
<1>4. free # {}
  <2>1. SUFFICES ASSUME \A i \in 2 .. size + 2 : Suffixed(n, i) \in usedNames
                 PROVE  FALSE
    OBVIOUS
  <2> DEFINE g == [i \in 2 .. size + 2 |-> Suffixed(n, i)]
  <2>2. ASSUME NEW i \in 2 .. size + 2, NEW j \in 2 .. size + 2,
               Suffixed(n, i) = Suffixed(n, j)
        PROVE  i = j
    <3>1. i \in Nat /\ j \in Nat
      BY <1>2
    <3>2. Len(n) + 1 + i = Len(n) + 1 + j
      <4>1. /\ Len(Suffixed(n, i)) = Len(n) + 1 + i
            /\ Len(Suffixed(n, j)) = Len(n) + 1 + j
        BY <1>1, <3>1, SuffixesDiffer
      <4>2. QED
        BY <2>2, <4>1
    <3>3. Len(n) \in Nat
      BY <1>1
    <3>4. QED
      BY <3>1, <3>2, <3>3
  <2>3. g \in Injection(2 .. size + 2, usedNames)
    <3>1. g \in [2 .. size + 2 -> usedNames]
      BY <2>1
    <3>2. QED
      BY <2>2, <3>1 DEF Injection, IsInjective
  <2> HIDE DEF g
  <2>4. Cardinality(2 .. size + 2) = size + 1
    BY <1>2, FS_Interval
  <2>5. Cardinality(2 .. size + 2) <= Cardinality(usedNames)
    BY <2>3, FS_Injection
  <2>6. QED
    BY <1>2, <2>4, <2>5 DEF size
<1>5. free \in SUBSET Nat
  BY <1>2
<1>6. first \in free
  <2> HIDE DEF free
  <2>1. \E i \in free : \A j \in free : i <= j
    BY <1>4, <1>5, LeastNumber
  <2>2. QED
    BY <2>1
<1>7. first \in Nat /\ Suffixed(n, first) \notin usedNames
  BY <1>5, <1>6
<1> HIDE DEF first
<1>8. HasUnderscore(Suffixed(n, first))
  BY <1>1, <1>7, SuffixesDiffer
<1>9. QED
  BY <1>3, <1>7, <1>8 DEF n

-----------------------------------------------------------------------------
(* Pass 1.                                                                 *)

\* While the declarations stay, so do the files and what they are called.
LEMMA FilesStay ==
    ASSUME declares' = declares
    PROVE  /\ Files' = Files /\ Modelled' = Modelled
           /\ \A f : NameOf(f)' = NameOf(f) /\ KeysOf(f)' = KeysOf(f)
<1>1. Files' = Files
  BY DEF Files
<1>2. Modelled' = Modelled
  BY <1>1 DEF Modelled
<1>3. \A f : NameOf(f)' = NameOf(f)
  BY DEF NameOf
<1>4. \A f : Keys(f)' = Keys(f) /\ TypeKeys(f)' = TypeKeys(f)
  BY <1>3 DEF Keys, TypeKeys
<1>5. \A f : KeysOf(f)' = KeysOf(f)
  BY <1>4 DEF KeysOf
<1>6. QED
  BY <1>1, <1>2, <1>3, <1>5

\* The keys of a declaration are keys of its file, and its name is one.
LEMMA KeysNameTheFile ==
    ASSUME NEW f
    PROVE  /\ <<f, Ident(NameOf(f), "name")>> \in KeysOf(f)
           /\ \A k \in KeysOf(f) : k[1] = f
<1>1. /\ <<f, Ident(NameOf(f), "name")>> \in Keys(f)
      /\ \A k \in Keys(f) : k[1] = f
  BY DEF Keys
<1>2. /\ <<f, Ident(NameOf(f), "name")>> \in TypeKeys(f)
      /\ \A k \in TypeKeys(f) : k[1] = f
  BY DEF TypeKeys
<1>3. QED
  BY <1>1, <1>2 DEF KeysOf

\* A declaration that is given its name takes a free one, under keys of its
\* own, and leaves the names of the others.
LEMMA NameIsGiven ==
    ASSUME GenInv, NEW f \in Modelled, ~Named(f),
           usedNames' = usedNames \cup {uniqueName(NameOf(f))},
           declToFinal' = Put(declToFinal, KeysOf(f), uniqueName(NameOf(f))),
           declares' = declares
    PROVE  /\ uniqueName(NameOf(f)) \notin usedNames
           /\ Named(f)' /\ FinalName(f)' = uniqueName(NameOf(f))
           /\ \A g \in Modelled : g # f =>
                 /\ Named(g)' <=> Named(g)
                 /\ Named(g) => FinalName(g)' = FinalName(g)
           /\ KeysInv' /\ NamesInv' /\ OverridesKeepTheirComponent'
<1> DEFINE finalName == uniqueName(NameOf(f))
           K == KeysOf(f)
           key(g) == <<g, Ident(NameOf(g), "name")>>
<1>1. /\ Files' = Files /\ Modelled' = Modelled
      /\ \A g : NameOf(g)' = NameOf(g) /\ KeysOf(g)' = KeysOf(g)
  BY FilesStay
<1>2. key(f) \in K /\ \A k \in K : k[1] = f
  BY KeysNameTheFile
<1>3. \A g : /\ Named(g) <=> key(g) \in DOMAIN declToFinal
             /\ FinalName(g) = declToFinal[key(g)]
             /\ Named(g)' <=> key(g) \in DOMAIN declToFinal'
             /\ FinalName(g)' = declToFinal'[key(g)]
             /\ key(g)[1] = g
  BY <1>1 DEF Named, FinalName
<1>4. KeysInv /\ NamesInv /\ OverridesKeepTheirComponent
  BY DEF GenInv
<1>5. /\ finalName \notin usedNames
      /\ finalName = Clean(NameOf(f)) \/ HasUnderscore(finalName)
      /\ Clean(NameOf(f)) \notin usedNames => finalName = Clean(NameOf(f))
  <2>1. f \in Services \X Names
    BY DEF Modelled, Files
  <2>2. NameOf(f) \in Seq(Tokens)
    BY <2>1, NamesAreTexts
  <2>3. IsFiniteSet(usedNames)
    BY <1>4 DEF NamesInv
  <2>4. QED
    BY <2>2, <2>3, UniqueNames
<1> HIDE DEF finalName, K, key
<1>6. \A k \in DOMAIN declToFinal : k[1] \in Modelled /\ k[1] # f /\ k \notin K
  BY <1>2, <1>4 DEF KeysInv
<1>7. /\ DOMAIN declToFinal' = DOMAIN declToFinal \cup K
      /\ \A k \in K : declToFinal'[k] = finalName
      /\ \A k \in DOMAIN declToFinal : declToFinal'[k] = declToFinal[k]
  <2>1. declToFinal' = [k \in DOMAIN declToFinal \cup K |->
                          IF k \in K THEN finalName ELSE declToFinal[k]]
    BY DEF Put, K, finalName
  <2>2. QED
    BY <1>6, <2>1
<1>8. Named(f)' /\ FinalName(f)' = finalName
  BY <1>2, <1>3, <1>7
<1>9. ASSUME NEW g \in Modelled, g # f
      PROVE  /\ Named(g)' <=> Named(g)
             /\ Named(g) => FinalName(g)' = FinalName(g)
  <2>1. key(g) \notin K
    BY <1>2, <1>3, <1>9
  <2>2. QED
    BY <1>3, <1>7, <2>1
<1>10. KeysInv'
  <2>1. ASSUME NEW k \in DOMAIN declToFinal'
        PROVE  /\ k[1] \in Modelled /\ Named(k[1])'
               /\ declToFinal'[k] = FinalName(k[1])'
    <3>1. CASE k \in K
      BY <1>2, <1>7, <1>8, <3>1
    <3>2. CASE k \in DOMAIN declToFinal
      <4>1. /\ k[1] \in Modelled /\ k[1] # f /\ Named(k[1])
            /\ declToFinal[k] = FinalName(k[1])
        BY <1>4, <1>6, <3>2 DEF KeysInv
      <4>2. QED
        BY <1>7, <1>9, <3>2, <4>1
    <3>3. QED
      BY <1>7, <3>1, <3>2
  <2>2. ASSUME NEW g \in Modelled, Named(g)'
        PROVE  KeysOf(g) \subseteq DOMAIN declToFinal'
    <3>1. CASE g = f
      BY <1>7, <3>1 DEF K
    <3>2. CASE g # f
      BY <1>4, <1>7, <1>9, <2>2, <3>2 DEF KeysInv
    <3>3. QED
      BY <3>1, <3>2
  <2>3. QED
    BY <1>1, <2>1, <2>2 DEF KeysInv
<1>11. usedNames' = usedNames \cup {finalName}
  BY DEF finalName
<1>12. ASSUME NEW g \in Modelled, Named(g)'
       PROVE  /\ FinalName(g)' \in usedNames'
              /\ g # f => FinalName(g)' # finalName
  <2>1. CASE g = f
    BY <1>8, <1>11, <2>1
  <2>2. CASE g # f
    <3>1. FinalName(g) \in usedNames /\ FinalName(g)' = FinalName(g)
      BY <1>4, <1>9, <1>12, <2>2 DEF NamesInv
    <3>2. QED
      BY <1>5, <1>11, <3>1
  <2>3. QED
    BY <2>1, <2>2
<1>13. ASSUME NEW g \in Modelled, NEW h \in Modelled, Named(g)', Named(h)',
              FinalName(g)' = FinalName(h)'
       PROVE  g = h
  <2>1. CASE g = f \/ h = f
    BY <1>8, <1>12, <1>13, <2>1
  <2>2. CASE g # f /\ h # f
    <3>1. /\ Named(g) /\ FinalName(g)' = FinalName(g)
          /\ Named(h) /\ FinalName(h)' = FinalName(h)
      BY <1>9, <1>13, <2>2
    <3>2. QED
      BY <1>4, <1>13, <3>1 DEF NamesInv
  <2>3. QED
    BY <2>1, <2>2
<1>14. \A g \in Files : declares[g] = "error" \/ g \in Modelled
  BY DEF Modelled
<1>15. ASSUME NEW n \in usedNames'
       PROVE  \/ HasUnderscore(n)
              \/ \E g \in Files : /\ Clean(NameOf(g)) = n
                                  /\ declares[g] = "error" \/ Named(g)'
  <2>1. CASE n = finalName
    <3>1. f \in Files
      BY DEF Modelled
    <3>2. QED
      BY <1>5, <1>8, <2>1, <3>1
  <2>2. CASE n \in usedNames /\ ~HasUnderscore(n)
    <3>1. PICK g \in Files : /\ Clean(NameOf(g)) = n
                             /\ declares[g] = "error" \/ Named(g)
      BY <1>4, <2>2 DEF NamesInv
    <3>2. declares[g] = "error" \/ Named(g)'
      BY <1>8, <1>9, <1>14, <3>1
    <3>3. QED
      BY <3>1, <3>2
  <2>3. QED
    BY <1>11, <2>1, <2>2
<1>16. NamesInv'
  <2>1. IsFiniteSet(usedNames')
    BY <1>4, <1>11, FS_AddElement DEF NamesInv
  <2>2. \A g : Clean(NameOf(g))' = Clean(NameOf(g))
    BY <1>1 DEF Clean
  <2>3. \A n : HasUnderscore(n)' = HasUnderscore(n)
    BY DEF HasUnderscore
  <2>4. \A g \in Modelled : Named(g)' => FinalName(g)' \in usedNames'
    BY <1>12
  <2>5. \A g, h \in Modelled :
           Named(g)' /\ Named(h)' /\ FinalName(g)' = FinalName(h)' => g = h
    BY <1>13
  <2>6. \A n \in usedNames' :
           \/ HasUnderscore(n)
           \/ \E g \in Files : /\ Clean(NameOf(g)) = n
                               /\ declares[g] = "error" \/ Named(g)'
    BY <1>15
  <2>7. QED
    BY <1>1, <2>1, <2>4, <2>5, <2>6 DEF NamesInv, Clean, HasUnderscore
<1>17. ASSUME NEW g \in Modelled, Named(g)'
       PROVE  \/ \E i \in DOMAIN NameOf(g) :
                    NameOf(g)[i] \in {"underscore", "dollar"}
              \/ \E h \in Files \ {g} : Clean(NameOf(h)) = Clean(NameOf(g))
              \/ FinalName(g)' = Clean(NameOf(g))
  <2>1. CASE g # f
    BY <1>4, <1>9, <1>17, <2>1 DEF OverridesKeepTheirComponent
  <2>2. CASE g = f /\ Clean(NameOf(f)) \notin usedNames
    BY <1>5, <1>8, <2>2
  <2>3. CASE g = f /\ Clean(NameOf(f)) \in usedNames
    <3>1. CASE HasUnderscore(Clean(NameOf(f)))
      <4>1. NameOf(f) \in Seq(Tokens)
        BY NamesAreTexts DEF Modelled, Files
      <4>2. \E i \in DOMAIN NameOf(f) :
               NameOf(f)[i] \in {"underscore", "dollar"}
        BY <3>1, <4>1, CleanNames DEF HasUnderscore
      <4>3. QED
        BY <2>3, <4>2
    <3>2. CASE \E h \in Files : /\ Clean(NameOf(h)) = Clean(NameOf(f))
                                /\ declares[h] = "error" \/ Named(h)
      <4>1. declares[f] # "error"
        BY DEF Modelled
      <4>2. QED
        BY <2>3, <3>2, <4>1
    <3>3. QED
      BY <1>4, <2>3, <3>1, <3>2 DEF NamesInv
  <2>4. QED
    BY <2>1, <2>2, <2>3
<1>18. OverridesKeepTheirComponent'
  BY <1>1, <1>17 DEF OverridesKeepTheirComponent, Clean
<1>19. QED
  BY <1>5, <1>8, <1>9, <1>10, <1>16, <1>18 DEF finalName

\* An enum that is registered keeps the invariant.
LEMMA RegisterEnumStep ==
    ASSUME GenInv, NEW f \in Files, RegisterEnum(f)
    PROVE  GenInv'
<1> DEFINE finalName == uniqueName(NameOf(f))
<1>1. /\ pass = 1 /\ declares[f] = "enum" /\ ~Named(f)
      /\ usedNames' = usedNames \cup {finalName}
      /\ components' = Put(components, {finalName}, f)
      /\ declToFinal' = Put(declToFinal, Keys(f), finalName)
      /\ UNCHANGED <<declares, errorClassToRef, pass>>
  BY DEF RegisterEnum
<1>2. f \in Modelled /\ KeysOf(f) = Keys(f)
  BY <1>1 DEF Modelled, KeysOf
<1>3. /\ finalName \notin usedNames
      /\ Named(f)' /\ FinalName(f)' = finalName
      /\ \A g \in Modelled : g # f =>
            /\ Named(g)' <=> Named(g)
            /\ Named(g) => FinalName(g)' = FinalName(g)
      /\ KeysInv' /\ NamesInv' /\ OverridesKeepTheirComponent'
  BY <1>1, <1>2, NameIsGiven
<1> HIDE DEF finalName
<1>4. /\ Modelled' = Modelled /\ declares' = declares
      /\ pass' = 1 /\ DOMAIN errorClassToRef' = DOMAIN errorClassToRef
  BY <1>1, FilesStay
<1>5. /\ EnumsInv /\ DOMAIN components \subseteq usedNames
      /\ declares \in [Services \X Names -> Kinds]
  BY <1>1 DEF GenInv
<1>6. /\ DOMAIN components' = DOMAIN components \cup {finalName}
      /\ components'[finalName] = f
      /\ \A n \in DOMAIN components :
            n # finalName /\ components'[n] = components[n]
  BY <1>1, <1>3, <1>5 DEF Put
<1>7. ASSUME NEW g \in Modelled, declares[g] = "enum", Named(g)'
      PROVE  /\ FinalName(g)' \in DOMAIN components'
             /\ components'[FinalName(g)'] = g
  <2>1. CASE g = f
    BY <1>3, <1>6, <2>1
  <2>2. CASE g # f
    <3>1. Named(g) /\ FinalName(g)' = FinalName(g)
      BY <1>3, <1>7, <2>2
    <3>2. FinalName(g) \in DOMAIN components /\ components[FinalName(g)] = g
      BY <1>5, <1>7, <3>1 DEF EnumsInv
    <3>3. QED
      BY <1>6, <3>1, <3>2
  <2>3. QED
    BY <2>1, <2>2
<1>8. ASSUME NEW n \in DOMAIN components'
      PROVE  \E g \in Modelled : /\ components'[n] = g /\ declares[g] = "enum"
                                 /\ Named(g)' /\ FinalName(g)' = n
  <2>1. CASE n = finalName
    BY <1>1, <1>2, <1>3, <1>6, <2>1
  <2>2. CASE n \in DOMAIN components
    <3>1. PICK g \in Modelled : /\ components[n] = g /\ declares[g] = "enum"
                                /\ Named(g) /\ FinalName(g) = n
      BY <1>5, <2>2 DEF EnumsInv
    <3>2. g # f
      BY <1>1, <3>1
    <3>3. QED
      BY <1>3, <1>6, <2>2, <3>1, <3>2
  <2>3. QED
    BY <1>6, <2>1, <2>2
<1>9. EnumsInv'
  BY <1>4, <1>5, <1>7, <1>8 DEF EnumsInv
<1>10. DOMAIN components' \subseteq usedNames'
  BY <1>1, <1>5, <1>6
<1>11. QED
  BY <1>3, <1>4, <1>5, <1>9, <1>10 DEF GenInv

\* A type that is registered keeps the invariant.
LEMMA RegisterTypeStep ==
    ASSUME GenInv, NEW f \in Files, RegisterType(f)
    PROVE  GenInv'
<1> DEFINE finalName == uniqueName(NameOf(f))
<1>1. /\ pass = 1 /\ declares[f] \in {"type", "typedError"} /\ ~Named(f)
      /\ usedNames' = usedNames \cup {finalName}
      /\ declToFinal' = Put(declToFinal, TypeKeys(f), finalName)
      /\ UNCHANGED <<declares, components, errorClassToRef, pass>>
  BY DEF RegisterType
<1>2. f \in Modelled /\ KeysOf(f) = TypeKeys(f)
  BY <1>1 DEF Modelled, KeysOf
<1>3. /\ \A g \in Modelled : g # f =>
            /\ Named(g)' <=> Named(g)
            /\ Named(g) => FinalName(g)' = FinalName(g)
      /\ KeysInv' /\ NamesInv' /\ OverridesKeepTheirComponent'
  BY <1>1, <1>2, NameIsGiven
<1> HIDE DEF finalName
<1>4. /\ Modelled' = Modelled /\ declares' = declares /\ pass' = 1
      /\ components' = components /\ errorClassToRef' = errorClassToRef
  BY <1>1, FilesStay
<1>5. /\ EnumsInv /\ DOMAIN components \subseteq usedNames
      /\ declares \in [Services \X Names -> Kinds]
  BY <1>1 DEF GenInv
<1>6. declares[f] # "enum"
  BY <1>1
<1>7. ASSUME NEW g \in Modelled, declares[g] = "enum", Named(g)'
      PROVE  /\ FinalName(g)' \in DOMAIN components
             /\ components[FinalName(g)'] = g
  <2>1. Named(g) /\ FinalName(g)' = FinalName(g)
    BY <1>3, <1>6, <1>7
  <2>2. QED
    BY <1>5, <1>7, <2>1 DEF EnumsInv
<1>8. ASSUME NEW n \in DOMAIN components
      PROVE  \E g \in Modelled : /\ components[n] = g /\ declares[g] = "enum"
                                 /\ Named(g)' /\ FinalName(g)' = n
  <2>1. PICK g \in Modelled : /\ components[n] = g /\ declares[g] = "enum"
                              /\ Named(g) /\ FinalName(g) = n
    BY <1>5 DEF EnumsInv
  <2>2. QED
    BY <1>3, <1>6, <2>1
<1>9. EnumsInv'
  BY <1>4, <1>5, <1>7, <1>8 DEF EnumsInv
<1>10. DOMAIN components' \subseteq usedNames'
  BY <1>1, <1>5
<1>11. QED
  BY <1>3, <1>4, <1>5, <1>9, <1>10 DEF GenInv

-----------------------------------------------------------------------------
(* Passes 2 and 3.                                                         *)

\* While names are given to no declaration, these parts of the invariant stay.
LEMMA NamesStay ==
    ASSUME GenInv, declares' = declares, declToFinal' = declToFinal
    PROVE  /\ Files' = Files /\ Modelled' = Modelled
           /\ \A f : Named(f)' = Named(f) /\ FinalName(f)' = FinalName(f)
           /\ KeysInv' /\ OverridesKeepTheirComponent'
           /\ declares' \in [Services \X Names -> Kinds]
<1>1. /\ Files' = Files /\ Modelled' = Modelled
      /\ \A f : NameOf(f)' = NameOf(f) /\ KeysOf(f)' = KeysOf(f)
  BY FilesStay
<1>2. \A f : Named(f)' = Named(f) /\ FinalName(f)' = FinalName(f)
  BY <1>1 DEF Named, FinalName
<1>3. /\ KeysInv /\ OverridesKeepTheirComponent
      /\ declares \in [Services \X Names -> Kinds]
  BY DEF GenInv
<1>4. KeysInv'
  BY <1>1, <1>2, <1>3 DEF KeysInv
<1>5. OverridesKeepTheirComponent'
  BY <1>1, <1>2, <1>3 DEF OverridesKeepTheirComponent, Clean
<1>6. QED
  BY <1>1, <1>2, <1>3, <1>4, <1>5

\* So does what is said of the used names, if they stay, too.
LEMMA UsedNamesStay ==
    ASSUME GenInv, declares' = declares, declToFinal' = declToFinal,
           usedNames' = usedNames
    PROVE  NamesInv'
<1>1. /\ Files' = Files /\ Modelled' = Modelled
      /\ \A f : Named(f)' = Named(f) /\ FinalName(f)' = FinalName(f)
  BY NamesStay
<1>2. \A f : NameOf(f)' = NameOf(f)
  BY FilesStay
<1>3. NamesInv
  BY DEF GenInv
<1>4. QED
  BY <1>1, <1>2, <1>3 DEF NamesInv, Clean, HasUnderscore

\* Once all enums and types are registered, the second pass may begin.
LEMMA IndexCompleteStep ==
    ASSUME GenInv, IndexComplete
    PROVE  GenInv'
<1>1. /\ pass = 1 /\ pass' = 2
      /\ \A f \in Files : declares[f] # "error" => Named(f)
      /\ UNCHANGED <<declares, usedNames, components, declToFinal,
                     errorClassToRef>>
  BY DEF IndexComplete
<1>2. /\ Files' = Files /\ Modelled' = Modelled
      /\ \A f : Named(f)' = Named(f) /\ FinalName(f)' = FinalName(f)
      /\ KeysInv' /\ OverridesKeepTheirComponent' /\ NamesInv'
      /\ declares' \in [Services \X Names -> Kinds]
  BY <1>1, NamesStay, UsedNamesStay
<1>3. EnumsInv /\ DOMAIN components \subseteq usedNames
  BY <1>1 DEF GenInv
<1>4. EnumsInv'
  BY <1>1, <1>2, <1>3 DEF EnumsInv
<1>5. \A f \in Modelled' : Named(f)'
  BY <1>1, <1>2 DEF Modelled
<1>6. QED
  BY <1>1, <1>2, <1>3, <1>4, <1>5 DEF GenInv

\* The second pass gives every type the component of its own name.
LEMMA BuildComponentsStep ==
    ASSUME GenInv, BuildComponents
    PROVE  GenInv'
<1> DEFINE types == {f \in Files : declares[f] \in {"type", "typedError"}}
<1>1. /\ pass = 2 /\ pass' = 3
      /\ components' =
           [n \in DOMAIN components \cup {FinalName(f) : f \in types} |->
              IF n \in DOMAIN components THEN components[n]
              ELSE CHOOSE f \in types : FinalName(f) = n]
      /\ UNCHANGED <<declares, usedNames, declToFinal, errorClassToRef>>
  BY DEF BuildComponents
<1>2. /\ Files' = Files /\ Modelled' = Modelled
      /\ \A f : Named(f)' = Named(f) /\ FinalName(f)' = FinalName(f)
      /\ KeysInv' /\ OverridesKeepTheirComponent' /\ NamesInv'
      /\ declares' \in [Services \X Names -> Kinds]
  BY <1>1, NamesStay, UsedNamesStay
<1>3. /\ EnumsInv /\ NamesInv /\ DOMAIN components \subseteq usedNames
      /\ \A f \in Modelled : Named(f)
      /\ declares \in [Services \X Names -> Kinds]
  BY <1>1 DEF GenInv
<1>4. /\ \A f \in Modelled : declares[f] = "enum" \/ f \in types
      /\ \A f \in types : f \in Modelled /\ declares[f] # "enum"
  <2>1. \A f \in Files : declares[f] \in Kinds /\ declares[f] # "nothing"
    BY <1>3 DEF Files
  <2>2. QED
    BY <2>1 DEF Modelled, Kinds
<1> HIDE DEF types
<1>5. \A n \in DOMAIN components :
         n \in DOMAIN components' /\ components'[n] = components[n]
  BY <1>1
<1>6. ASSUME NEW f \in types
      PROVE  /\ FinalName(f) \in DOMAIN components'
             /\ components'[FinalName(f)] = f
  <2>1. FinalName(f) \notin DOMAIN components
    <3>1. SUFFICES ASSUME FinalName(f) \in DOMAIN components
                   PROVE  FALSE
      OBVIOUS
    <3>2. PICK g \in Modelled :
             declares[g] = "enum" /\ FinalName(g) = FinalName(f)
      BY <1>3, <3>1 DEF EnumsInv
    <3>3. f = g
      BY <1>3, <1>4, <3>2 DEF NamesInv
    <3>4. QED
      BY <1>4, <3>2, <3>3
  <2>2. \A g \in types : FinalName(g) = FinalName(f) => g = f
    BY <1>3, <1>4 DEF NamesInv
  <2>3. (CHOOSE g \in types : FinalName(g) = FinalName(f)) = f
    BY <2>2
  <2>4. QED
    BY <1>1, <2>1, <2>3
<1>7. \A f \in Modelled :
         FinalName(f) \in DOMAIN components' /\ components'[FinalName(f)] = f
  <2>1. ASSUME NEW f \in Modelled, declares[f] = "enum"
        PROVE  /\ FinalName(f) \in DOMAIN components'
               /\ components'[FinalName(f)] = f
    BY <1>3, <1>5, <2>1 DEF EnumsInv
  <2>2. QED
    BY <1>4, <1>6, <2>1
<1>8. ASSUME NEW n \in DOMAIN components'
      PROVE  /\ \E f \in Modelled : components'[n] = f /\ FinalName(f) = n
             /\ n \in usedNames
  <2>1. CASE n \in DOMAIN components
    BY <1>3, <1>5, <2>1 DEF EnumsInv
  <2>2. CASE \E f \in types : n = FinalName(f)
    <3>1. PICK f \in types : n = FinalName(f)
      BY <2>2
    <3>2. components'[n] = f
      BY <1>6, <3>1
    <3>3. QED
      BY <1>3, <1>4, <3>1, <3>2 DEF NamesInv
  <2>3. QED
    BY <1>1, <2>1, <2>2
<1>9. DOMAIN errorClassToRef' = {}
  BY <1>1, <1>3 DEF EnumsInv
<1>10. ErrorsInv'
  BY <1>2, <1>7, <1>8, <1>9 DEF ErrorsInv
<1>11. DOMAIN components' \subseteq usedNames'
  BY <1>1, <1>8
<1>12. \A f \in Modelled' : Named(f)'
  BY <1>2, <1>3
<1>13. QED
  BY <1>1, <1>2, <1>10, <1>11, <1>12 DEF GenInv

\* An error class is given a component under a free name, or one that is there.
LEMMA ErrorClassStep ==
    ASSUME GenInv, NEW f \in Files, refForErrorClass(f)
    PROVE  GenInv'
<1> DEFINE className == ClassOf(f)
           known == className \in DOMAIN errorClassToRef
           fresh == ~known /\ declares[f] = "error"
           new == uniqueName(className)
<1>1. /\ pass = 3 /\ pass' = 3 /\ declares[f] \in {"error", "typedError"}
      /\ usedNames' = IF fresh THEN usedNames \cup {new} ELSE usedNames
      /\ components' = IF fresh THEN Put(components, {new}, f) ELSE components
      /\ errorClassToRef' =
           IF known THEN errorClassToRef
           ELSE Put(errorClassToRef, {className},
                    IF fresh THEN new ELSE FinalName(f))
      /\ UNCHANGED <<declares, declToFinal>>
  BY DEF refForErrorClass
<1>2. /\ Files' = Files /\ Modelled' = Modelled
      /\ \A g : Named(g)' = Named(g) /\ FinalName(g)' = FinalName(g)
      /\ KeysInv' /\ OverridesKeepTheirComponent'
      /\ declares' \in [Services \X Names -> Kinds]
  BY <1>1, NamesStay
<1>3. /\ ErrorsInv /\ NamesInv /\ DOMAIN components \subseteq usedNames
      /\ \A g \in Modelled : Named(g)
  BY <1>1 DEF GenInv
<1>4. /\ f \in Services \X Names /\ className = f[2] /\ className \in Names
      /\ className \in Seq(Tokens)
  BY NamesAreTexts DEF Files, ClassOf
<1>5. \A g : NameOf(g)' = NameOf(g)
  BY <1>1, FilesStay
<1>6. \A g \in Modelled' : Named(g)'
  BY <1>2, <1>3
<1>7. CASE known
  <2>1. UNCHANGED <<usedNames, components, errorClassToRef>>
    BY <1>1, <1>7
  <2>2. ErrorsInv'
    BY <1>2, <1>3, <2>1 DEF ErrorsInv
  <2>3. NamesInv'
    BY <1>1, <2>1, UsedNamesStay
  <2>4. QED
    BY <1>1, <1>2, <1>3, <1>6, <2>1, <2>2, <2>3 DEF GenInv
<1>8. CASE ~known /\ declares[f] = "typedError"
  <2>1. UNCHANGED <<usedNames, components>>
    BY <1>1, <1>8
  <2>2. f \in Modelled
    BY <1>8 DEF Modelled
  <2>3. /\ DOMAIN errorClassToRef' = DOMAIN errorClassToRef \cup {className}
        /\ errorClassToRef'[className] = FinalName(f)
        /\ \A c \in DOMAIN errorClassToRef :
              c # className /\ errorClassToRef'[c] = errorClassToRef[c]
    BY <1>1, <1>8 DEF Put
  <2> HIDE DEF className
  <2>4. /\ FinalName(f) \in DOMAIN components
        /\ components[FinalName(f)] = f
    BY <1>3, <2>2 DEF ErrorsInv
  <2>5. ASSUME NEW n \in DOMAIN components
        PROVE  \/ \E g \in Modelled : components[n] = g /\ FinalName(g) = n
               \/ /\ components[n] \notin Modelled
                  /\ \E c \in DOMAIN errorClassToRef' : errorClassToRef'[c] = n
    BY <1>3, <2>3 DEF ErrorsInv
  <2>6. DOMAIN errorClassToRef' \subseteq Names
    BY <1>3, <1>4, <2>3 DEF ErrorsInv
  <2>7. \A c \in DOMAIN errorClassToRef' :
           errorClassToRef'[c] \in DOMAIN components
    BY <1>3, <2>3, <2>4 DEF ErrorsInv
  <2>8. ASSUME NEW c \in DOMAIN errorClassToRef',
               NEW d \in DOMAIN errorClassToRef',
               components[errorClassToRef'[c]] \notin Modelled,
               errorClassToRef'[c] = errorClassToRef'[d]
        PROVE  c = d
    <3>1. c # className /\ d # className
      BY <2>2, <2>3, <2>4, <2>8
    <3>2. QED
      BY <1>3, <2>3, <2>8, <3>1 DEF ErrorsInv
  <2>9. \A g \in Modelled :
           FinalName(g) \in DOMAIN components /\ components[FinalName(g)] = g
    BY <1>3 DEF ErrorsInv
  <2>10. ErrorsInv'
    BY <1>2, <2>1, <2>5, <2>6, <2>7, <2>8, <2>9 DEF ErrorsInv
  <2>11. NamesInv'
    BY <1>1, <2>1, UsedNamesStay
  <2>12. QED
    BY <1>1, <1>2, <1>3, <1>6, <2>1, <2>10, <2>11 DEF GenInv
<1>9. CASE ~known /\ declares[f] = "error"
  <2>1. f \notin Modelled
    BY <1>9 DEF Modelled
  <2>2. /\ new \notin usedNames
        /\ new = Clean(className) \/ HasUnderscore(new)
    <3>1. IsFiniteSet(usedNames)
      BY <1>3 DEF NamesInv
    <3>2. QED
      BY <1>4, <3>1, UniqueNames
  <2>3. className = NameOf(f)
    BY <1>4, <1>9 DEF NameOf
  <2>4. usedNames' = usedNames \cup {new}
    BY <1>1, <1>9
  <2>5. /\ DOMAIN errorClassToRef' = DOMAIN errorClassToRef \cup {className}
        /\ errorClassToRef'[className] = new
        /\ \A c \in DOMAIN errorClassToRef :
              c # className /\ errorClassToRef'[c] = errorClassToRef[c]
    BY <1>1, <1>9 DEF Put
  <2>6. /\ DOMAIN components' = DOMAIN components \cup {new}
        /\ components'[new] = f
        /\ \A n \in DOMAIN components :
              n # new /\ components'[n] = components[n]
    BY <1>1, <1>3, <1>9, <2>2 DEF Put
  <2> HIDE DEF className, new
  <2>7. ASSUME NEW g \in Modelled
        PROVE  /\ FinalName(g) \in DOMAIN components'
               /\ components'[FinalName(g)] = g
    BY <1>3, <2>6 DEF ErrorsInv
  <2>8. ASSUME NEW n \in DOMAIN components'
        PROVE  \/ \E g \in Modelled : components'[n] = g /\ FinalName(g) = n
               \/ /\ components'[n] \notin Modelled
                  /\ \E c \in DOMAIN errorClassToRef' : errorClassToRef'[c] = n
    <3>1. CASE n = new
      BY <2>1, <2>5, <2>6, <3>1
    <3>2. CASE n \in DOMAIN components
      <4>1. \/ \E g \in Modelled : components[n] = g /\ FinalName(g) = n
            \/ /\ components[n] \notin Modelled
               /\ \E c \in DOMAIN errorClassToRef : errorClassToRef[c] = n
        BY <1>3, <3>2 DEF ErrorsInv
      <4>2. QED
        BY <2>5, <2>6, <3>2, <4>1
    <3>3. QED
      BY <2>6, <3>1, <3>2
  <2>9. DOMAIN errorClassToRef' \subseteq Names
    BY <1>3, <1>4, <2>5 DEF ErrorsInv
  <2>10. \A c \in DOMAIN errorClassToRef :
            /\ errorClassToRef[c] \in DOMAIN components
            /\ errorClassToRef'[c] = errorClassToRef[c]
            /\ errorClassToRef'[c] # new
            /\ components'[errorClassToRef'[c]] = components[errorClassToRef[c]]
    BY <1>3, <2>5, <2>6 DEF ErrorsInv
  <2>11. \A c \in DOMAIN errorClassToRef' :
            errorClassToRef'[c] \in DOMAIN components'
    BY <2>5, <2>6, <2>10
  <2>12. ASSUME NEW c \in DOMAIN errorClassToRef',
                NEW d \in DOMAIN errorClassToRef',
                components'[errorClassToRef'[c]] \notin Modelled,
                errorClassToRef'[c] = errorClassToRef'[d]
         PROVE  c = d
    <3>1. CASE c = className \/ d = className
      BY <2>5, <2>10, <2>12, <3>1
    <3>2. CASE c # className /\ d # className
      BY <1>3, <2>5, <2>10, <2>12, <3>2 DEF ErrorsInv
    <3>3. QED
      BY <3>1, <3>2
  <2>13. ErrorsInv'
    BY <1>2, <2>7, <2>8, <2>9, <2>11, <2>12 DEF ErrorsInv
  <2>14. DOMAIN components' \subseteq usedNames'
    BY <1>3, <2>4, <2>6
  <2>15. ASSUME NEW n \in usedNames'
         PROVE  \/ HasUnderscore(n)
                \/ \E g \in Files : /\ Clean(NameOf(g)) = n
                                    /\ declares[g] = "error" \/ Named(g)
    <3>1. CASE n = new
      BY <1>9, <2>2, <2>3, <3>1
    <3>2. CASE n \in usedNames
      BY <1>3, <3>2 DEF NamesInv
    <3>3. QED
      BY <2>4, <3>1, <3>2
  <2>16. /\ IsFiniteSet(usedNames')
         /\ \A g \in Modelled : Named(g) => FinalName(g) \in usedNames'
    BY <1>3, <2>4, FS_AddElement DEF NamesInv
  <2>17. \A g, h \in Modelled :
            Named(g) /\ Named(h) /\ FinalName(g) = FinalName(h) => g = h
    BY <1>3 DEF NamesInv
  <2>18. declares' = declares
    BY <1>1
  <2>19. NamesInv'
    BY <1>2, <1>5, <2>15, <2>16, <2>17, <2>18
       DEF NamesInv, Clean, HasUnderscore
  <2>20. QED
    BY <1>1, <1>2, <1>6, <2>13, <2>14, <2>19 DEF GenInv
<1>10. QED
  BY <1>1, <1>7, <1>8, <1>9

-----------------------------------------------------------------------------
(* The theorems.                                                           *)

\* The names and components of the document keep the invariant, whatever the
\* services declare and in whatever order the files are visited.
THEOREM GenInvariance == GenSpec => []GenInv
<1>1. GenInit => GenInv
  <2>1. SUFFICES ASSUME GenInit
                 PROVE  GenInv
    OBVIOUS
  <2>2. /\ declares \in [Services \X Names -> Kinds] /\ pass = 1
        /\ usedNames = {} /\ DOMAIN components = {}
        /\ DOMAIN declToFinal = {} /\ DOMAIN errorClassToRef = {}
    BY <2>1 DEF GenInit, Empty
  <2>3. \A f : ~Named(f)
    BY <2>2 DEF Named
  <2>4. KeysInv
    BY <2>2, <2>3 DEF KeysInv
  <2>5. NamesInv
    BY <2>2, <2>3, FS_EmptySet DEF NamesInv
  <2>6. EnumsInv
    BY <2>2, <2>3 DEF EnumsInv
  <2>7. OverridesKeepTheirComponent
    BY <2>3 DEF OverridesKeepTheirComponent
  <2>8. QED
    BY <2>2, <2>4, <2>5, <2>6, <2>7 DEF GenInv
<1>2. GenInv /\ [GenNext]_genVars => GenInv'
  <2>1. SUFFICES ASSUME GenInv, [GenNext]_genVars
                 PROVE  GenInv'
    OBVIOUS
  <2>2. ASSUME NEW f \in Files, RegisterEnum(f)
        PROVE  GenInv'
    BY <2>1, <2>2, RegisterEnumStep
  <2>3. ASSUME NEW f \in Files, RegisterType(f)
        PROVE  GenInv'
    BY <2>1, <2>3, RegisterTypeStep
  <2>4. ASSUME NEW f \in Files, refForErrorClass(f)
        PROVE  GenInv'
    BY <2>1, <2>4, ErrorClassStep
  <2>5. CASE IndexComplete
    BY <2>1, <2>5, IndexCompleteStep
  <2>6. CASE BuildComponents
    BY <2>1, <2>6, BuildComponentsStep
  <2>7. CASE UNCHANGED genVars
    <3>1. UNCHANGED <<declares, usedNames, components, declToFinal,
                      errorClassToRef, pass>>
      BY <2>7 DEF genVars
    <3>2. /\ Files' = Files /\ Modelled' = Modelled
          /\ \A f : Named(f)' = Named(f) /\ FinalName(f)' = FinalName(f)
          /\ KeysInv' /\ OverridesKeepTheirComponent' /\ NamesInv'
          /\ declares' \in [Services \X Names -> Kinds]
      BY <2>1, <3>1, NamesStay, UsedNamesStay
    <3>3. /\ IF pass = 3 THEN ErrorsInv ELSE EnumsInv
          /\ pass \in {1, 2, 3} /\ DOMAIN components \subseteq usedNames
          /\ pass # 1 => \A f \in Modelled : Named(f)
      BY <2>1 DEF GenInv
    <3>4. ErrorsInv => ErrorsInv'
      BY <3>1, <3>2 DEF ErrorsInv
    <3>5. EnumsInv => EnumsInv'
      BY <3>1, <3>2 DEF EnumsInv
    <3>6. QED
      BY <3>1, <3>2, <3>3, <3>4, <3>5 DEF GenInv
  <2>8. QED
    BY <2>1, <2>2, <2>3, <2>4, <2>5, <2>6, <2>7 DEF GenNext
<1>3. QED
  BY <1>1, <1>2, PTL DEF GenSpec

\* Each identifier that a file imports leads to the component of the file that
\* declares it, whatever suffixes there are.
THEOREM RefsAreCorrect == GenSpec => []RefsStayCorrect
<1>1. ASSUME GenInv
      PROVE  RefsStayCorrect
  <2>1. SUFFICES ASSUME pass = 3, NEW f \in Modelled, NEW k \in KeysOf(f),
                        NEW ref \in refFor(k[1], k[2])
                 PROVE  components[ref] = f
    BY DEF RefsStayCorrect, KeysOf
  <2>2. Named(f) /\ KeysInv /\ ErrorsInv
    BY <1>1, <2>1 DEF GenInv
  <2>3. k \in DOMAIN declToFinal /\ declToFinal[k] = FinalName(k[1])
    BY <2>2 DEF KeysInv
  <2>4. k[1] = f
    BY KeysNameTheFile
  <2>5. k = <<k[1], k[2]>>
    BY DEF KeysOf, Keys, TypeKeys
  <2>6. refFor(k[1], k[2]) = {FinalName(f)}
    BY <2>3, <2>4, <2>5 DEF refFor
  <2>7. ref = FinalName(f)
    BY <2>1, <2>6
  <2>8. QED
    BY <2>2, <2>7 DEF ErrorsInv
<1>2. QED
  BY <1>1, GenInvariance, PTL

\* A name that one file declares and no suffix can produce names the component
\* of that file in every order of the files.
THEOREM OverridesKeep == GenSpec => []OverridesKeepTheirComponent
<1>1. GenInv => OverridesKeepTheirComponent
  BY DEF GenInv
<1>2. QED
  BY <1>1, GenInvariance, PTL

\* Every enum and type has a component of its own, and the others are those of
\* error classes, one for a class.
THEOREM ComponentsDiffer == GenSpec => []ComponentsAreDistinct
<1>1. ASSUME GenInv, pass = 3
      PROVE  ComponentsAreDistinct
  <2> DEFINE E == {c \in DOMAIN errorClassToRef :
                     components[errorClassToRef[c]] \notin Modelled}
             A == {n \in DOMAIN components : components[n] \in Modelled}
             B == {n \in DOMAIN components : components[n] \notin Modelled}
             a == [f \in Modelled |-> FinalName(f)]
             b == [c \in E |-> errorClassToRef[c]]
  <2>1. ErrorsInv /\ NamesInv /\ \A f \in Modelled : Named(f)
    BY <1>1 DEF GenInv
  <2>2. IsFiniteSet(Modelled) /\ IsFiniteSet(E)
    <3>1. IsFiniteSet(Services \X Names)
      BY ServicesAssumption, NamesAssumption, FS_Product
    <3>2. Modelled \in SUBSET (Services \X Names)
      BY DEF Modelled, Files
    <3>3. E \in SUBSET Names
      BY <2>1 DEF ErrorsInv
    <3> HIDE DEF E
    <3>4. QED
      BY <3>1, <3>2, <3>3, NamesAssumption, FS_Subset
  <2>3. a \in Surjection(Modelled, A) /\ a \in Injection(Modelled, A)
    <3>1. a \in [Modelled -> A]
      BY <2>1 DEF ErrorsInv
    <3>2. \A n \in A : \E f \in Modelled : a[f] = n
      BY <2>1 DEF ErrorsInv
    <3>3. \A f, g \in Modelled : a[f] = a[g] => f = g
      BY <2>1 DEF NamesInv
    <3> HIDE DEF a, A
    <3>4. QED
      BY <3>1, <3>2, <3>3 DEF Surjection, Injection, IsInjective
  <2>4. b \in Surjection(E, B) /\ b \in Injection(E, B)
    <3>1. b \in [E -> B]
      BY <2>1 DEF ErrorsInv
    <3>2. \A n \in B : \E c \in E : b[c] = n
      BY <2>1 DEF ErrorsInv
    <3>3. \A c, d \in E : b[c] = b[d] => c = d
      BY <2>1 DEF ErrorsInv
    <3> HIDE DEF b, B, E
    <3>4. QED
      BY <3>1, <3>2, <3>3 DEF Surjection, Injection, IsInjective
  <2>5. DOMAIN components = A \cup B /\ A \cap B = {}
    OBVIOUS
  <2> HIDE DEF E, A, B, a, b
  <2>6. /\ IsFiniteSet(A) /\ Cardinality(A) = Cardinality(Modelled)
        /\ IsFiniteSet(B) /\ Cardinality(B) = Cardinality(E)
    BY <2>2, <2>3, <2>4, FS_Surjection
  <2>7. Cardinality(A \cup B) = Cardinality(A) + Cardinality(B)
    <3>1. Cardinality(A \cup B) =
             Cardinality(A) + Cardinality(B) - Cardinality(A \cap B)
      BY <2>6, FS_Union
    <3>2. Cardinality(A \cap B) = 0
      BY <2>5, FS_EmptySet
    <3>3. Cardinality(A) \in Nat /\ Cardinality(B) \in Nat
      BY <2>6, FS_CardinalityType
    <3>4. QED
      BY <3>1, <3>2, <3>3
  <2>8. Cardinality(DOMAIN components) = Cardinality(Modelled) + Cardinality(E)
    BY <2>5, <2>6, <2>7
  <2>9. \A f \in Modelled : components[FinalName(f)] = f
    BY <2>1 DEF ErrorsInv
  <2>10. QED
    BY <2>8, <2>9 DEF ComponentsAreDistinct, E
<1>2. GenInv => ComponentsAreDistinct
  BY <1>1 DEF ComponentsAreDistinct
<1>3. QED
  BY <1>2, GenInvariance, PTL

=============================================================================
