----------------------------- MODULE GenOpenApi -----------------------------
(***************************************************************************)
(* Component names and references in scripts/gen-openapi/index.mjs.  The   *)
(* TypeScript SDK declares enums and types, one to a file, and the         *)
(* services reuse their names.  Pass 1 gives every declaration a component *)
(* name that is unique in the document, enums before types and otherwise   *)
(* in the order of the files; pass 2 builds the components, whose          *)
(* references are resolved by file and identifier, or, for enums named in  *)
(* JSDoc annotations, by name; pass 3 meets the error classes of the       *)
(* operations, and gives them components that are found by class name.     *)
(*                                                                         *)
(* A name is a sequence of tokens, so that names with suffixes can be told *)
(* apart from those without; the number of a suffix is written in strokes. *)
(* Imports name the file that declares what they import.                   *)
(***************************************************************************)
EXTENDS Integers, FiniteSets, Sequences

CONSTANTS Services,   \* the services of the SDK
          Names       \* the names they declare

ASSUME ServicesAssumption == IsFiniteSet(Services)
ASSUME NamesAssumption ==
    IsFiniteSet(Names) /\ Names \subseteq Seq(STRING) \ {<<>>}

VARIABLES
    declares,     \* what a service declares under a name: [Services \X Names
                  \* -> Kinds]
    usedNames,
    components,   \* final name -> the file whose declaration it describes
    declToFinal,  \* <<file, identifier>> -> final name
    enumByName,   \* enum name -> the final names it was given, in order
    errorClassToRef,    \* class name -> final name
    referred,     \* the error classes whose operations have been visited
    pass          \* 1, 2 or 3

genVars ==
    <<declares, usedNames, components, declToFinal, enumByName,
      errorClassToRef, referred, pass>>

\* A file declares an enum, a type, an error class, or an error class whose
\* response has a type of its own.
Kinds == {"nothing", "enum", "type", "error", "typedError"}

\* A file is known by its service and by what it declares.
Files == {f \in Services \X Names : declares[f] # "nothing"}
ClassOf(f) == f[2]
NameOf(f) ==
    IF declares[f] = "typedError" THEN Append(f[2], "Schema") ELSE f[2]

\* An identifier: a declared name, or one of the constants of a type.
Ident(n, role) == <<n, role>>

Keys(f) == {<<f, Ident(NameOf(f), "name")>>}
TypeKeys(f) ==
    {<<f, Ident(NameOf(f), r)>> :
        r \in {"name", "const", "constRequest", "constResponse"}}

Empty == [k \in {} |-> k]

\* Map.set, for every key of a set.
Put(map, keys, v) ==
    [k \in DOMAIN map \cup keys |-> IF k \in keys THEN v ELSE map[k]]

GenInit ==
    /\ declares \in [Services \X Names -> Kinds]
    /\ usedNames = {}
    /\ components = Empty
    /\ declToFinal = Empty
    /\ enumByName = Empty
    /\ errorClassToRef = Empty
    /\ referred = {}
    /\ pass = 1

-----------------------------------------------------------------------------
(* Unique names.                                                           *)

\* What a component name may not contain becomes an underscore.
Clean(preferred) ==
    [i \in DOMAIN preferred |->
        IF preferred[i] = "dollar" THEN "underscore" ELSE preferred[i]]

Suffixed(name, i) == name \o <<"underscore">> \o [k \in 1 .. i |-> "stroke"]

\* Mutants of uniqueName: it tries one suffix only, or takes the name before
\* it looks whether it is taken.
uniqueNameOnce(preferred) ==
    LET name == Clean(preferred)
    IN  IF name \notin usedNames THEN name ELSE Suffixed(name, 2)

uniqueNameTaken(preferred) ==
    LET name == Clean(preferred)
    IN  CHOOSE n \in {Suffixed(name, i) : i \in 2 .. Cardinality(usedNames) + 2} :
            n \notin usedNames

\* The name itself, or the first of name_2, name_3, ... that is free.
uniqueName(preferred) ==
    LET name == Clean(preferred)
        free == {i \in 2 .. Cardinality(usedNames) + 2 :
                    Suffixed(name, i) \notin usedNames}
    IN  IF name \notin usedNames
        THEN name
        ELSE Suffixed(name, CHOOSE i \in free : \A j \in free : i <= j)

-----------------------------------------------------------------------------
(* Pass 1.                                                                 *)

Named(f) == <<f, Ident(NameOf(f), "name")>> \in DOMAIN declToFinal

RegisterEnum(f) ==
    /\ pass = 1 /\ declares[f] = "enum" /\ ~Named(f)
    /\ LET finalName == uniqueName(NameOf(f))
           n == NameOf(f)
       IN  /\ usedNames' = usedNames \cup {finalName}
           /\ components' = Put(components, {finalName}, f)
           /\ declToFinal' = Put(declToFinal, Keys(f), finalName)
           /\ enumByName' =
                Put(enumByName, {n}, IF n \in DOMAIN enumByName
                                     THEN Append(enumByName[n], finalName)
                                     ELSE <<finalName>>)
    /\ UNCHANGED <<declares, errorClassToRef, referred, pass>>

RegisterType(f) ==
    /\ pass = 1 /\ declares[f] \in {"type", "typedError"} /\ ~Named(f)
    /\ \A g \in Files : declares[g] = "enum" => Named(g)
    /\ LET finalName == uniqueName(NameOf(f))
       IN  /\ usedNames' = usedNames \cup {finalName}
           /\ declToFinal' = Put(declToFinal, TypeKeys(f), finalName)
    /\ UNCHANGED <<declares, components, enumByName, errorClassToRef,
                   referred, pass>>

IndexComplete ==
    /\ pass = 1 /\ \A f \in Files : declares[f] # "error" => Named(f)
    /\ pass' = 2
    /\ UNCHANGED <<declares, usedNames, components, declToFinal, enumByName,
                   errorClassToRef, referred>>

-----------------------------------------------------------------------------
(* References, and pass 2.                                                 *)

FinalName(f) == declToFinal[<<f, Ident(NameOf(f), "name")>>]

\* What a look-up by name alone can find, as the order of the files decides.
ByName(ident) ==
    {declToFinal[k] : k \in {d \in DOMAIN declToFinal : d[2] = ident}}

\* A mutant of refFor: it looks an identifier up by its name alone.
refForName(f, ident) == ByName(ident)

\* The component of the declaration that file f, resolved from the imports,
\* makes of the identifier, or else of any file.  (With their suffixes cut
\* off, the variants of a constant lead where they lead as they are.)
refFor(f, ident) ==
    IF <<f, ident>> \in DOMAIN declToFinal
    THEN {declToFinal[<<f, ident>>]}
    ELSE ByName(ident)

\* applyJsDocEnums: "@property {Name}" becomes a reference to the first enum
\* of that name.
jsDocRef(n) == enumByName[n][1]

\* Types whose component is not there yet.
BuildComponents ==
    /\ pass = 2 /\ pass' = 3
    /\ components' =
         LET types == {f \in Files : declares[f] \in {"type", "typedError"}}
         IN  [n \in DOMAIN components \cup {FinalName(f) : f \in types} |->
                IF n \in DOMAIN components THEN components[n]
                ELSE CHOOSE f \in types : FinalName(f) = n]
    /\ UNCHANGED <<declares, usedNames, declToFinal, enumByName,
                   errorClassToRef, referred>>

-----------------------------------------------------------------------------
\* Pass 3, the operations: an operation of the service of f throws the class
\* of f.  The first class of a name decides: it leads to the type of its
\* response, or is given a component.
refForErrorClass(f) ==
    /\ pass = 3 /\ declares[f] \in {"error", "typedError"} /\ f \notin referred
    /\ referred' = referred \cup {f}
    /\ LET className == ClassOf(f)
           known     == className \in DOMAIN errorClassToRef
           fresh     == ~known /\ declares[f] = "error"
           finalName == IF fresh THEN uniqueName(className) ELSE FinalName(f)
       IN  /\ usedNames' = IF fresh THEN usedNames \cup {finalName}
                           ELSE usedNames
           /\ components' = IF fresh THEN Put(components, {finalName}, f)
                            ELSE components
           /\ errorClassToRef' =
                IF known THEN errorClassToRef
                ELSE Put(errorClassToRef, {className}, finalName)
    /\ UNCHANGED <<declares, declToFinal, enumByName, pass>>

GenNext ==
    \/ \E f \in Files :
         RegisterEnum(f) \/ RegisterType(f) \/ refForErrorClass(f)
    \/ IndexComplete
    \/ BuildComponents

GenSpec == GenInit /\ [][GenNext]_genVars

-----------------------------------------------------------------------------
(* Properties.                                                             *)

Modelled == {f \in Files : declares[f] # "error"}

\* Every enum and type has a component of its own, which describes it and
\* nothing else, whatever names the services share and wherever a suffixed
\* name is also a declared one; the components of errors take none away.
ComponentsAreDistinct ==
    pass = 3 =>
        /\ \A f \in Modelled : components[FinalName(f)] = f
        /\ Cardinality(DOMAIN components) =
             Cardinality(Modelled) +
             Cardinality({c \in DOMAIN errorClassToRef :
                            components[errorClassToRef[c]] \notin Modelled})

\* scripts/gen-openapi/index.mjs: "refs stay correct after suffixing".  Each
\* identifier a file imports, whether it is a type, an enum or one of the
\* constants of a type, leads to the component of the file that declares it.
RefsStayCorrect ==
    pass = 3 => \A f \in Modelled :
        \A k \in (IF declares[f] = "enum" THEN Keys(f) ELSE TypeKeys(f)) :
            \A ref \in refFor(k[1], k[2]) : components[ref] = f

\* FLOAT_FIELDS and NULLABLE_FIELDS are keyed by component names.  A name
\* that one file declares and that no suffix can produce is the name of its
\* component in every order of the files, so these keys stay good.
OverridesKeepTheirComponent ==
    \A f \in Modelled : Named(f) =>
        \/ \E i \in DOMAIN NameOf(f) :
              NameOf(f)[i] \in {"underscore", "dollar"}
        \/ \E g \in Files \ {f} : Clean(NameOf(g)) = Clean(NameOf(f))
        \/ FinalName(f) = Clean(NameOf(f))

\* A field annotated with an enum of its own service refers to the component
\* of that enum.
AnnotatedFieldsKeepTheirEnum ==
    pass = 3 => \A f \in Files : declares[f] = "enum" =>
        components[jsDocRef(NameOf(f))] = f

\* The errors of an operation refer to the component of the class that its own
\* service declares.
ErrorsKeepTheirComponent ==
    \A f \in referred : components[errorClassToRef[ClassOf(f)]] = f

\* scripts/gen-openapi/README.md: references go "identifier -> source file ->
\* that file's component, so components stay correct even when names are
\* suffixed"; those of annotated fields and of errors do, too.
ReferencesKeepTheirComponent ==
    AnnotatedFieldsKeepTheirEnum /\ ErrorsKeepTheirComponent

=============================================================================
