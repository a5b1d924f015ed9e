---------------------------- MODULE MCRoundTrip -----------------------------
(* All 196 service methods, with ordinary identifiers, which differ from    *)
(* place to place, and with odd ones.                                      *)
EXTENDS RoundTripProofs

\* The segments of all routes, and texts that conversions change.
MCWords ==
    (UNION {{p[i] : i \in DOMAIN p} : p \in DOMAIN Leaves} \ {"*"})
        \cup {"empty", "a/b", "%41"}

\* Those that stand next to a parameter in some route.
MCFewWords == {"collection-forks", "fork", "merge", "all", "empty"}

MCOrdinary(shape) ==
    [i \in DOMAIN shape |->
        CASE shape[i] = "id" -> <<"id1", "id2", "id3">>[i]
          [] shape[i] = "number" -> Number
          [] OTHER -> shape[i]]

\* The lists of a set, and those with one identifier replaced by a word.
MCVary(lists, shape, words) ==
    lists \cup {[l[1] EXCEPT ![l[2]] = l[3]] :
                    l \in lists \X {i \in DOMAIN shape : shape[i] = "id"}
                                \X words}

\* The route that starts with a parameter may be that of a collection.
MCBase(name) ==
    LET shape == CallOf(name).args
        list  == MCOrdinary(shape)
    IN  {list} \cup IF Client[CallOf(name).op].path[1] = "*"
                   THEN {[list EXCEPT ![1] = "collections"]} ELSE {}

\* Every word in every place, also next to the "fork" whose prefix is lost, and
\* two of the few words in any two places.
MCLists(name) ==
    LET shape == CallOf(name).args
        base  == MCBase(name)
    IN  MCVary(MCVary(base, shape, {"fork"}), shape, MCWords) \cup
        MCVary(MCVary(base, shape, MCFewWords), shape, MCFewWords)

\* One of two odd words in each place.
MCFewLists ==
    [name \in OperationNames |->
        LET shape == CallOf(name).args
        IN  MCVary({MCOrdinary(shape)}, shape, {"fork", "empty"})]

MCNames == OperationNames

\* Both values of what an operation has, one of what it has not.
MCEither(has) == IF has THEN BOOLEAN ELSE {TRUE}

\* With one of the few lists, the rest of the call may be anything, and so may
\* what the handler does; with the others, it is as usual.
MCSettings(name, args) ==
    LET op  == CallOf(name).op
        few == args \in MCFewLists[name]
    IN  [options: MCEither(few /\ Client[op].query.optional # {}),
         enumsOk: MCEither(few /\ Server[op].params.enums # {}),
         bodyOk: MCEither(few /\ Server[op].body.checked)]

MCConducts(c) ==
    IF c.args \in MCFewLists[c.name]
    THEN {"answer", "foreign", "error", "unimplemented"}
    ELSE {"error"}

=============================================================================
