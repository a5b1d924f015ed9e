--------------------------- MODULE TagsRoundTrip ----------------------------
(***************************************************************************)
(* Editors who each add a tag to one collection with the tags package:     *)
(* Collection reads the list, UpdateCollection replaces it.  Nothing tells *)
(* an editor that the list was changed in between, and tagsFromRaw turns a *)
(* list it cannot parse into no tags at all.  (Workspace and               *)
(* UpdateWorkspace differ in their paths only.)                            *)
(***************************************************************************)
EXTENDS Integers, FiniteSets

CONSTANTS Editors, Tags,
          Adds,      \* the tag each editor adds
          MaxTags    \* "up to 5"

ASSUME TagsAssumption ==
    /\ IsFiniteSet(Tags) /\ Adds \in [Editors -> Tags]
    /\ MaxTags \in Nat

VARIABLES
    stored,    \* the tags of the collection on the server
    tagsPc,        \* "read", "write", "done"
    copy,      \* the list the editor has read
    blind,     \* whether what it read was not the list of the server
    stale      \* whether somebody has written since it read

tagVars == <<stored, tagsPc, copy, blind, stale>>

\* The raw member "tags": left out, or in one of two shapes - the objects
\* [{"slug": ...}] that the package knows, or something else.
Raws == [shape: {"absent", "objects", "other"}, slugs: SUBSET Tags]

\* A mutant of tagsFromRaw: the slug is read from a member of another name.
tagsFromRawUntagged(raw) == {}

\* "if err := json.Unmarshal(raw, &tagObjs); err != nil { return nil }".
tagsFromRaw(raw) == IF raw.shape = "objects" THEN raw.slugs ELSE {}

tagsToRaw(slugs) == [shape |-> "objects", slugs |-> slugs]

TagsInit ==
    /\ stored \in {S \in SUBSET Tags : Cardinality(S) <= MaxTags}
    /\ tagsPc = [e \in Editors |-> "read"]
    /\ copy = [e \in Editors |-> {}]
    /\ blind = [e \in Editors |-> FALSE]
    /\ stale = [e \in Editors |-> FALSE]

\* Collection: a 200 with the list in some shape.
Read(e) ==
    /\ tagsPc[e] = "read"
    /\ \E raw \in Raws :
         /\ raw.slugs = stored
         /\ copy' = [copy EXCEPT ![e] = tagsFromRaw(raw)]
         /\ blind' = [blind EXCEPT ![e] = raw.shape # "objects"]
    /\ stale' = [stale EXCEPT ![e] = FALSE]
    /\ tagsPc' = [tagsPc EXCEPT ![e] = "write"]
    /\ UNCHANGED stored

\* The list the editor sends.
Edited(e) == tagsToRaw(copy[e] \cup {Adds[e]})

\* The server replaces the list.  The editor is told so, or gets a plain
\* error; then it may read and try again.
Write(e) ==
    /\ tagsPc[e] = "write"
    /\ Cardinality(Edited(e).slugs) <= MaxTags
    /\ stored' = Edited(e).slugs
    /\ stale' = [o \in Editors |-> stale[o] \/ o # e]
    /\ \E told \in BOOLEAN :
         tagsPc' = [tagsPc EXCEPT ![e] = IF told THEN "done" ELSE "read"]
    /\ UNCHANGED <<copy, blind>>

\* Any error of either call: too many tags, or one that leaves the server as
\* it is.
EditFails(e) ==
    /\ tagsPc[e] \in {"read", "write"}
    /\ tagsPc' = [tagsPc EXCEPT ![e] = "done"]
    /\ UNCHANGED <<stored, copy, blind, stale>>

TagsNext ==
    \/ \E e \in Editors : Read(e) \/ Write(e) \/ EditFails(e)
    \/ (\A e \in Editors : tagsPc[e] = "done") /\ UNCHANGED tagVars

TagsSpec == TagsInit /\ [][TagsNext]_tagVars

-----------------------------------------------------------------------------

\* A tag leaves the list only in a write of an editor who could not read the
\* list, or after whose reading somebody else wrote: the step that drops it is
\* that editor's own, which ends its "write".
TagsAreErasedBlindly ==
    [][\A t \in stored \ stored' :
          \E e \in Editors : /\ tagsPc[e] = "write" /\ tagsPc'[e] # "write"
                             /\ blind[e] \/ stale[e]]_tagVars

\* What an editor holds is the server's list unless it read blindly or has
\* been overtaken.
CopiesAreTrue ==
    \A e \in Editors :
        tagsPc[e] = "write" /\ ~blind[e] /\ ~stale[e] => copy[e] = stored

=============================================================================
