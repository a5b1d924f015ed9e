----------------------------- MODULE Pagination -----------------------------
(***************************************************************************)
(* The loop of docs/services/secretscanner.md, which fetches every page of *)
(* detected secrets: secretscanner.Query under NextCursor until it is      *)
(* empty, while the server finds and resolves secrets between the pages.   *)
(*                                                                         *)
(* The server is external.  It lists the matching secrets in the order in  *)
(* which they were found, a cursor names the last secret of the page it    *)
(* came with, and the pages go on behind it even if that secret has been   *)
(* resolved meanwhile.                                                     *)
(***************************************************************************)
EXTENDS Integers, FiniteSets, Sequences

CONSTANTS MaxSecrets,   \* how many secrets the server ever finds
          PageLimits    \* the values of QueryInput.Limit, 0 when unset

ASSUME MaxSecretsAssumption == MaxSecrets \in Nat
ASSUME PageLimitsAssumption == PageLimits \subseteq Int

VARIABLES
    omitsMeta,   \* whether this server may leave out meta
    found,       \* the number of secrets found so far: they are 1 .. found
    resolved,    \* those that do not match the query any more
    limit,       \* in.Limit
    cursor,      \* in.Cursor, a secret or NoCursor
    listed,      \* the secrets the caller has been handed, in order
    pagePc,          \* "query", "done" or "error"
    stable,      \* the secrets that matched ever since the first page
    truncated    \* whether a page came without meta although more followed

pageVars ==
    <<omitsMeta, found, resolved, limit, cursor, listed, pagePc, stable,
      truncated>>

NoCursor == 0      \* the empty string
defaultPageLimit == 100
maxPageLimit == 100    \* "values above it are rejected"

Matching == (1 .. found) \ resolved

PageInit ==
    /\ omitsMeta \in BOOLEAN
    /\ found \in 0 .. MaxSecrets
    /\ resolved \in SUBSET (1 .. found)
    /\ limit \in PageLimits
    /\ cursor = NoCursor /\ listed = <<>> /\ pagePc = "query"
    /\ stable = Matching
    /\ truncated = FALSE

-----------------------------------------------------------------------------
(* The request.                                                            *)

pageLimit(in) == IF in > 0 THEN in ELSE defaultPageLimit

\* A mutant of CursorSent: the cursor never leaves the SDK.
CursorDropped(in) == {}

\* The query parameter, which is left out if the cursor is empty.
CursorSent(in) == {in} \ {NoCursor}

-----------------------------------------------------------------------------
(* The answer.                                                             *)

\* The first n members of a set of secrets.
FirstOf(n, S) == {s \in S : Cardinality({t \in S : t < s}) < n}

Behind(sent) == {s \in Matching : \A c \in sent : s > c}

Last(S) == CHOOSE s \in S : \A t \in S : t <= s

InOrder(S) ==
    CHOOSE q \in [1 .. Cardinality(S) -> S] :
        \A i, j \in DOMAIN q : i < j => q[i] < q[j]

\* A limit that was sent comes back as an integer.  Without one the page
\* carries the default as a string, which the decoder rejects; a limit below
\* 1 or above the maximum is refused.
PageIsAccepted(sent) == sent \in 1 .. maxPageLimit

Page == FirstOf(pageLimit(limit), Behind(CursorSent(cursor)))

More == Behind(CursorSent(cursor)) # Page

\* Two mutants of NextCursor: the cursor is that of the request, and the
\* last page has one as well.
NextCursorOfRequest(meta) == IF meta /\ More THEN cursor ELSE NoCursor

NextCursorAlways(meta) ==
    CASE ~meta -> NoCursor
      [] meta /\ Page = {} -> cursor
      [] OTHER -> Last(Page)

\* meta.NextCursor.Or(""), or "" when there is no meta.
NextCursor(meta) == IF meta /\ More THEN Last(Page) ELSE NoCursor

-----------------------------------------------------------------------------

\* One turn of the loop.
Query ==
    /\ pagePc = "query"
    /\ PageIsAccepted(pageLimit(limit))
    /\ \E meta \in IF omitsMeta THEN BOOLEAN ELSE {TRUE} :
         /\ listed' = listed \o InOrder(Page)
         /\ cursor' = NextCursor(meta)
         /\ pagePc' = IF NextCursor(meta) = NoCursor THEN "done" ELSE "query"
         /\ truncated' = (truncated \/ (More /\ ~meta))
    /\ UNCHANGED <<omitsMeta, found, resolved, limit, stable>>

\* The page is refused, or cannot be decoded: the caller returns the error.
QueryFails ==
    /\ pagePc = "query"
    /\ ~PageIsAccepted(pageLimit(limit))
    /\ pagePc' = "error"
    /\ UNCHANGED <<omitsMeta, found, resolved, limit, cursor, listed, stable,
                   truncated>>

Detect ==
    /\ found < MaxSecrets
    /\ found' = found + 1
    /\ UNCHANGED <<omitsMeta, resolved, limit, cursor, listed, pagePc, stable,
                   truncated>>

\* UpdateResolution of somebody else.
Resolve ==
    \E s \in Matching :
        /\ resolved' = resolved \cup {s}
        /\ stable' = IF pagePc = "query" THEN stable \ {s} ELSE stable
        /\ UNCHANGED <<omitsMeta, found, limit, cursor, listed, pagePc, truncated>>

PageNext ==
    \/ Query \/ QueryFails \/ Detect \/ Resolve
    \/ pagePc # "query" /\ UNCHANGED pageVars

\* Calls return, so the loop goes on; nothing is assumed of the server's
\* secrets but that MaxSecrets bounds them.
PageFairness == WF_pageVars(Query \/ QueryFails)

PageSpec == PageInit /\ [][PageNext]_pageVars /\ PageFairness

-----------------------------------------------------------------------------
(* Properties.                                                             *)

Handed == {listed[i] : i \in DOMAIN listed}

\* A secret that matched all the time is handed over when the loop ends,
\* whatever was found and resolved between the pages - as long as no page
\* came without meta, which looks like the last one.
WalkIsComplete ==
    pagePc = "done" /\ ~truncated => stable \subseteq Handed

\* No secret is handed over twice.
NothingTwice == Cardinality(Handed) = Len(listed)

\* The loop ends; with an error only if the caller has set a limit, as what is
\* sent for an unset one comes back in a form the decoder accepts.
WalkEnds == <>(pagePc = "done" \/ (pagePc = "error" /\ limit > 0))

=============================================================================
