-------------------------------- MODULE Ocsf --------------------------------
(***************************************************************************)
(* Exporting detected secrets as OCSF events: the loop of                  *)
(* docs/guides/ocsf.md, which queries the Secret Scanner, fetches the      *)
(* locations and the activity feed of every secret, maps them with package *)
(* ocsf and stores the events, while administrators resolve secrets and    *)
(* secrets become active again.  It runs any number of times.              *)
(*                                                                         *)
(* The server and the lake are external: the one keeps the history of each *)
(* secret, the other is a set of events that orders them by time.          *)
(***************************************************************************)
EXTENDS Integers, Sequences

CONSTANTS Secrets,         \* the secrets of the team
          Visibilities,    \* what workspaceVisibility may be, "" if missing
          MaxChanges       \* how often the status of a secret changes

ASSUME ChangesAssumption == MaxChanges \in Nat

VARIABLES
    visibility, detectedAt,   \* the server: where and when a secret was found
    feed,          \* the server: activityFeed, the changes of its resolution
    page,          \* QueryResult.Secrets: the resolution each secret had
    located,       \* the secrets of this page whose events are stored
    lastTold,      \* the last entry of the feed at the last call of Locations
    lake,          \* the stored events
    exportPc       \* "idle", "locating" or "failed"

ocsfVars ==
    <<visibility, detectedAt, feed, page, located, lastTold, lake, exportPc>>

NoTime   == -1      \* the empty string
FoundAt  == 1       \* changes follow at 2, 3, ...
Closing  == {"REVOKED", "FALSE_POSITIVE", "ACCEPTED_RISK"}

\* The resolution of a secret is the status of the last entry of its feed.
Unresolved == [status |-> "ACTIVE", resolvedAt |-> NoTime]
LastEntry(s) == IF feed[s] = <<>> THEN Unresolved ELSE feed[s][Len(feed[s])]
Resolution(s) == LastEntry(s).status

OcsfInit ==
    /\ visibility \in [Secrets -> Visibilities]
    /\ detectedAt \in [Secrets -> {NoTime, FoundAt}]
    /\ feed = [s \in Secrets |-> <<>>]
    /\ page = [s \in {} |-> "ACTIVE"] /\ located = {}
    /\ lastTold = [s \in Secrets |-> Unresolved]
    /\ lake = {}
    /\ exportPc = "idle"

-----------------------------------------------------------------------------
(* Package ocsf.                                                           *)

\* A mutant of parseTimeMillis: an unknown time is taken for now.
parseTimeMillisNow(t) == IF t = NoTime THEN FoundAt + MaxChanges + 1 ELSE t

\* Milliseconds since the epoch, or the epoch.
parseTimeMillis(t) == IF t = NoTime THEN 0 ELSE t

\* A mutant of statusIDFor: ACCEPTED_RISK falls into the default branch.
statusIDForRevokedAndFalse(r) ==
    CASE r = "REVOKED" -> "Resolved"
      [] r = "FALSE_POSITIVE" -> "Suppressed"
      [] OTHER -> "New"

statusIDFor(r) ==
    CASE r = "REVOKED" -> "Resolved"
      [] r \in {"FALSE_POSITIVE", "ACCEPTED_RISK"} -> "Suppressed"
      [] OTHER -> "New"

severityIDFor(r, v) ==
    CASE r \notin {"ACTIVE", ""} -> "Informational"
      [] r \in {"ACTIVE", ""} /\ v = "public" -> "Critical"
      [] r \in {"ACTIVE", ""} /\ v = "partner" -> "High"
      [] r \in {"ACTIVE", ""} /\ v \in {"personal", "private"} -> "Low"
      [] OTHER -> "Medium"

activityIDFor(r) == IF r \in {"ACTIVE", ""} THEN "Update" ELSE "Close"

\* The event of a secret as the query has listed it.
fromDetectedSecret(s, resolution) ==
    [uid |-> s, activity |-> "Create",
     time |-> parseTimeMillis(detectedAt[s]),
     severity |-> severityIDFor(resolution, visibility[s]),
     status |-> statusIDFor(resolution)]

\* The event of a change of its resolution.
FromActivityFeedEntry(s, e) ==
    [uid |-> s, activity |-> activityIDFor(e.status),
     time |-> parseTimeMillis(e.resolvedAt),
     severity |-> severityIDFor(e.status, ""),
     status |-> statusIDFor(e.status)]

FromActivityFeed(s, entries) ==
    {FromActivityFeedEntry(s, entries[i]) : i \in DOMAIN entries}

-----------------------------------------------------------------------------
(* The server: an administrator closes a secret, or it is active again.    *)
(* The schema requires no resolvedAt: the entry of a closing has its time  *)
(* or none, one that says ACTIVE has none.                                 *)
Change(s) ==
    /\ Len(feed[s]) < MaxChanges
    /\ \E r \in (Closing \cup {"ACTIVE"}) \ {Resolution(s)},
          at \in {NoTime, FoundAt + 1 + Len(feed[s])} :
         /\ r = "ACTIVE" => at = NoTime
         /\ feed' = [feed EXCEPT ![s] =
                       Append(@, [status |-> r, resolvedAt |-> at])]
    /\ UNCHANGED <<visibility, detectedAt, page, located, lastTold, lake,
                   exportPc>>

-----------------------------------------------------------------------------
(* The export.                                                             *)

\* DataWorkspaceVisibility.Validate, which a missing member does not reach.
Validate(v) == v \in {"", "personal", "private", "team", "public"}

\* Query returns a page, or a decode error if one of its secrets has a
\* visibility the schema does not know.
QuerySecrets ==
    /\ exportPc # "locating"
    /\ located' = {}
    /\ IF \A s \in Secrets : Validate(visibility[s])
       THEN /\ page' = [s \in Secrets |-> Resolution(s)]
            /\ exportPc' = "locating"
       ELSE /\ page' = [s \in {} |-> "ACTIVE"]
            /\ exportPc' = "failed"
    /\ UNCHANGED <<visibility, detectedAt, feed, lastTold, lake>>

\* Locations of the next secret, and its events.
Locate(s) ==
    /\ exportPc = "locating" /\ s \in DOMAIN page \ located
    /\ lake' = lake \cup {fromDetectedSecret(s, page[s])}
                    \cup FromActivityFeed(s, feed[s])
    /\ lastTold' = [lastTold EXCEPT ![s] = LastEntry(s)]
    /\ located' = located \cup {s}
    /\ exportPc' = IF located' = DOMAIN page THEN "idle" ELSE exportPc
    /\ UNCHANGED <<visibility, detectedAt, feed, page>>

\* "return err" in either call.
ExportFails ==
    /\ exportPc' = "failed"
    /\ UNCHANGED <<visibility, detectedAt, feed, page, located, lastTold,
                   lake>>

OcsfNext ==
    \/ QuerySecrets \/ ExportFails
    \/ \E s \in Secrets : Change(s) \/ Locate(s)

OcsfSpec == OcsfInit /\ [][OcsfNext]_ocsfVars

-----------------------------------------------------------------------------
(* Properties.                                                             *)

EventsOf(s) == {e \in lake : e.uid = s}

\* Activity, status and severity come from three switches that agree: an
\* event closes a finding only with a closed status, and exactly the closed
\* ones are informational.
EventsAgree ==
    \A e \in lake :
        /\ e.activity = "Close" => e.status \in {"Resolved", "Suppressed"}
        /\ e.activity = "Update" => e.status = "New"
        /\ e.status = "New" <=> e.severity # "Informational"

\* An entry that closes its secret and says when.
TimedClosing(e) == e.status \in Closing /\ e.resolvedAt # NoTime

\* A secret that was closed, at a known time, when its feed was last read is
\* closed in the lake: its latest event has its status, whatever was stored
\* before, however old the page was, and although the times of its detection,
\* of reopenings and of earlier closings may be unknown.  (If the time of the
\* last closing is unknown, its event is at the epoch, before all others.)
ClosedSecretsLookClosed ==
    \A s \in Secrets : TimedClosing(lastTold[s]) =>
        \A e \in EventsOf(s) :
            (\A f \in EventsOf(s) : f.time <= e.time)
                => e.status = statusIDFor(lastTold[s].status)

(* What the lake holds of the feed, and what was told last.                *)

Entries == [status: Closing \cup {"ACTIVE"}, resolvedAt: Int]

OcsfTypeOK ==
    /\ detectedAt \in [Secrets -> {NoTime, FoundAt}]
    /\ feed \in [Secrets -> Seq(Entries)]
    /\ \A s \in DOMAIN page : page[s] \in Closing \cup {"ACTIVE"}
    /\ DOMAIN page \subseteq Secrets
    /\ lastTold \in [Secrets -> Entries]
    /\ \A e \in lake : e.uid \in Secrets /\ e.time \in Int

\* Closings have the time of their place in the feed or none, reopenings none.
FeedsAreTimed ==
    \A s \in Secrets : \A i \in 1 .. Len(feed[s]) :
        /\ feed[s][i].resolvedAt \in {NoTime, FoundAt + i}
        /\ feed[s][i].status = "ACTIVE" => feed[s][i].resolvedAt = NoTime

\* Only closings are later than the detection, and each is in the feed.
LakeIsFed ==
    \A e \in lake :
        \/ e.time <= FoundAt
        \/ \E i \in 1 .. Len(feed[e.uid]) :
             /\ feed[e.uid][i].status \in Closing
             /\ e = FromActivityFeedEntry(e.uid, feed[e.uid][i])

\* A timed closing that was told last is in the lake, with nothing later.
ToldIsLatest ==
    \A s \in Secrets : TimedClosing(lastTold[s]) =>
        \E k \in 1 .. Len(feed[s]) :
            /\ feed[s][k] = lastTold[s]
            /\ FromActivityFeedEntry(s, feed[s][k]) \in lake
            /\ \A e \in EventsOf(s) : e.time <= FoundAt + k

OcsfInv ==
    OcsfTypeOK /\ EventsAgree /\ FeedsAreTimed /\ LakeIsFed /\ ToldIsLatest

\* docs/guides/ocsf.md, "How Fields Are Mapped": the severity of an active
\* secret in a workspace of visibility partner is High.
PartnerSecretsAreHigh ==
    [][QuerySecrets => \A s \in Secrets :
         visibility[s] = "partner" /\ Resolution(s) = "ACTIVE" =>
            /\ s \in DOMAIN page'
            /\ severityIDFor(page'[s], visibility[s]) = "High"]_ocsfVars

=============================================================================
