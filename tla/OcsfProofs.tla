----------------------------- MODULE OcsfProofs -----------------------------
(***************************************************************************)
(* Proofs about Ocsf, for any secrets, visibilities and histories.         *)
(***************************************************************************)
EXTENDS Ocsf, TLAPS

\* The three switches agree on every resolution the API has.
LEMMA SwitchesAgree ==
    ASSUME NEW r \in Closing \cup {"ACTIVE"}, NEW v
    PROVE  /\ r \in Closing <=> statusIDFor(r) \in {"Resolved", "Suppressed"}
           /\ r = "ACTIVE" <=> statusIDFor(r) = "New"
           /\ statusIDFor(r) = "New"
                <=> severityIDFor(r, v) # "Informational"
           /\ activityIDFor(r) = "Close" <=> r \in Closing
           /\ activityIDFor(r) \in {"Close", "Update"}
<1>1. CASE r = "ACTIVE"
  BY <1>1 DEF statusIDFor, severityIDFor, activityIDFor, Closing
<1>2. CASE r \in Closing
  BY <1>2 DEF statusIDFor, severityIDFor, activityIDFor, Closing
<1>3. QED
  BY <1>1, <1>2

\* A resolution is one the API has, and a closing is in the feed.
LEMMA ResolutionIsLast ==
    ASSUME OcsfTypeOK, NEW s \in Secrets
    PROVE  /\ LastEntry(s) \in Entries
           /\ Resolution(s) \in Closing \cup {"ACTIVE"}
           /\ TimedClosing(LastEntry(s)) =>
                /\ Len(feed[s]) \in 1 .. Len(feed[s])
                /\ feed[s][Len(feed[s])] = LastEntry(s)
<1>1. feed[s] \in Seq(Entries)
  BY DEF OcsfTypeOK
<1>2. CASE feed[s] = <<>>
  BY <1>2 DEF LastEntry, Resolution, Unresolved, Entries, TimedClosing,
              Closing, NoTime
<1>3. CASE feed[s] # <<>>
  <2>1. Len(feed[s]) \in 1 .. Len(feed[s])
    BY <1>1, <1>3
  <2>2. feed[s][Len(feed[s])] \in Entries
    BY <1>1, <2>1
  <2>3. QED
    BY <1>3, <2>1, <2>2 DEF LastEntry, Resolution, Entries
<1>4. QED
  BY <1>2, <1>3

\* What an entry of the feed becomes.
LEMMA EntryEvents ==
    ASSUME OcsfTypeOK, FeedsAreTimed,
           NEW s \in Secrets, NEW i \in 1 .. Len(feed[s])
    PROVE  LET e == FromActivityFeedEntry(s, feed[s][i])
           IN  /\ feed[s][i].status \in Closing \cup {"ACTIVE"}
               /\ e.uid = s
               /\ e.status = statusIDFor(feed[s][i].status)
               /\ e.activity = activityIDFor(feed[s][i].status)
               /\ e.severity = severityIDFor(feed[s][i].status, "")
               /\ e.time \in {0, FoundAt + i}
               /\ TimedClosing(feed[s][i]) => e.time = FoundAt + i
               /\ feed[s][i].status = "ACTIVE" => e.time = 0
<1>1. feed[s] \in Seq(Entries) /\ feed[s][i] \in Entries
  BY DEF OcsfTypeOK
<1>2. feed[s][i].status \in Closing \cup {"ACTIVE"}
  BY <1>1 DEF Entries
<1>3. i \in Nat
  BY <1>1
<1>4. /\ feed[s][i].resolvedAt \in {NoTime, FoundAt + i}
      /\ feed[s][i].status = "ACTIVE" => feed[s][i].resolvedAt = NoTime
  BY DEF FeedsAreTimed
<1>5. FromActivityFeedEntry(s, feed[s][i]).time =
        parseTimeMillis(feed[s][i].resolvedAt)
  BY DEF FromActivityFeedEntry
<1>6. /\ parseTimeMillis(feed[s][i].resolvedAt) \in {0, FoundAt + i}
      /\ TimedClosing(feed[s][i]) =>
           parseTimeMillis(feed[s][i].resolvedAt) = FoundAt + i
      /\ feed[s][i].status = "ACTIVE" =>
           parseTimeMillis(feed[s][i].resolvedAt) = 0
  BY <1>3, <1>4 DEF parseTimeMillis, TimedClosing, NoTime, FoundAt
<1>7. QED
  BY <1>2, <1>5, <1>6 DEF FromActivityFeedEntry

\* The event of a listed secret is no later than its detection.
LEMMA ListedEvents ==
    ASSUME OcsfTypeOK, NEW s \in Secrets, NEW r \in Closing \cup {"ACTIVE"}
    PROVE  LET e == fromDetectedSecret(s, r)
           IN  /\ e.uid = s /\ e.activity = "Create"
               /\ e.status = statusIDFor(r)
               /\ e.severity = severityIDFor(r, visibility[s])
               /\ e.time \in {0, FoundAt}
<1>1. detectedAt[s] \in {NoTime, FoundAt}
  BY DEF OcsfTypeOK
<1>2. parseTimeMillis(detectedAt[s]) \in {0, FoundAt}
  BY <1>1 DEF parseTimeMillis, NoTime, FoundAt
<1>3. QED
  BY <1>2 DEF fromDetectedSecret

\* Before the first export the lake is empty.
LEMMA OcsfInitInv == OcsfInit => OcsfInv
<1> SUFFICES ASSUME OcsfInit PROVE OcsfInv
  OBVIOUS
<1>1. \A s \in Secrets : feed[s] = <<>> /\ Len(feed[s]) = 0
  BY DEF OcsfInit
<1>2. OcsfTypeOK
  BY DEF OcsfInit, OcsfTypeOK, Unresolved, Entries, NoTime
<1>3. EventsAgree /\ LakeIsFed
  BY DEF OcsfInit, EventsAgree, LakeIsFed
<1>4. FeedsAreTimed
  BY <1>1 DEF FeedsAreTimed
<1>5. ToldIsLatest
  BY DEF OcsfInit, ToldIsLatest, TimedClosing, Unresolved, Closing
<1>6. QED
  BY <1>2, <1>3, <1>4, <1>5 DEF OcsfInv

\* A change appends to one feed and leaves what the lake rests on.
LEMMA ChangeInv ==
    ASSUME OcsfInv, NEW s \in Secrets, Change(s)
    PROVE  OcsfInv'
<1>1. PICK r \in Closing \cup {"ACTIVE"},
           at \in {NoTime, FoundAt + 1 + Len(feed[s])} :
        /\ r = "ACTIVE" => at = NoTime
        /\ feed' = [feed EXCEPT ![s] =
                      Append(@, [status |-> r, resolvedAt |-> at])]
  BY DEF Change
<1>2. \A t \in Secrets : feed[t] \in Seq(Entries)
  BY DEF OcsfInv, OcsfTypeOK
<1> DEFINE new == [status |-> r, resolvedAt |-> at]
<1>3. Len(feed[s]) \in Nat /\ at \in Int
  BY <1>2 DEF NoTime, FoundAt
<1>4. new \in Entries
  BY <1>3 DEF Entries
<1>5. /\ feed' \in [Secrets -> Seq(Entries)]
      /\ \A t \in Secrets \ {s} : feed'[t] = feed[t]
      /\ feed'[s] = Append(feed[s], new)
  BY <1>1, <1>2, <1>4 DEF OcsfInv, OcsfTypeOK
<1>6. /\ Len(feed'[s]) = Len(feed[s]) + 1
      /\ \A i \in 1 .. Len(feed[s]) : feed'[s][i] = feed[s][i]
      /\ feed'[s][Len(feed[s]) + 1] = new
  BY <1>2, <1>4, <1>5
<1>7. \A t \in Secrets : \A i \in 1 .. Len(feed[t]) :
        i \in 1 .. Len(feed'[t]) /\ feed'[t][i] = feed[t][i]
  <2> SUFFICES ASSUME NEW t \in Secrets, NEW i \in 1 .. Len(feed[t])
               PROVE  i \in 1 .. Len(feed'[t]) /\ feed'[t][i] = feed[t][i]
    OBVIOUS
  <2>1. CASE t = s
    BY <1>3, <1>6, <2>1
  <2>2. CASE t # s
    BY <1>5, <2>2
  <2>3. QED
    BY <2>1, <2>2
<1>8. UNCHANGED <<visibility, detectedAt, page, lastTold, lake>>
  BY DEF Change
<1>9. OcsfTypeOK' /\ EventsAgree'
  BY <1>5, <1>8 DEF OcsfInv, OcsfTypeOK, EventsAgree
<1>10. FeedsAreTimed'
  <2> SUFFICES ASSUME NEW t \in Secrets, NEW i \in 1 .. Len(feed'[t])
               PROVE  /\ feed'[t][i].resolvedAt \in {NoTime, FoundAt + i}
                      /\ feed'[t][i].status = "ACTIVE"
                           => feed'[t][i].resolvedAt = NoTime
    BY DEF FeedsAreTimed
  <2>1. CASE i \in 1 .. Len(feed[t])
    BY <1>7, <2>1 DEF OcsfInv, FeedsAreTimed
  <2>2. CASE i \notin 1 .. Len(feed[t])
    <3>1. t = s /\ i = Len(feed[s]) + 1
      BY <1>3, <1>5, <1>6, <2>2
    <3>2. feed'[t][i] = new
      BY <1>6, <3>1
    <3>3. at \in {NoTime, FoundAt + i}
      BY <1>3, <3>1 DEF FoundAt
    <3>4. QED
      BY <1>1, <3>2, <3>3
  <2>3. QED
    BY <2>1, <2>2
<1>11. LakeIsFed'
  <2> SUFFICES ASSUME NEW e \in lake, ~(e.time <= FoundAt)
               PROVE  \E i \in 1 .. Len(feed'[e.uid]) :
                        /\ feed'[e.uid][i].status \in Closing
                        /\ e = FromActivityFeedEntry(e.uid, feed'[e.uid][i])
    BY <1>8 DEF LakeIsFed, FromActivityFeedEntry
  <2>1. e.uid \in Secrets
    BY DEF OcsfInv, OcsfTypeOK
  <2>2. PICK i \in 1 .. Len(feed[e.uid]) :
          /\ feed[e.uid][i].status \in Closing
          /\ e = FromActivityFeedEntry(e.uid, feed[e.uid][i])
    BY DEF OcsfInv, LakeIsFed
  <2>3. i \in 1 .. Len(feed'[e.uid]) /\ feed'[e.uid][i] = feed[e.uid][i]
    BY <1>7, <2>1
  <2>4. QED
    BY <2>2, <2>3
<1>12. ToldIsLatest'
  <2> SUFFICES ASSUME NEW t \in Secrets, TimedClosing(lastTold[t])
               PROVE  \E k \in 1 .. Len(feed'[t]) :
                        /\ feed'[t][k] = lastTold[t]
                        /\ FromActivityFeedEntry(t, feed'[t][k]) \in lake
                        /\ \A e \in EventsOf(t) : e.time <= FoundAt + k
    BY <1>8 DEF ToldIsLatest, EventsOf, FromActivityFeedEntry
  <2>1. PICK k \in 1 .. Len(feed[t]) :
          /\ feed[t][k] = lastTold[t]
          /\ FromActivityFeedEntry(t, feed[t][k]) \in lake
          /\ \A e \in EventsOf(t) : e.time <= FoundAt + k
    BY DEF OcsfInv, ToldIsLatest
  <2>2. QED
    BY <1>7, <2>1
<1>13. QED
  BY <1>9, <1>10, <1>11, <1>12 DEF OcsfInv

\* The events of a secret join the lake, and its last entry is the latest.
LEMMA LocateInv ==
    ASSUME OcsfInv, NEW s \in Secrets, Locate(s)
    PROVE  OcsfInv'
<1> USE DEF OcsfInv
<1>1. s \in DOMAIN page /\ page[s] \in Closing \cup {"ACTIVE"}
  BY DEF Locate, OcsfTypeOK
<1> DEFINE base == fromDetectedSecret(s, page[s])
<1>2. /\ lake' = lake \cup {base} \cup FromActivityFeed(s, feed[s])
      /\ lastTold' = [lastTold EXCEPT ![s] = LastEntry(s)]
      /\ UNCHANGED <<visibility, detectedAt, feed, page>>
  BY DEF Locate
<1>3. /\ base.uid = s /\ base.activity = "Create"
      /\ base.status = statusIDFor(page[s])
      /\ base.severity = severityIDFor(page[s], visibility[s])
      /\ base.time \in {0, FoundAt}
  BY <1>1, ListedEvents
<1> HIDE DEF base
<1>4. feed[s] \in Seq(Entries) /\ DOMAIN feed[s] = 1 .. Len(feed[s])
  BY DEF OcsfTypeOK
<1>5. \A e \in lake' :
        \/ e \in lake
        \/ e = base
        \/ \E i \in 1 .. Len(feed[s]) : e = FromActivityFeedEntry(s, feed[s][i])
  BY <1>2, <1>4 DEF FromActivityFeed
<1>6. \A i \in 1 .. Len(feed[s]) : FromActivityFeedEntry(s, feed[s][i]) \in lake'
  BY <1>2, <1>4 DEF FromActivityFeed
<1>7. \A e \in lake' : e \in lake \/ (e.uid = s /\ e.time \in Int)
  <2>1. base.time \in Int
    BY <1>3 DEF FoundAt
  <2>2. ASSUME NEW i \in 1 .. Len(feed[s])
        PROVE  /\ FromActivityFeedEntry(s, feed[s][i]).uid = s
               /\ FromActivityFeedEntry(s, feed[s][i]).time \in Int
    <3>1. /\ FromActivityFeedEntry(s, feed[s][i]).uid = s
          /\ FromActivityFeedEntry(s, feed[s][i]).time \in {0, FoundAt + i}
      BY EntryEvents
    <3>2. QED
      BY <3>1 DEF FoundAt
  <2>3. QED
    BY <1>3, <1>5, <2>1, <2>2
<1>8. OcsfTypeOK'
  <2>1. LastEntry(s) \in Entries
    BY ResolutionIsLast
  <2>2. \A e \in lake' : e.uid \in Secrets /\ e.time \in Int
    BY <1>7 DEF OcsfTypeOK
  <2>3. QED
    BY <1>2, <2>1, <2>2 DEF OcsfTypeOK
<1>9. EventsAgree'
  <2> SUFFICES ASSUME NEW e \in lake'
               PROVE  /\ e.activity = "Close"
                           => e.status \in {"Resolved", "Suppressed"}
                      /\ e.activity = "Update" => e.status = "New"
                      /\ e.status = "New" <=> e.severity # "Informational"
    BY DEF EventsAgree
  <2>1. CASE e \in lake
    BY <2>1 DEF EventsAgree
  <2>2. CASE e = base
    <3>1. /\ page[s] \in Closing <=>
               statusIDFor(page[s]) \in {"Resolved", "Suppressed"}
          /\ statusIDFor(page[s]) = "New"
               <=> severityIDFor(page[s], visibility[s]) # "Informational"
      BY <1>1, SwitchesAgree
    <3>2. e.activity # "Close" /\ e.activity # "Update"
      BY <1>3, <2>2
    <3>3. QED
      BY <1>3, <2>2, <3>1, <3>2
  <2>3. ASSUME NEW i \in 1 .. Len(feed[s]),
               e = FromActivityFeedEntry(s, feed[s][i])
        PROVE  /\ e.activity = "Close"
                    => e.status \in {"Resolved", "Suppressed"}
               /\ e.activity = "Update" => e.status = "New"
               /\ e.status = "New" <=> e.severity # "Informational"
    <3>1. /\ feed[s][i].status \in Closing \cup {"ACTIVE"}
          /\ e.status = statusIDFor(feed[s][i].status)
          /\ e.activity = activityIDFor(feed[s][i].status)
          /\ e.severity = severityIDFor(feed[s][i].status, "")
      BY <2>3, EntryEvents
    <3>2. feed[s][i].status \notin Closing => feed[s][i].status = "ACTIVE"
      BY <3>1
    <3>3. QED
      BY <3>1, <3>2, SwitchesAgree
  <2>4. QED
    BY <1>5, <2>1, <2>2, <2>3
<1>10. FeedsAreTimed'
  BY <1>2 DEF FeedsAreTimed
<1>11. LakeIsFed'
  <2> SUFFICES ASSUME NEW e \in lake'
               PROVE  \/ e.time <= FoundAt
                      \/ \E i \in 1 .. Len(feed[e.uid]) :
                           /\ feed[e.uid][i].status \in Closing
                           /\ e = FromActivityFeedEntry(e.uid, feed[e.uid][i])
    <3>1. feed' = feed
      BY <1>2
    <3>2. QED
      BY <3>1 DEF LakeIsFed, FromActivityFeedEntry
  <2>1. CASE e \in lake
    BY <2>1 DEF LakeIsFed
  <2>2. CASE e = base
    BY <1>3, <2>2 DEF FoundAt
  <2>3. ASSUME NEW i \in 1 .. Len(feed[s]),
               e = FromActivityFeedEntry(s, feed[s][i])
        PROVE  \/ e.time <= FoundAt
               \/ \E j \in 1 .. Len(feed[e.uid]) :
                    /\ feed[e.uid][j].status \in Closing
                    /\ e = FromActivityFeedEntry(e.uid, feed[e.uid][j])
    <3>1. /\ feed[s][i].status \in Closing \cup {"ACTIVE"}
          /\ e.uid = s
          /\ feed[s][i].status = "ACTIVE" => e.time = 0
      BY <2>3, EntryEvents
    <3>2. CASE feed[s][i].status = "ACTIVE"
      BY <3>1, <3>2 DEF FoundAt
    <3>3. CASE feed[s][i].status \in Closing
      BY <2>3, <3>1, <3>3
    <3>4. QED
      BY <3>1, <3>2, <3>3
  <2>4. QED
    BY <1>5, <2>1, <2>2, <2>3
<1>12. ToldIsLatest'
  <2> SUFFICES ASSUME NEW t \in Secrets, TimedClosing(lastTold'[t])
               PROVE  \E k \in 1 .. Len(feed[t]) :
                        /\ feed[t][k] = lastTold'[t]
                        /\ FromActivityFeedEntry(t, feed[t][k]) \in lake'
                        /\ \A e \in lake' : e.uid = t => e.time <= FoundAt + k
    <3>1. feed' = feed
      BY <1>2
    <3>2. QED
      BY <3>1 DEF ToldIsLatest, EventsOf, FromActivityFeedEntry
  <2>1. CASE t # s
    <3>1. lastTold'[t] = lastTold[t]
      BY <1>2, <2>1 DEF OcsfTypeOK
    <3>2. PICK k \in 1 .. Len(feed[t]) :
            /\ feed[t][k] = lastTold[t]
            /\ FromActivityFeedEntry(t, feed[t][k]) \in lake
            /\ \A e \in EventsOf(t) : e.time <= FoundAt + k
      BY <3>1 DEF ToldIsLatest
    <3>3. QED
      BY <1>2, <1>7, <2>1, <3>1, <3>2 DEF EventsOf
  <2>2. CASE t = s
    <3> DEFINE k == Len(feed[s])
    <3>1. lastTold'[s] = LastEntry(s)
      BY <1>2 DEF OcsfTypeOK
    <3>2. k \in 1 .. Len(feed[s]) /\ feed[s][k] = lastTold'[s]
      BY <2>2, <3>1, ResolutionIsLast
    <3>3. k \in Nat
      BY <1>4
    <3>4. \A i \in 1 .. Len(feed[s]) :
            FromActivityFeedEntry(s, feed[s][i]).time <= FoundAt + k
      <4> SUFFICES ASSUME NEW i \in 1 .. Len(feed[s])
                   PROVE  FromActivityFeedEntry(s, feed[s][i]).time
                            <= FoundAt + k
        OBVIOUS
      <4>1. FromActivityFeedEntry(s, feed[s][i]).time \in {0, FoundAt + i}
        BY EntryEvents
      <4>2. QED
        BY <3>3, <4>1 DEF FoundAt
    <3>5. ASSUME NEW e \in lake', e.uid = s
          PROVE  e.time <= FoundAt + k
      <4>1. CASE e \in lake
        <5>1. e.time \in Int
          BY <4>1 DEF OcsfTypeOK
        <5>2. CASE e.time <= FoundAt
          BY <3>3, <5>1, <5>2 DEF FoundAt
        <5>3. CASE ~(e.time <= FoundAt)
          BY <3>4, <3>5, <4>1, <5>3 DEF LakeIsFed
        <5>4. QED
          BY <5>2, <5>3
      <4>2. CASE e = base
        BY <1>3, <3>3, <4>2 DEF FoundAt
      <4>3. QED
        BY <1>5, <3>4, <4>1, <4>2
    <3>6. QED
      BY <1>6, <2>2, <3>2, <3>5
  <2>3. QED
    BY <2>1, <2>2
<1>13. QED
  BY <1>8, <1>9, <1>10, <1>11, <1>12

\* Every step keeps the invariant.
LEMMA OcsfNextInv == OcsfInv /\ [OcsfNext]_ocsfVars => OcsfInv'
<1> SUFFICES ASSUME OcsfInv, [OcsfNext]_ocsfVars PROVE OcsfInv'
  OBVIOUS
<1> DEFINE Kept == UNCHANGED <<visibility, detectedAt, feed, lastTold, lake>>
<1>1. ASSUME Kept, OcsfTypeOK' PROVE OcsfInv'
  <2>1. feed' = feed /\ lastTold' = lastTold /\ lake' = lake
    BY <1>1
  <2>2. EventsAgree' /\ FeedsAreTimed'
    BY <2>1 DEF OcsfInv, EventsAgree, FeedsAreTimed
  <2>3. LakeIsFed'
    BY <2>1 DEF OcsfInv, LakeIsFed, FromActivityFeedEntry
  <2>4. ToldIsLatest'
    BY <2>1 DEF OcsfInv, ToldIsLatest, EventsOf, FromActivityFeedEntry
  <2>5. QED
    BY <1>1, <2>2, <2>3, <2>4 DEF OcsfInv
<1>2. CASE QuerySecrets
  <2>1. \A s \in Secrets : Resolution(s) \in Closing \cup {"ACTIVE"}
    BY ResolutionIsLast DEF OcsfInv
  <2>2. Kept
    BY <1>2 DEF QuerySecrets
  <2>3. CASE page' = [s \in Secrets |-> Resolution(s)]
    BY <1>1, <2>1, <2>2, <2>3 DEF OcsfInv, OcsfTypeOK
  <2>4. CASE page' = [s \in {} |-> "ACTIVE"]
    BY <1>1, <2>2, <2>4 DEF OcsfInv, OcsfTypeOK
  <2>5. QED
    BY <1>2, <2>3, <2>4 DEF QuerySecrets
<1>3. CASE ExportFails
  BY <1>1, <1>3 DEF ExportFails, OcsfInv, OcsfTypeOK
<1>4. CASE \E s \in Secrets : Change(s)
  BY <1>4, ChangeInv
<1>5. CASE \E s \in Secrets : Locate(s)
  BY <1>5, LocateInv
<1>6. CASE UNCHANGED ocsfVars
  BY <1>1, <1>6 DEF ocsfVars, OcsfInv, OcsfTypeOK
<1>7. QED
  BY <1>2, <1>3, <1>4, <1>5, <1>6 DEF OcsfNext

\* The lake agrees with the feeds it was filled from, at all times.
THEOREM LakeInvariance == OcsfSpec => []OcsfInv
<1>1. OcsfInit => OcsfInv
  BY OcsfInitInv
<1>2. OcsfInv /\ [OcsfNext]_ocsfVars => OcsfInv'
  BY OcsfNextInv
<1>3. QED
  BY <1>1, <1>2, PTL DEF OcsfSpec

\* Events never contradict themselves.
THEOREM EventsAlwaysAgree == OcsfSpec => []EventsAgree
BY LakeInvariance, PTL DEF OcsfInv

\* A secret known to be closed at a known time is closed in the lake.
THEOREM ClosuresShow == OcsfSpec => []ClosedSecretsLookClosed
<1>1. OcsfInv => ClosedSecretsLookClosed
  <2> SUFFICES ASSUME OcsfInv,
                      NEW s \in Secrets, TimedClosing(lastTold[s]),
                      NEW e \in EventsOf(s),
                      \A f \in EventsOf(s) : f.time <= e.time
               PROVE  e.status = statusIDFor(lastTold[s].status)
    BY DEF ClosedSecretsLookClosed
  <2> DEFINE entry(i) == FromActivityFeedEntry(s, feed[s][i])
  <2>1. PICK k \in 1 .. Len(feed[s]) :
          /\ feed[s][k] = lastTold[s]
          /\ entry(k) \in lake
          /\ \A f \in EventsOf(s) : f.time <= FoundAt + k
    BY DEF OcsfInv, ToldIsLatest
  <2>2. entry(k).uid = s /\ entry(k).time = FoundAt + k
    BY <2>1, EntryEvents DEF OcsfInv
  <2>3. FoundAt + k <= e.time /\ e.time <= FoundAt + k
    BY <2>1, <2>2 DEF EventsOf
  <2>4. feed[s] \in Seq(Entries) /\ k \in Nat /\ k >= 1
    BY <2>1 DEF OcsfInv, OcsfTypeOK
  <2>5. e \in lake /\ e.uid = s /\ e.time \in Int
    BY DEF EventsOf, OcsfInv, OcsfTypeOK
  <2>6. CASE e.time <= FoundAt
    BY <2>3, <2>4, <2>5, <2>6 DEF FoundAt
  <2>7. ASSUME NEW i \in 1 .. Len(feed[s]),
               feed[s][i].status \in Closing, e = entry(i)
        PROVE  e.status = statusIDFor(lastTold[s].status)
    <3>1. /\ e.time \in {0, FoundAt + i}
          /\ e.status = statusIDFor(feed[s][i].status)
      BY <2>7, EntryEvents DEF OcsfInv
    <3>2. i = k
      BY <2>3, <2>4, <2>7, <3>1 DEF FoundAt
    <3>3. QED
      BY <2>1, <3>1, <3>2
  <2>8. QED
    BY <2>5, <2>6, <2>7 DEF OcsfInv, LakeIsFed
<1>2. QED
  BY <1>1, LakeInvariance, PTL

=============================================================================
