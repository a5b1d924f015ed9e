----------------------------- MODULE MCWorkflows ----------------------------
(* The programs that callers build from several calls, on small instances. *)
(* They share no state, so each behaviour runs one of them, which is chosen*)
(* at the start; the others have come to their ends, or never begin.       *)
EXTENDS WorkflowsProofs, OcsfProofs

CONSTANTS Workflows, e1, e2, t1, t2, t3, t4

VARIABLE workflow    \* the one that runs

-----------------------------------------------------------------------------
(* Constants of the instances.                                             *)

MCReply(s, j, shape, m, f) ==
    [status |-> s, json |-> j,
     body |-> [json |-> shape, status |-> m, titled |-> TRUE, fits |-> f,
               usable |-> f]]

\* Operations that declare 429, and one that does not.
MCFns ==
    {Row(<<"sdkgen", "Generate">>), Row(<<"sdkgen", "List">>),
     Row(<<"sdkgen", "Download">>), Row(<<"workspaces", "List">>),
     Row(<<"serviceaccounts", "GenerateToken">>)}

\* Bodies agree with their status lines, or have no member status.
MCAnswers ==
    {MCReply(200, j, "object", 0, f) : j \in BOOLEAN, f \in BOOLEAN} \cup
    {MCReply(s[1], TRUE, "object", s[2], FALSE) :
        s \in {<<400, 400>>, <<429, 429>>, <<429, 0>>, <<500, 0>>,
               <<500, 500>>, <<502, 502>>}} \cup
    {MCReply(429, FALSE, "broken", 0, FALSE)}

MCStartAnswers ==
    {MCReply(200, TRUE, "object", 0, f) : f \in BOOLEAN} \cup
    {MCReply(s[1], TRUE, "object", s[2], FALSE) :
        s \in {<<400, 400>>, <<401, 0>>, <<403, 0>>, <<500, 500>>, <<502, 0>>}}

MCStatusAnswers ==
    {MCReply(200, TRUE, "object", 0, f) : f \in BOOLEAN} \cup
    {MCReply(s[1], TRUE, "object", s[2], FALSE) :
        s \in {<<401, 0>>, <<403, 403>>, <<404, 404>>, <<404, 0>>, <<500, 0>>}}

\* Up to four secrets in pages of one, two and a hundred.
MCPageLimits == {-1, 0, 1, 2, 101}

MCEditors == {e1, e2}
MCTags == {t1, t2, t3, t4}
MCAdds == [e \in MCEditors |-> IF e = e1 THEN t1 ELSE t2]

MCDelays == 0 .. 3

MCVisibilities == {"", "personal", "team", "public"}
MCDocumented   == {"public", "partner", "team", "personal", "private"}

-----------------------------------------------------------------------------
(* Where a workflow that does not run stands.                              *)

RetryEnded ==
    /\ fn = CHOOSE f \in Fns : TRUE
    /\ maxAttempts = 0 /\ attempt = 0 /\ err = Nil /\ retryPc = "done"
    /\ cancelled = FALSE /\ reply = NoAnswer /\ applied = 0

PagesEnded ==
    /\ omitsMeta = FALSE
    /\ found = 0 /\ resolved = {} /\ limit = 0
    /\ cursor = NoCursor /\ listed = <<>> /\ pagePc = "done"
    /\ stable = {} /\ truncated = FALSE

TagsEnded ==
    /\ stored = {}
    /\ tagsPc = [e \in Editors |-> "done"]
    /\ copy = [e \in Editors |-> {}]
    /\ blind = [e \in Editors |-> FALSE]
    /\ stale = [e \in Editors |-> FALSE]

NoUpdate ==
    monitor = [active |-> FALSE,
               options |-> [followRedirects |-> FALSE, strictSsl |-> FALSE,
                            requestDelay |-> 0]]

NoExport ==
    /\ OcsfInit
    /\ visibility = [s \in Secrets |-> "team"]
    /\ detectedAt = [s \in Secrets |-> FoundAt]

-----------------------------------------------------------------------------

Runs(w, start, otherwise) == IF workflow = w THEN start ELSE otherwise

WorkflowsInit ==
    /\ workflow \in Workflows
    /\ Runs("retry", RetryInit, RetryEnded)
    /\ Runs("pages", PageInit, PagesEnded)
    /\ Runs("tags", TagsInit, TagsEnded)
    /\ Runs("update", UpdateInit, NoUpdate)
    /\ MergeInit
    /\ Runs("export", OcsfInit, NoExport)

WorkflowsNext ==
    /\ UNCHANGED workflow
    /\ Runs("retry", RetryNext, UNCHANGED retryVars)
    /\ Runs("pages", PageNext, UNCHANGED pageVars)
    /\ Runs("tags", TagsNext, UNCHANGED tagVars)
    /\ Runs("update", UpdateNext, UNCHANGED monitor)
    /\ Runs("merge", MergeNext, UNCHANGED taskVars)
    /\ Runs("export", OcsfNext, UNCHANGED ocsfVars)

workflowVars ==
    <<workflow, retryVars, pageVars, tagVars, monitor, taskVars, ocsfVars>>

\* The fairness of RetrySpec, PageSpec and MergeSpec.
WorkflowsSpec ==
    /\ WorkflowsInit /\ [][WorkflowsNext]_workflowVars
    /\ RetryFairness /\ PageFairness /\ MergeFairness

=============================================================================
