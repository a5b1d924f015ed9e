SPECIFICATION WorkflowsSpec
CONSTANTS
    e1 = e1
    e2 = e2
    t1 = t1
    t2 = t2
    t3 = t3
    t4 = t4
    Workflows = {"retry", "pages", "tags", "update", "merge", "export"}
    Fns <- MCFns
    Answers <- MCAnswers
    AttemptLimits = {0, 1, 3}
    MaxSecrets = 4
    PageLimits <- MCPageLimits
    Editors <- MCEditors
    Tags <- MCTags
    Adds <- MCAdds
    MaxTags = 3
    Delays <- MCDelays
    MaxTasks = 2
    MaxWatches = 2
    StartAnswers <- MCStartAnswers
    StatusAnswers <- MCStatusAnswers
    Secrets = {s1}
    Visibilities <- MCVisibilities
    MaxChanges = 4
INVARIANTS
    RetriesNeverRepeatADeed
    NilMeansDone
    WalkIsComplete
    NothingTwice
    MergesAreAccountedFor
    VerdictsStayTrue
    EventsAgree
    ClosedSecretsLookClosed
PROPERTIES
    RetriesEnd
    WalkEnds
    TagsAreErasedBlindly
    OptionsAreNeverReset
    WatchingEnds
