---------------------------- MODULE ServiceCalls -----------------------------
(***************************************************************************)
(* The operation each service method invokes and what it puts into the     *)
(* path, in order: "id" for a string of the caller, "number" for an integer *)
(* formatted with strconv.Itoa, or a constant of the method itself.        *)
(***************************************************************************)
EXTENDS TLC

Calls(op, args) == [op |-> op, args |-> args]

\* analytics/analytics.go
AnalyticsCalls ==
    [Data |-> Calls("GetAnalyticsData", <<>>),
     Metadata |-> Calls("GetAnalyticsMetadata", <<>>)]

\* apisecurity/apisecurity.go
ApiSecurityCalls ==
    [Validate |-> Calls("SchemaSecurityValidation", <<>>)]

\* auditlogs/auditlogs.go
AuditLogsCalls ==
    [List |-> Calls("GetAuditLogs", <<>>),
     Actions |-> Calls("GetAuditLogEventActions", <<>>)]

\* billing/billing.go
BillingCalls ==
    [Accounts |-> Calls("GetAccounts", <<>>),
     Invoices |-> Calls("GetAccountInvoices", <<"id">>)]

\* collectionaccesskeys/collectionaccesskeys.go
CollectionAccessKeysCalls ==
    [List |-> Calls("GetCollectionAccessKeys", <<>>),
     Delete |-> Calls("DeleteCollectionAccessKey", <<"id">>)]

\* collectionfolders/collectionfolders.go
CollectionFoldersCalls ==
    [Get |-> Calls("GetFolderComments", <<"id", "id">>),
     Create |-> Calls("CreateFolderComment", <<"id", "id">>),
     Update |-> Calls("UpdateFolderComment", <<"id", "id", "number">>),
     Delete |-> Calls("DeleteFolderComment", <<"id", "id", "number">>)]

\* collectionitems/collectionitems.go
CollectionItemsCalls ==
    [CreateFolder |-> Calls("CreateCollectionFolder", <<"id">>),
     GetFolder |-> Calls("GetCollectionFolder", <<"id", "id">>),
     UpdateFolder |-> Calls("UpdateCollectionFolder", <<"id", "id">>),
     DeleteFolder |-> Calls("DeleteCollectionFolder", <<"id", "id">>),
     CreateRequest |-> Calls("CreateCollectionRequest", <<"id">>),
     GetRequest |-> Calls("GetCollectionRequest", <<"id", "id">>),
     UpdateRequest |-> Calls("UpdateCollectionRequest", <<"id", "id">>),
     DeleteRequest |-> Calls("DeleteCollectionRequest", <<"id", "id">>),
     CreateResponse |-> Calls("CreateCollectionResponse", <<"id">>),
     GetResponse |-> Calls("GetCollectionResponse", <<"id", "id">>),
     UpdateResponse |-> Calls("UpdateCollectionResponse", <<"id", "id">>),
     DeleteResponse |-> Calls("DeleteCollectionResponse", <<"id", "id">>)]

\* collectionrequests/collectionrequests.go
CollectionRequestsCalls ==
    [Get |-> Calls("GetRequestComments", <<"id", "id">>),
     Create |-> Calls("CreateRequestComment", <<"id", "id">>),
     Update |-> Calls("UpdateRequestComment", <<"id", "id", "number">>),
     Delete |-> Calls("DeleteRequestComment", <<"id", "id", "number">>)]

\* collectionresponses/collectionresponses.go
CollectionResponsesCalls ==
    [Get |-> Calls("GetResponseComments", <<"id", "id">>),
     Create |-> Calls("CreateResponseComment", <<"id", "id">>),
     Update |-> Calls("UpdateResponseComment", <<"id", "id", "number">>),
     Delete |-> Calls("DeleteResponseComment", <<"id", "id", "number">>)]

\* collections/collections.go
CollectionsCalls ==
    [List |-> Calls("GetCollections", <<>>),
     Create |-> Calls("CreateCollection", <<>>),
     ForkedByUser |-> Calls("GetCollectionsForkedByUser", <<>>),
     Fork |-> Calls("CreateCollectionFork", <<"id">>),
     MergeFork |-> Calls("MergeCollectionFork", <<>>),
     MergeForkAsync |-> Calls("AsyncMergePullCollectionFork", <<>>),
     MergeForkAsyncStatus |->
         Calls("AsyncMergePullCollectionTaskStatus", <<"id">>),
     Get |-> Calls("GetCollection", <<"id">>),
     Replace |-> Calls("PutCollection", <<"id">>),
     Update |-> Calls("PatchCollection", <<"id">>),
     Delete |-> Calls("DeleteCollection", <<"id">>),
     Comments |-> Calls("GetCollectionComments", <<"id">>),
     CreateComment |-> Calls("CreateCollectionComment", <<"id">>),
     UpdateComment |-> Calls("UpdateCollectionComment", <<"id", "number">>),
     DeleteComment |-> Calls("DeleteCollectionComment", <<"id", "number">>),
     Duplicate |-> Calls("DuplicateCollection", <<"id">>),
     DuplicateStatus |-> Calls("GetDuplicateCollectionTaskStatus", <<"id">>),
     Forks |-> Calls("GetCollectionForks", <<"id">>),
     PublishDocs |-> Calls("PublishDocumentation", <<"id">>),
     UnpublishDocs |-> Calls("UnpublishDocumentation", <<"id">>),
     Pull |-> Calls("PullCollectionChanges", <<"id">>),
     PullRequests |-> Calls("GetCollectionPullRequests", <<"id">>),
     CreatePullRequest |-> Calls("CreateCollectionPullRequest", <<"id">>),
     Roles |-> Calls("GetCollectionRoles", <<"id">>),
     UpdateRoles |-> Calls("UpdateCollectionRoles", <<"id">>),
     SourceStatus |-> Calls("GetSourceCollectionStatus", <<"id">>),
     TransformToOpenAPI |-> Calls("TransformCollectionToOpenApi", <<"id">>),
     TransferFolders |-> Calls("TransferCollectionFolders", <<>>),
     TransferRequests |-> Calls("TransferCollectionRequests", <<>>),
     TransferResponses |-> Calls("TransferCollectionResponses", <<>>),
     UpdateStatus |-> Calls("GetCollectionUpdatesTasks", <<"id">>)]

\* comments/comments.go
CommentsCalls ==
    [ResolveThread |-> Calls("ResolveCommentThread", <<"id">>)]

\* components/components.go
ComponentsCalls ==
    [List |-> Calls("GetAllComponents", <<>>),
     Create |-> Calls("CreateComponent", <<>>),
     Get |-> Calls("GetComponent", <<"id">>),
     Update |-> Calls("UpdateComponent", <<"id">>),
     Draft |-> Calls("GetComponentDraft", <<"id">>),
     UpdateDraft |-> Calls("UpdateComponentDraft", <<"id">>),
     Versions |-> Calls("GetComponentVersions", <<"id">>),
     CreateVersion |-> Calls("CreateComponentVersion", <<"id">>),
     Version |-> Calls("GetComponentVersion", <<"id", "id">>)]

\* environments/environments.go
EnvironmentsCalls ==
    [List |-> Calls("GetEnvironments", <<>>),
     Create |-> Calls("CreateEnvironment", <<>>),
     Get |-> Calls("GetEnvironment", <<"id">>),
     Replace |-> Calls("PutEnvironment", <<"id">>),
     Patch |-> Calls("PatchEnvironment", <<"id">>),
     Delete |-> Calls("DeleteEnvironment", <<"id">>),
     Forks |-> Calls("GetEnvironmentForks", <<"id">>),
     Fork |-> Calls("ForkEnvironment", <<"id">>),
     Merge |-> Calls("MergeEnvironmentFork", <<"id">>),
     Pull |-> Calls("PullEnvironment", <<"id">>)]

\* groups/groups.go
GroupsCalls ==
    [List |-> Calls("GetGroups", <<>>),
     Get |-> Calls("GetGroup", <<"id">>)]

\* imports/imports.go
ImportsCalls ==
    [FromOpenAPI |-> Calls("ImportOpenApiDefinition", <<>>)]

\* mocks/mocks.go
MocksCalls ==
    [List |-> Calls("GetMocks", <<>>),
     Create |-> Calls("CreateMock", <<>>),
     Get |-> Calls("GetMock", <<"id">>),
     Update |-> Calls("UpdateMock", <<"id">>),
     Delete |-> Calls("DeleteMock", <<"id">>),
     CallLogs |-> Calls("GetMockCallLogs", <<"id">>),
     Publish |-> Calls("PublishMock", <<"id">>),
     Unpublish |-> Calls("UnpublishMock", <<"id">>),
     ServerResponses |-> Calls("GetMockServerResponses", <<"id">>),
     CreateServerResponse |-> Calls("CreateMockServerResponse", <<"id">>),
     ServerResponse |-> Calls("GetMockServerResponse", <<"id", "id">>),
     UpdateServerResponse |->
         Calls("UpdateMockServerResponse", <<"id", "id">>),
     DeleteServerResponse |->
         Calls("DeleteMockServerResponse", <<"id", "id">>)]

\* monitors/monitors.go
MonitorsCalls ==
    [List |-> Calls("GetMonitors", <<>>),
     Create |-> Calls("CreateMonitor", <<>>),
     Get |-> Calls("GetMonitor", <<"id">>),
     Update |-> Calls("UpdateMonitor", <<"id">>),
     Delete |-> Calls("DeleteMonitor", <<"id">>),
     Run |-> Calls("RunMonitor", <<"id">>),
     RunnerInstances |-> Calls("GetRunnerInstances", <<"id">>),
     RunnerMetrics |-> Calls("GetRunnerMetrics", <<"id">>)]

\* oauth2/oauth2.go
OAuth2Calls ==
    [Generate |-> Calls("GenerateOauthToken", <<>>),
     Revoke |-> Calls("RevokeOauthToken", <<>>)]

\* postbot/postbot.go
PostbotCalls ==
    [GenerateTool |-> Calls("GenerateTool", <<>>)]

\* privateapinetwork/privateapinetwork.go
PrivateAPINetworkCalls ==
    [List |-> Calls("ListPrivateNetworkWorkspaces", <<>>),
     Add |-> Calls("AddWorkspaceToPrivateNetwork", <<>>),
     Remove |-> Calls("RemoveWorkspaceFromPrivateNetwork", <<"id">>),
     UpdateFolder |-> Calls("UpdatePanElementOrFolder", <<"id">>),
     ListAddRequests |-> Calls("ListPrivateNetworkAddRequests", <<>>),
     RespondAddRequest |-> Calls("RespondPrivateNetworkAddRequest", <<"id">>)]

\* pullrequests/pullrequests.go
PullRequestsCalls ==
    [Get |-> Calls("GetPullRequest", <<"id">>),
     Update |-> Calls("UpdatePullRequest", <<"id">>),
     Review |-> Calls("ReviewPullRequest", <<"id">>)]

\* sdkgen/sdkgen.go
SDKGenCalls ==
    [List |-> Calls("GetSdks", <<>>),
     Generate |-> Calls("CreateSdk", <<>>),
     Status |-> Calls("GetSdk", <<"id">>),
     Delete |-> Calls("DeleteSdk", <<"id">>),
     Download |-> Calls("GetSdkDownloadUrl", <<"id">>),
     GitConnections |-> Calls("GetSdkGitConnections", <<>>),
     ConnectGit |-> Calls("CreateSdkGitConnection", <<>>),
     GitConnection |-> Calls("GetSdkGitConnection", <<"id">>),
     UpdateGitConnection |-> Calls("UpdateSdkGitConnection", <<"id">>),
     GitConnectionPullRequests |->
         Calls("GetSdkGitConnectionPullRequests", <<"id">>)]

\* search/search.go
SearchCalls ==
    [Query |-> Calls("SearchPostmanResources", <<>>)]

\* secretscanner/secretscanner.go
SecretScannerCalls ==
    [Query |-> Calls("DetectedSecretsQueries", <<>>),
     UpdateResolution |-> Calls("UpdateDetectedSecretResolutions", <<"id">>),
     Locations |-> Calls("GetDetectedSecretsLocations", <<"id">>),
     SecretTypes |-> Calls("GetSecretTypes", <<>>)]

\* serviceaccounts/serviceaccounts.go
ServiceAccountsCalls ==
    [GenerateToken |-> Calls("GenerateServiceAccountToken", <<>>)]

\* specs/specs.go
SpecsCalls ==
    [List |-> Calls("GetAllSpecs", <<>>),
     Create |-> Calls("CreateSpec", <<>>),
     Get |-> Calls("GetSpec", <<"id">>),
     UpdateProperties |-> Calls("UpdateSpecProperties", <<"id">>),
     Delete |-> Calls("DeleteSpec", <<"id">>),
     Definition |-> Calls("GetSpecDefinition", <<"id">>),
     Files |-> Calls("GetSpecFiles", <<"id">>),
     CreateFile |-> Calls("CreateSpecFile", <<"id">>),
     File |-> Calls("GetSpecFile", <<"id", "id">>),
     UpdateFile |-> Calls("UpdateSpecFile", <<"id", "id">>),
     DeleteFile |-> Calls("DeleteSpecFile", <<"id", "id">>),
     Collections |-> Calls("GetSpecCollections", <<"id", "collection">>),
     GenerateCollection |->
         Calls("GenerateCollection", <<"id", "collection">>),
     SyncWithCollection |-> Calls("SyncSpecWithCollection", <<"id">>),
     UpdateSyncOptions |-> Calls("UpdateSpecSyncOptions", <<"id", "id">>),
     CollectionSpecs |->
         Calls("GetGeneratedCollectionSpecs", <<"id", "spec">>),
     GenerateFromCollection |->
         Calls("GenerateSpecFromCollection", <<"id", "spec">>),
     SyncCollectionWithSpec |-> Calls("SyncCollectionWithSpec", <<"id">>),
     TaskStatus |-> Calls("GetAsyncSpecTaskStatus", <<"id", "id", "id">>),
     VersionTag |-> Calls("GetSpecVersionTag", <<"id", "id">>),
     VersionTags |-> Calls("GetSpecVersionTags", <<"id">>),
     CreateVersionTag |-> Calls("CreateSpecVersionTag", <<"id">>)]

\* tags/tags.go
TagsCalls ==
    [Collection |-> Calls("GetCollectionTags", <<"id">>),
     UpdateCollection |-> Calls("UpdateCollectionTags", <<"id">>),
     Workspace |-> Calls("GetWorkspaceTags", <<"id">>),
     UpdateWorkspace |-> Calls("UpdateWorkspaceTags", <<"id">>),
     Entities |-> Calls("GetTaggedEntities", <<"id">>)]

\* teams/teams.go
TeamsCalls ==
    [List |-> Calls("GetTeams", <<>>),
     Create |-> Calls("CreateTeam", <<>>),
     Get |-> Calls("GetTeam", <<"id">>),
     AccessRequests |-> Calls("GetTeamAccessRequests", <<"id">>),
     RequestAccess |-> Calls("CreateAccessRequest", <<"id">>),
     DecideAccessRequest |->
         Calls("ApproveDenyAccessRequest", <<"id", "id">>),
     ManageMemberRoles |-> Calls("ManageTeamMemberRoles", <<"id">>),
     RemoveMembers |-> Calls("RemoveTeamMembers", <<"id">>),
     Settings |-> Calls("GetTeamSettings", <<"id">>),
     UpdateSettings |-> Calls("UpdateTeamSettings", <<"id">>)]

\* users/users.go
UsersCalls ==
    [Me |-> Calls("GetAuthenticatedUser", <<>>),
     List |-> Calls("GetTeamUsers", <<>>),
     Get |-> Calls("GetTeamUser", <<"number">>)]

\* webhooks/webhooks.go
WebhooksCalls ==
    [Create |-> Calls("CreateWebhook", <<>>)]

\* workspaces/workspaces.go
WorkspacesCalls ==
    [ManagePartnerInvites |-> Calls("ManagePartnerWorkspaceInvites", <<>>),
     List |-> Calls("GetWorkspaces", <<>>),
     Create |-> Calls("CreateWorkspace", <<>>),
     AllRoles |-> Calls("GetAllWorkspaceRoles", <<>>),
     Get |-> Calls("GetWorkspace", <<"id">>),
     Update |-> Calls("UpdateWorkspace", <<"id">>),
     Delete |-> Calls("DeleteWorkspace", <<"id">>),
     ActivityFeed |-> Calls("GetWorkspaceActivityFeed", <<"id">>),
     TransferElement |-> Calls("TransferWorkspaceElement", <<"id">>),
     GlobalVariables |-> Calls("GetWorkspaceGlobalVariables", <<"id">>),
     UpdateGlobalVariables |->
         Calls("UpdateWorkspaceGlobalVariables", <<"id">>),
     Roles |-> Calls("GetWorkspaceRoles", <<"id">>),
     UpdateRoles |-> Calls("UpdateWorkspaceRoles", <<"id">>),
     TransferToTeam |-> Calls("TransferWorkspaceToTeam", <<"id">>),
     Updates |-> Calls("GetWorkspaceUpdates", <<"id">>),
     CreateUpdate |-> Calls("CreateWorkspaceUpdate", <<"id">>),
     GetUpdate |-> Calls("GetWorkspaceUpdate", <<"id", "number">>),
     PatchUpdate |-> Calls("PatchWorkspaceUpdate", <<"id", "number">>),
     DeleteUpdate |-> Calls("DeleteWorkspaceUpdate", <<"id", "number">>)]

\* The services of a Client.
Services ==
    [analytics |-> AnalyticsCalls, apisecurity |-> ApiSecurityCalls,
     auditlogs |-> AuditLogsCalls, billing |-> BillingCalls,
     collectionaccesskeys |-> CollectionAccessKeysCalls,
     collectionfolders |-> CollectionFoldersCalls,
     collectionitems |-> CollectionItemsCalls,
     collectionrequests |-> CollectionRequestsCalls,
     collectionresponses |-> CollectionResponsesCalls,
     collections |-> CollectionsCalls, comments |-> CommentsCalls,
     components |-> ComponentsCalls, environments |-> EnvironmentsCalls,
     groups |-> GroupsCalls, imports |-> ImportsCalls, mocks |-> MocksCalls,
     monitors |-> MonitorsCalls, oauth2 |-> OAuth2Calls,
     postbot |-> PostbotCalls, privateapinetwork |-> PrivateAPINetworkCalls,
     pullrequests |-> PullRequestsCalls, sdkgen |-> SDKGenCalls,
     search |-> SearchCalls, secretscanner |-> SecretScannerCalls,
     serviceaccounts |-> ServiceAccountsCalls, specs |-> SpecsCalls,
     tags |-> TagsCalls, teams |-> TeamsCalls, users |-> UsersCalls,
     webhooks |-> WebhooksCalls, workspaces |-> WorkspacesCalls]

\* A service method, named as in ServiceCatalog.
CallOf(name) == Services[name[1]][name[2]]

=============================================================================
