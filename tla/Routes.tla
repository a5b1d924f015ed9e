------------------------------- MODULE Routes --------------------------------
(***************************************************************************)
(* The routing tree of the generated server, read as a table: the path     *)
(* patterns with a leaf in it, "*" where a parameter is matched, and the   *)
(* operation each method leads to there.  A definition holds the leaves that *)
(* stand together in ServeHTTP; how the tree is searched is in Router.     *)
(***************************************************************************)
EXTENDS TLC

AccountsRoutes ==
    <<"accounts">> :>
        [GET |-> "GetAccounts"] @@
    <<"accounts", "*", "invoices">> :>
        [GET |-> "GetAccountInvoices"] @@
    <<"analytics">> :>
        [GET |-> "GetAnalyticsData"] @@
    <<"analytics-metadata">> :>
        [GET |-> "GetAnalyticsMetadata"]

AuditActionsRoutes ==
    <<"audit-actions">> :>
        [GET |-> "GetAuditLogEventActions"] @@
    <<"audit", "logs">> :>
        [GET |-> "GetAuditLogs"] @@
    <<"collection-access-keys">> :>
        [GET |-> "GetCollectionAccessKeys"]

CollectionAccessKeysRoutes ==
    <<"collection-access-keys", "*">> :>
        [DELETE |-> "DeleteCollectionAccessKey"] @@
    <<"collection-duplicate-tasks", "*">> :>
        [GET |-> "GetDuplicateCollectionTaskStatus"] @@
    <<"collection-folders-transfers">> :>
        [POST |-> "TransferCollectionFolders"] @@
    <<"collection-merges">> :>
        [PUT |-> "AsyncMergePullCollectionFork"]

CollectionMergesTasksRoutes ==
    <<"collection-merges-tasks", "*">> :>
        [GET |-> "AsyncMergePullCollectionTaskStatus"] @@
    <<"collection-requests-transfers">> :>
        [POST |-> "TransferCollectionRequests"] @@
    <<"collection-responses-transfers">> :>
        [POST |-> "TransferCollectionResponses"] @@
    <<"collection-updates-tasks", "*">> :>
        [GET |-> "GetCollectionUpdatesTasks"]

CollectionsRoutes1 ==
    <<"collections">> :>
        [GET |-> "GetCollections", POST |-> "CreateCollection"] @@
    <<"collections", "collection-forks">> :>
        [GET |-> "GetCollectionsForkedByUser"] @@
    <<"collections", "fork", "*">> :>
        [POST |-> "CreateCollectionFork"] @@
    <<"collections", "merge">> :>
        [POST |-> "MergeCollectionFork"]

CollectionsRoutes2 ==
    <<"collections", "*">> :>
        [DELETE |-> "DeleteCollection", GET |-> "GetCollection",
         PATCH |-> "PatchCollection", PUT |-> "PutCollection"] @@
    <<"collections", "*", "comments">> :>
        [GET |-> "GetCollectionComments",
         POST |-> "CreateCollectionComment"] @@
    <<"collections", "*", "comments", "*">> :>
        [DELETE |-> "DeleteCollectionComment",
         PUT |-> "UpdateCollectionComment"]

CollectionsRoutes3 ==
    <<"collections", "*", "duplicates">> :>
        [POST |-> "DuplicateCollection"] @@
    <<"collections", "*", "folders">> :>
        [POST |-> "CreateCollectionFolder"] @@
    <<"collections", "*", "folders", "*">> :>
        [DELETE |-> "DeleteCollectionFolder", GET |-> "GetCollectionFolder",
         PUT |-> "UpdateCollectionFolder"] @@
    <<"collections", "*", "folders", "*", "comments">> :>
        [GET |-> "GetFolderComments", POST |-> "CreateFolderComment"]

CollectionsRoutes4 ==
    <<"collections", "*", "folders", "*", "comments", "*">> :>
        [DELETE |-> "DeleteFolderComment", PUT |-> "UpdateFolderComment"] @@
    <<"collections", "*", "forks">> :>
        [GET |-> "GetCollectionForks"] @@
    <<"collections", "*", "generations", "*">> :>
        [GET |-> "GetGeneratedCollectionSpecs",
         POST |-> "GenerateSpecFromCollection"]

CollectionsRoutes5 ==
    <<"collections", "*", "public-documentations">> :>
        [DELETE |-> "UnpublishDocumentation",
         PUT |-> "PublishDocumentation"] @@
    <<"collections", "*", "pull-requests">> :>
        [GET |-> "GetCollectionPullRequests",
         POST |-> "CreateCollectionPullRequest"] @@
    <<"collections", "*", "pulls">> :>
        [PUT |-> "PullCollectionChanges"]

CollectionsRoutes6 ==
    <<"collections", "*", "requests">> :>
        [POST |-> "CreateCollectionRequest"] @@
    <<"collections", "*", "requests", "*">> :>
        [DELETE |-> "DeleteCollectionRequest", GET |-> "GetCollectionRequest",
         PUT |-> "UpdateCollectionRequest"] @@
    <<"collections", "*", "requests", "*", "comments">> :>
        [GET |-> "GetRequestComments", POST |-> "CreateRequestComment"]

CollectionsRoutes7 ==
    <<"collections", "*", "requests", "*", "comments", "*">> :>
        [DELETE |-> "DeleteRequestComment", PUT |-> "UpdateRequestComment"] @@
    <<"collections", "*", "responses">> :>
        [POST |-> "CreateCollectionResponse"] @@
    <<"collections", "*", "responses", "*">> :>
        [DELETE |-> "DeleteCollectionResponse",
         GET |-> "GetCollectionResponse", PUT |-> "UpdateCollectionResponse"]

CollectionsRoutes8 ==
    <<"collections", "*", "responses", "*", "comments">> :>
        [GET |-> "GetResponseComments", POST |-> "CreateResponseComment"] @@
    <<"collections", "*", "responses", "*", "comments", "*">> :>
        [DELETE |-> "DeleteResponseComment",
         PUT |-> "UpdateResponseComment"] @@
    <<"collections", "*", "roles">> :>
        [GET |-> "GetCollectionRoles", PATCH |-> "UpdateCollectionRoles"]

CollectionsRoutes9 ==
    <<"collections", "*", "source-status">> :>
        [GET |-> "GetSourceCollectionStatus"] @@
    <<"collections", "*", "synchronizations">> :>
        [PUT |-> "SyncCollectionWithSpec"] @@
    <<"collections", "*", "tags">> :>
        [GET |-> "GetCollectionTags", PUT |-> "UpdateCollectionTags"] @@
    <<"collections", "*", "transformations">> :>
        [GET |-> "TransformCollectionToOpenApi"]

CommentsResolutionsRoutes ==
    <<"comments-resolutions", "*">> :>
        [POST |-> "ResolveCommentThread"] @@
    <<"components">> :>
        [GET |-> "GetAllComponents", POST |-> "CreateComponent"] @@
    <<"components", "*">> :>
        [GET |-> "GetComponent", PATCH |-> "UpdateComponent"]

ComponentsRoutes ==
    <<"components", "*", "drafts">> :>
        [GET |-> "GetComponentDraft", PATCH |-> "UpdateComponentDraft"] @@
    <<"components", "*", "versions">> :>
        [GET |-> "GetComponentVersions", POST |-> "CreateComponentVersion"] @@
    <<"components", "*", "versions", "*">> :>
        [GET |-> "GetComponentVersion"]

DetectedSecretsQueriesRoutes ==
    <<"detected-secrets-queries">> :>
        [POST |-> "DetectedSecretsQueries"] @@
    <<"detected-secrets", "*">> :>
        [PUT |-> "UpdateDetectedSecretResolutions"] @@
    <<"detected-secrets", "*", "locations">> :>
        [GET |-> "GetDetectedSecretsLocations"] @@
    <<"environments">> :>
        [GET |-> "GetEnvironments", POST |-> "CreateEnvironment"]

EnvironmentsRoutes ==
    <<"environments", "*">> :>
        [DELETE |-> "DeleteEnvironment", GET |-> "GetEnvironment",
         PATCH |-> "PatchEnvironment", PUT |-> "PutEnvironment"] @@
    <<"environments", "*", "forks">> :>
        [GET |-> "GetEnvironmentForks", POST |-> "ForkEnvironment"] @@
    <<"environments", "*", "merges">> :>
        [POST |-> "MergeEnvironmentFork"] @@
    <<"environments", "*", "pulls">> :>
        [POST |-> "PullEnvironment"]

GroupsRoutes ==
    <<"groups">> :>
        [GET |-> "GetGroups"] @@
    <<"groups", "*">> :>
        [GET |-> "GetGroup"] @@
    <<"import", "openapi">> :>
        [POST |-> "ImportOpenApiDefinition"] @@
    <<"invitations">> :>
        [POST |-> "ManagePartnerWorkspaceInvites"]

MeRoutes ==
    <<"me">> :>
        [GET |-> "GetAuthenticatedUser"] @@
    <<"mocks">> :>
        [GET |-> "GetMocks", POST |-> "CreateMock"] @@
    <<"mocks", "*">> :>
        [DELETE |-> "DeleteMock", GET |-> "GetMock", PUT |-> "UpdateMock"]

MocksRoutes1 ==
    <<"mocks", "*", "call-logs">> :>
        [GET |-> "GetMockCallLogs"] @@
    <<"mocks", "*", "publish">> :>
        [POST |-> "PublishMock"] @@
    <<"mocks", "*", "server-responses">> :>
        [GET |-> "GetMockServerResponses",
         POST |-> "CreateMockServerResponse"] @@
    <<"mocks", "*", "server-responses", "*">> :>
        [DELETE |-> "DeleteMockServerResponse",
         GET |-> "GetMockServerResponse", PUT |-> "UpdateMockServerResponse"]

MocksRoutes2 ==
    <<"mocks", "*", "unpublish">> :>
        [DELETE |-> "UnpublishMock"] @@
    <<"monitors">> :>
        [GET |-> "GetMonitors", POST |-> "CreateMonitor"] @@
    <<"monitors", "*">> :>
        [DELETE |-> "DeleteMonitor", GET |-> "GetMonitor",
         PUT |-> "UpdateMonitor"] @@
    <<"monitors", "*", "run">> :>
        [POST |-> "RunMonitor"]

NetworkRoutes1 ==
    <<"network", "private">> :>
        [GET |-> "ListPrivateNetworkWorkspaces",
         POST |-> "AddWorkspaceToPrivateNetwork"] @@
    <<"network", "private", "network-entity", "request", "all">> :>
        [GET |-> "ListPrivateNetworkAddRequests"] @@
    <<"network", "private", "network-entity", "request", "*">> :>
        [PUT |-> "RespondPrivateNetworkAddRequest"]

NetworkRoutes2 ==
    <<"network", "private", "workspace", "*">> :>
        [DELETE |-> "RemoveWorkspaceFromPrivateNetwork",
         PUT |-> "UpdatePanElementOrFolder"] @@
    <<"oauth2", "token">> :>
        [POST |-> "GenerateOauthToken"] @@
    <<"oauth2", "token", "revoke">> :>
        [POST |-> "RevokeOauthToken"] @@
    <<"postbot", "generations", "tool">> :>
        [POST |-> "GenerateTool"]

PullRequestsRoutes ==
    <<"pull-requests", "*">> :>
        [GET |-> "GetPullRequest", PUT |-> "UpdatePullRequest"] @@
    <<"pull-requests", "*", "tasks">> :>
        [POST |-> "ReviewPullRequest"] @@
    <<"runners", "*", "instances">> :>
        [GET |-> "GetRunnerInstances"]

RunnersRoutes ==
    <<"runners", "*", "metrics">> :>
        [GET |-> "GetRunnerMetrics"] @@
    <<"sdk-git-connections">> :>
        [GET |-> "GetSdkGitConnections", POST |-> "CreateSdkGitConnection"] @@
    <<"sdk-git-connections", "*">> :>
        [GET |-> "GetSdkGitConnection", PUT |-> "UpdateSdkGitConnection"] @@
    <<"sdk-git-connections", "*", "pull-requests">> :>
        [GET |-> "GetSdkGitConnectionPullRequests"]

SdksRoutes ==
    <<"sdks">> :>
        [GET |-> "GetSdks", POST |-> "CreateSdk"] @@
    <<"sdks", "*">> :>
        [DELETE |-> "DeleteSdk", GET |-> "GetSdk"] @@
    <<"sdks", "*", "downloads">> :>
        [GET |-> "GetSdkDownloadUrl"] @@
    <<"search">> :>
        [POST |-> "SearchPostmanResources"]

SecretTypesRoutes ==
    <<"secret-types">> :>
        [GET |-> "GetSecretTypes"] @@
    <<"security", "api-validation">> :>
        [POST |-> "SchemaSecurityValidation"] @@
    <<"service-account-tokens">> :>
        [POST |-> "GenerateServiceAccountToken"] @@
    <<"specs">> :>
        [GET |-> "GetAllSpecs", POST |-> "CreateSpec"]

SpecsRoutes1 ==
    <<"specs", "*">> :>
        [DELETE |-> "DeleteSpec", GET |-> "GetSpec",
         PATCH |-> "UpdateSpecProperties"] @@
    <<"specs", "*", "collections", "*", "sync-options">> :>
        [PATCH |-> "UpdateSpecSyncOptions"] @@
    <<"specs", "*", "definitions">> :>
        [GET |-> "GetSpecDefinition"]

SpecsRoutes2 ==
    <<"specs", "*", "files">> :>
        [GET |-> "GetSpecFiles", POST |-> "CreateSpecFile"] @@
    <<"specs", "*", "files", "*">> :>
        [DELETE |-> "DeleteSpecFile", GET |-> "GetSpecFile",
         PATCH |-> "UpdateSpecFile"] @@
    <<"specs", "*", "generations", "*">> :>
        [GET |-> "GetSpecCollections", POST |-> "GenerateCollection"] @@
    <<"specs", "*", "synchronizations">> :>
        [PUT |-> "SyncSpecWithCollection"]

SpecsRoutes3 ==
    <<"specs", "*", "version-tags">> :>
        [GET |-> "GetSpecVersionTags", POST |-> "CreateSpecVersionTag"] @@
    <<"specs", "*", "version-tags", "*", "files">> :>
        [GET |-> "GetSpecVersionTag"]

TagsRoutes ==
    <<"tags", "*", "entities">> :>
        [GET |-> "GetTaggedEntities"] @@
    <<"teams">> :>
        [GET |-> "GetTeams", POST |-> "CreateTeam"] @@
    <<"teams", "*">> :>
        [GET |-> "GetTeam"]

TeamsRoutes ==
    <<"teams", "*", "access-requests">> :>
        [GET |-> "GetTeamAccessRequests", POST |-> "CreateAccessRequest"] @@
    <<"teams", "*", "access-requests", "*">> :>
        [POST |-> "ApproveDenyAccessRequest"] @@
    <<"teams", "*", "bulk-members">> :>
        [DELETE |-> "RemoveTeamMembers", POST |-> "ManageTeamMemberRoles"] @@
    <<"teams", "*", "settings">> :>
        [GET |-> "GetTeamSettings", PUT |-> "UpdateTeamSettings"]

UsersRoutes ==
    <<"users">> :>
        [GET |-> "GetTeamUsers"] @@
    <<"users", "*">> :>
        [GET |-> "GetTeamUser"] @@
    <<"webhooks">> :>
        [POST |-> "CreateWebhook"] @@
    <<"workspaces">> :>
        [GET |-> "GetWorkspaces", POST |-> "CreateWorkspace"]

WorkspacesRolesRoutes ==
    <<"workspaces-roles">> :>
        [GET |-> "GetAllWorkspaceRoles"] @@
    <<"workspaces", "*">> :>
        [DELETE |-> "DeleteWorkspace", GET |-> "GetWorkspace",
         PUT |-> "UpdateWorkspace"] @@
    <<"workspaces", "*", "activities">> :>
        [GET |-> "GetWorkspaceActivityFeed"] @@
    <<"workspaces", "*", "element-transfers">> :>
        [POST |-> "TransferWorkspaceElement"]

WorkspacesRoutes1 ==
    <<"workspaces", "*", "global-variables">> :>
        [GET |-> "GetWorkspaceGlobalVariables",
         PUT |-> "UpdateWorkspaceGlobalVariables"] @@
    <<"workspaces", "*", "roles">> :>
        [GET |-> "GetWorkspaceRoles", PATCH |-> "UpdateWorkspaceRoles"] @@
    <<"workspaces", "*", "tags">> :>
        [GET |-> "GetWorkspaceTags", PUT |-> "UpdateWorkspaceTags"] @@
    <<"workspaces", "*", "transfers">> :>
        [PATCH |-> "TransferWorkspaceToTeam"]

WorkspacesRoutes2 ==
    <<"workspaces", "*", "updates">> :>
        [GET |-> "GetWorkspaceUpdates", POST |-> "CreateWorkspaceUpdate"] @@
    <<"workspaces", "*", "updates", "*">> :>
        [DELETE |-> "DeleteWorkspaceUpdate", GET |-> "GetWorkspaceUpdate",
         PATCH |-> "PatchWorkspaceUpdate"]

TasksRoutes ==
    <<"*", "*", "tasks", "*">> :>
        [GET |-> "GetAsyncSpecTaskStatus"]

\* All leaves.
Leaves ==
    AccountsRoutes @@ AuditActionsRoutes @@ CollectionAccessKeysRoutes @@
    CollectionMergesTasksRoutes @@ CollectionsRoutes1 @@ CollectionsRoutes2 @@
    CollectionsRoutes3 @@ CollectionsRoutes4 @@ CollectionsRoutes5 @@
    CollectionsRoutes6 @@ CollectionsRoutes7 @@ CollectionsRoutes8 @@
    CollectionsRoutes9 @@ CommentsResolutionsRoutes @@ ComponentsRoutes @@
    DetectedSecretsQueriesRoutes @@ EnvironmentsRoutes @@ GroupsRoutes @@
    MeRoutes @@ MocksRoutes1 @@ MocksRoutes2 @@ NetworkRoutes1 @@
    NetworkRoutes2 @@ PullRequestsRoutes @@ RunnersRoutes @@ SdksRoutes @@
    SecretTypesRoutes @@ SpecsRoutes1 @@ SpecsRoutes2 @@ SpecsRoutes3 @@
    TagsRoutes @@ TeamsRoutes @@ UsersRoutes @@ WorkspacesRolesRoutes @@
    WorkspacesRoutes1 @@ WorkspacesRoutes2 @@ TasksRoutes

=============================================================================
