-------------------------- MODULE GeneratedClient ----------------------------
(***************************************************************************)
(* The request each send<Op> of the generated client builds: method, path  *)
(* with "*" where an argument goes, the parameters that fill it in order,  *)
(* query and body; and the decoder it hands the response to.  The stages   *)
(* all of them share are actions of ApiCall and of RoundTrip.              *)
(***************************************************************************)
EXTENDS RequestEncoders, ResponseDecoders

sendAddWorkspaceToPrivateNetwork ==
    Request("POST", <<"network", "private">>,
        <<>>, NoQuery, encodeAddWorkspaceToPrivateNetworkRequest,
        decodeAddWorkspaceToPrivateNetworkResponse)

sendApproveDenyAccessRequest ==
    Request("POST", <<"teams", "*", "access-requests", "*">>,
        <<"teamId", "requestId">>, NoQuery,
        encodeApproveDenyAccessRequestRequest,
        decodeApproveDenyAccessRequestResponse)

sendAsyncMergePullCollectionFork ==
    Request("PUT", <<"collection-merges">>,
        <<>>, NoQuery, encodeAsyncMergePullCollectionForkRequest,
        decodeAsyncMergePullCollectionForkResponse)

sendAsyncMergePullCollectionTaskStatus ==
    Request("GET", <<"collection-merges-tasks", "*">>,
        <<"taskId">>, NoQuery, NoBody,
        decodeAsyncMergePullCollectionTaskStatusResponse)

sendCreateAccessRequest ==
    Request("POST", <<"teams", "*", "access-requests">>,
        <<"teamId">>, NoQuery, encodeCreateAccessRequestRequest,
        decodeCreateAccessRequestResponse)

sendCreateCollection ==
    Request("POST", <<"collections">>,
        <<>>, Query({"workspace"}, {}), encodeCreateCollectionRequest,
        decodeCreateCollectionResponse)

sendCreateCollectionComment ==
    Request("POST", <<"collections", "*", "comments">>,
        <<"collectionId">>, NoQuery, encodeCreateCollectionCommentRequest,
        decodeCreateCollectionCommentResponse)

sendCreateCollectionFolder ==
    Request("POST", <<"collections", "*", "folders">>,
        <<"collectionId">>, NoQuery, encodeCreateCollectionFolderRequest,
        decodeCreateCollectionFolderResponse)

sendCreateCollectionFork ==
    Request("POST", <<"collections", "fork", "*">>,
        <<"collectionId">>, Query({"workspace"}, {}),
        encodeCreateCollectionForkRequest, decodeCreateCollectionForkResponse)

sendCreateCollectionPullRequest ==
    Request("POST", <<"collections", "*", "pull-requests">>,
        <<"collectionId">>, NoQuery, encodeCreateCollectionPullRequestRequest,
        decodeCreateCollectionPullRequestResponse)

sendCreateCollectionRequest ==
    Request("POST", <<"collections", "*", "requests">>,
        <<"collectionId">>, Query({}, {"folderId"}),
        encodeCreateCollectionRequestRequest,
        decodeCreateCollectionRequestResponse)

sendCreateCollectionResponse ==
    Request("POST", <<"collections", "*", "responses">>,
        <<"collectionId">>, Query({"request"}, {}),
        encodeCreateCollectionResponseRequest,
        decodeCreateCollectionResponseResponse)

sendCreateComponent ==
    Request("POST", <<"components">>,
        <<>>, NoQuery, encodeCreateComponentRequest,
        decodeCreateComponentResponse)

sendCreateComponentVersion ==
    Request("POST", <<"components", "*", "versions">>,
        <<"componentId">>, NoQuery, encodeCreateComponentVersionRequest,
        decodeCreateComponentVersionResponse)

sendCreateEnvironment ==
    Request("POST", <<"environments">>,
        <<>>, Query({"workspace"}, {}), encodeCreateEnvironmentRequest,
        decodeCreateEnvironmentResponse)

sendCreateFolderComment ==
    Request("POST", <<"collections", "*", "folders", "*", "comments">>,
        <<"collectionId", "folderId">>, NoQuery,
        encodeCreateFolderCommentRequest, decodeCreateFolderCommentResponse)

sendCreateMock ==
    Request("POST", <<"mocks">>,
        <<>>, Query({"workspace"}, {}), encodeCreateMockRequest,
        decodeCreateMockResponse)

sendCreateMockServerResponse ==
    Request("POST", <<"mocks", "*", "server-responses">>,
        <<"mockId">>, NoQuery, encodeCreateMockServerResponseRequest,
        decodeCreateMockServerResponseResponse)

sendCreateMonitor ==
    Request("POST", <<"monitors">>,
        <<>>, Query({"workspace"}, {}), encodeCreateMonitorRequest,
        decodeCreateMonitorResponse)

sendCreateRequestComment ==
    Request("POST", <<"collections", "*", "requests", "*", "comments">>,
        <<"collectionId", "requestId">>, NoQuery,
        encodeCreateRequestCommentRequest, decodeCreateRequestCommentResponse)

sendCreateResponseComment ==
    Request("POST", <<"collections", "*", "responses", "*", "comments">>,
        <<"collectionId", "responseId">>, NoQuery,
        encodeCreateResponseCommentRequest,
        decodeCreateResponseCommentResponse)

sendCreateSdk ==
    Request("POST", <<"sdks">>,
        <<>>, NoQuery, encodeCreateSdkRequest, decodeCreateSdkResponse)

sendCreateSdkGitConnection ==
    Request("POST", <<"sdk-git-connections">>,
        <<>>, NoQuery, encodeCreateSdkGitConnectionRequest,
        decodeCreateSdkGitConnectionResponse)

sendCreateSpec ==
    Request("POST", <<"specs">>,
        <<>>, Query({"workspaceId"}, {}), encodeCreateSpecRequest,
        decodeCreateSpecResponse)

sendCreateSpecFile ==
    Request("POST", <<"specs", "*", "files">>,
        <<"specId">>, NoQuery, encodeCreateSpecFileRequest,
        decodeCreateSpecFileResponse)

sendCreateSpecVersionTag ==
    Request("POST", <<"specs", "*", "version-tags">>,
        <<"specId">>, NoQuery, encodeCreateSpecVersionTagRequest,
        decodeCreateSpecVersionTagResponse)

sendCreateTeam ==
    Request("POST", <<"teams">>,
        <<>>, NoQuery, encodeCreateTeamRequest, decodeCreateTeamResponse)

sendCreateWebhook ==
    Request("POST", <<"webhooks">>,
        <<>>, Query({"workspace"}, {}), encodeCreateWebhookRequest,
        decodeCreateWebhookResponse)

sendCreateWorkspace ==
    Request("POST", <<"workspaces">>,
        <<>>, NoQuery, encodeCreateWorkspaceRequest,
        decodeCreateWorkspaceResponse)

sendCreateWorkspaceUpdate ==
    Request("POST", <<"workspaces", "*", "updates">>,
        <<"workspaceId">>, NoQuery, encodeCreateWorkspaceUpdateRequest,
        decodeCreateWorkspaceUpdateResponse)

sendDeleteCollection ==
    Request("DELETE", <<"collections", "*">>,
        <<"collectionId">>, NoQuery, NoBody, decodeDeleteCollectionResponse)

sendDeleteCollectionAccessKey ==
    Request("DELETE", <<"collection-access-keys", "*">>,
        <<"keyId">>, NoQuery, NoBody, decodeDeleteCollectionAccessKeyResponse)

sendDeleteCollectionComment ==
    Request("DELETE", <<"collections", "*", "comments", "*">>,
        <<"collectionId", "commentId">>, NoQuery, NoBody,
        decodeDeleteCollectionCommentResponse)

sendDeleteCollectionFolder ==
    Request("DELETE", <<"collections", "*", "folders", "*">>,
        <<"collectionId", "folderId">>, NoQuery, NoBody,
        decodeDeleteCollectionFolderResponse)

sendDeleteCollectionRequest ==
    Request("DELETE", <<"collections", "*", "requests", "*">>,
        <<"collectionId", "requestId">>, NoQuery, NoBody,
        decodeDeleteCollectionRequestResponse)

sendDeleteCollectionResponse ==
    Request("DELETE", <<"collections", "*", "responses", "*">>,
        <<"collectionId", "responseId">>, NoQuery, NoBody,
        decodeDeleteCollectionResponseResponse)

sendDeleteEnvironment ==
    Request("DELETE", <<"environments", "*">>,
        <<"environmentId">>, NoQuery, NoBody, decodeDeleteEnvironmentResponse)

sendDeleteFolderComment ==
    Request("DELETE", <<"collections", "*", "folders", "*", "comments", "*">>,
        <<"collectionId", "folderId", "commentId">>, NoQuery, NoBody,
        decodeDeleteFolderCommentResponse)

sendDeleteMock ==
    Request("DELETE", <<"mocks", "*">>,
        <<"mockId">>, NoQuery, NoBody, decodeDeleteMockResponse)

sendDeleteMockServerResponse ==
    Request("DELETE", <<"mocks", "*", "server-responses", "*">>,
        <<"mockId", "serverResponseId">>, NoQuery, NoBody,
        decodeDeleteMockServerResponseResponse)

sendDeleteMonitor ==
    Request("DELETE", <<"monitors", "*">>,
        <<"monitorId">>, NoQuery, NoBody, decodeDeleteMonitorResponse)

sendDeleteRequestComment ==
    Request("DELETE", <<"collections", "*", "requests", "*", "comments",
              "*">>,
        <<"collectionId", "requestId", "commentId">>, NoQuery, NoBody,
        decodeDeleteRequestCommentResponse)

sendDeleteResponseComment ==
    Request("DELETE", <<"collections", "*", "responses", "*", "comments",
              "*">>,
        <<"collectionId", "responseId", "commentId">>, NoQuery, NoBody,
        decodeDeleteResponseCommentResponse)

sendDeleteSdk ==
    Request("DELETE", <<"sdks", "*">>,
        <<"sdkId">>, NoQuery, NoBody, decodeDeleteSdkResponse)

sendDeleteSpec ==
    Request("DELETE", <<"specs", "*">>,
        <<"specId">>, NoQuery, NoBody, decodeDeleteSpecResponse)

sendDeleteSpecFile ==
    Request("DELETE", <<"specs", "*", "files", "*">>,
        <<"specId", "filePath">>, NoQuery, NoBody,
        decodeDeleteSpecFileResponse)

sendDeleteWorkspace ==
    Request("DELETE", <<"workspaces", "*">>,
        <<"workspaceId">>, NoQuery, NoBody, decodeDeleteWorkspaceResponse)

sendDeleteWorkspaceUpdate ==
    Request("DELETE", <<"workspaces", "*", "updates", "*">>,
        <<"workspaceId", "updateId">>, NoQuery, NoBody,
        decodeDeleteWorkspaceUpdateResponse)

sendDetectedSecretsQueries ==
    Request("POST", <<"detected-secrets-queries">>,
        <<>>, Query({}, {"limit", "cursor", "include", "since", "until"}),
        encodeDetectedSecretsQueriesRequest,
        decodeDetectedSecretsQueriesResponse)

sendDuplicateCollection ==
    Request("POST", <<"collections", "*", "duplicates">>,
        <<"collectionId">>, NoQuery, encodeDuplicateCollectionRequest,
        decodeDuplicateCollectionResponse)

sendForkEnvironment ==
    Request("POST", <<"environments", "*", "forks">>,
        <<"environmentId">>, Query({"workspaceId"}, {}),
        encodeForkEnvironmentRequest, decodeForkEnvironmentResponse)

sendGenerateCollection ==
    Request("POST", <<"specs", "*", "generations", "*">>,
        <<"specId", "elementType">>, NoQuery, encodeGenerateCollectionRequest,
        decodeGenerateCollectionResponse)

sendGenerateOauthToken ==
    Request("POST", <<"oauth2", "token">>,
        <<>>, NoQuery, encodeGenerateOauthTokenRequest,
        decodeGenerateOauthTokenResponse)

sendGenerateServiceAccountToken ==
    Request("POST", <<"service-account-tokens">>,
        <<>>, NoQuery, NoBody, decodeGenerateServiceAccountTokenResponse)

sendGenerateSpecFromCollection ==
    Request("POST", <<"collections", "*", "generations", "*">>,
        <<"collectionUid", "elementType">>, NoQuery,
        encodeGenerateSpecFromCollectionRequest,
        decodeGenerateSpecFromCollectionResponse)

sendGenerateTool ==
    Request("POST", <<"postbot", "generations", "tool">>,
        <<>>, NoQuery, encodeGenerateToolRequest, decodeGenerateToolResponse)

sendGetAccountInvoices ==
    Request("GET", <<"accounts", "*", "invoices">>,
        <<"accountId">>, Query({"status"}, {}), NoBody,
        decodeGetAccountInvoicesResponse)

sendGetAccounts ==
    Request("GET", <<"accounts">>,
        <<>>, NoQuery, NoBody, decodeGetAccountsResponse)

sendGetAllComponents ==
    Request("GET", <<"components">>,
        <<>>,
        Query({}, {"type", "status", "hasVersions", "include", "expand"}),
        NoBody, decodeGetAllComponentsResponse)

sendGetAllSpecs ==
    Request("GET", <<"specs">>,
        <<>>, Query({"workspaceId"}, {"cursor", "limit"}), NoBody,
        decodeGetAllSpecsResponse)

sendGetAllWorkspaceRoles ==
    Request("GET", <<"workspaces-roles">>,
        <<>>, NoQuery, NoBody, decodeGetAllWorkspaceRolesResponse)

sendGetAnalyticsData ==
    Request("GET", <<"analytics">>,
        <<>>,
        Query({"resource", "metrics"}, {"view", "workspaceType", "userId",
                                        "duration", "requestId",
                                        "responseStatus", "attentionType",
                                        "period", "userType", "entityType",
                                        "limit", "offset"}),
        NoBody, decodeGetAnalyticsDataResponse)

sendGetAnalyticsMetadata ==
    Request("GET", <<"analytics-metadata">>,
        <<>>, Query({}, {"include", "resources", "metrics"}), NoBody,
        decodeGetAnalyticsMetadataResponse)

sendGetAsyncSpecTaskStatus ==
    Request("GET", <<"*", "*", "tasks", "*">>,
        <<"elementType", "elementId", "taskId">>, NoQuery, NoBody,
        decodeGetAsyncSpecTaskStatusResponse)

sendGetAuditLogEventActions ==
    Request("GET", <<"audit-actions">>,
        <<>>, NoQuery, NoBody, decodeGetAuditLogEventActionsResponse)

sendGetAuditLogs ==
    Request("GET", <<"audit", "logs">>,
        <<>>,
        Query({}, {"userId", "action", "since", "until", "limit", "cursor",
                   "orderBy"}),
        NoBody, decodeGetAuditLogsResponse)

sendGetAuthenticatedUser ==
    Request("GET", <<"me">>,
        <<>>, NoQuery, NoBody, decodeGetAuthenticatedUserResponse)

sendGetCollection ==
    Request("GET", <<"collections", "*">>,
        <<"collectionId">>, Query({}, {"access_key", "model"}), NoBody,
        decodeGetCollectionResponse)

sendGetCollectionAccessKeys ==
    Request("GET", <<"collection-access-keys">>,
        <<>>, Query({}, {"collectionId", "cursor"}), NoBody,
        decodeGetCollectionAccessKeysResponse)

sendGetCollectionComments ==
    Request("GET", <<"collections", "*", "comments">>,
        <<"collectionId">>, NoQuery, NoBody,
        decodeGetCollectionCommentsResponse)

sendGetCollectionFolder ==
    Request("GET", <<"collections", "*", "folders", "*">>,
        <<"collectionId", "folderId">>, Query({}, {"ids", "uid", "populate"}),
        NoBody, decodeGetCollectionFolderResponse)

sendGetCollectionForks ==
    Request("GET", <<"collections", "*", "forks">>,
        <<"collectionId">>, Query({}, {"cursor", "limit", "direction"}),
        NoBody, decodeGetCollectionForksResponse)

sendGetCollectionPullRequests ==
    Request("GET", <<"collections", "*", "pull-requests">>,
        <<"collectionId">>, NoQuery, NoBody,
        decodeGetCollectionPullRequestsResponse)

sendGetCollectionRequest ==
    Request("GET", <<"collections", "*", "requests", "*">>,
        <<"collectionId", "requestId">>,
        Query({}, {"ids", "uid", "populate"}), NoBody,
        decodeGetCollectionRequestResponse)

sendGetCollectionResponse ==
    Request("GET", <<"collections", "*", "responses", "*">>,
        <<"collectionId", "responseId">>,
        Query({}, {"ids", "uid", "populate"}), NoBody,
        decodeGetCollectionResponseResponse)

sendGetCollectionRoles ==
    Request("GET", <<"collections", "*", "roles">>,
        <<"collectionId">>, NoQuery, NoBody, decodeGetCollectionRolesResponse)

sendGetCollectionTags ==
    Request("GET", <<"collections", "*", "tags">>,
        <<"collectionId">>, NoQuery, NoBody, decodeGetCollectionTagsResponse)

sendGetCollectionUpdatesTasks ==
    Request("GET", <<"collection-updates-tasks", "*">>,
        <<"taskId">>, NoQuery, NoBody,
        decodeGetCollectionUpdatesTasksResponse)

sendGetCollections ==
    Request("GET", <<"collections">>,
        <<>>, Query({}, {"workspace", "name", "limit", "offset"}), NoBody,
        decodeGetCollectionsResponse)

sendGetCollectionsForkedByUser ==
    Request("GET", <<"collections", "collection-forks">>,
        <<>>, Query({}, {"cursor", "limit", "direction"}), NoBody,
        decodeGetCollectionsForkedByUserResponse)

sendGetComponent ==
    Request("GET", <<"components", "*">>,
        <<"componentId">>, Query({}, {"include", "expand"}), NoBody,
        decodeGetComponentResponse)

sendGetComponentDraft ==
    Request("GET", <<"components", "*", "drafts">>,
        <<"componentId">>, NoQuery, NoBody, decodeGetComponentDraftResponse)

sendGetComponentVersion ==
    Request("GET", <<"components", "*", "versions", "*">>,
        <<"componentId", "versionId">>, Query({}, {"include"}), NoBody,
        decodeGetComponentVersionResponse)

sendGetComponentVersions ==
    Request("GET", <<"components", "*", "versions">>,
        <<"componentId">>, Query({}, {"include"}), NoBody,
        decodeGetComponentVersionsResponse)

sendGetDetectedSecretsLocations ==
    Request("GET", <<"detected-secrets", "*", "locations">>,
        <<"secretId">>,
        Query({"workspaceId"}, {"limit", "cursor", "since", "until",
                                "resourceType"}),
        NoBody, decodeGetDetectedSecretsLocationsResponse)

sendGetDuplicateCollectionTaskStatus ==
    Request("GET", <<"collection-duplicate-tasks", "*">>,
        <<"taskId">>, NoQuery, NoBody,
        decodeGetDuplicateCollectionTaskStatusResponse)

sendGetEnvironment ==
    Request("GET", <<"environments", "*">>,
        <<"environmentId">>, NoQuery, NoBody, decodeGetEnvironmentResponse)

sendGetEnvironmentForks ==
    Request("GET", <<"environments", "*", "forks">>,
        <<"environmentId">>,
        Query({}, {"cursor", "direction", "limit", "sort"}), NoBody,
        decodeGetEnvironmentForksResponse)

sendGetEnvironments ==
    Request("GET", <<"environments">>,
        <<>>, Query({}, {"workspace"}), NoBody, decodeGetEnvironmentsResponse)

sendGetFolderComments ==
    Request("GET", <<"collections", "*", "folders", "*", "comments">>,
        <<"collectionId", "folderId">>, NoQuery, NoBody,
        decodeGetFolderCommentsResponse)

sendGetGeneratedCollectionSpecs ==
    Request("GET", <<"collections", "*", "generations", "*">>,
        <<"collectionUid", "elementType">>, NoQuery, NoBody,
        decodeGetGeneratedCollectionSpecsResponse)

sendGetGroup ==
    Request("GET", <<"groups", "*">>,
        <<"groupId">>, NoQuery, NoBody, decodeGetGroupResponse)

sendGetGroups ==
    Request("GET", <<"groups">>,
        <<>>, NoQuery, NoBody, decodeGetGroupsResponse)

sendGetMock ==
    Request("GET", <<"mocks", "*">>,
        <<"mockId">>, NoQuery, NoBody, decodeGetMockResponse)

sendGetMockCallLogs ==
    Request("GET", <<"mocks", "*", "call-logs">>,
        <<"mockId">>,
        Query({}, {"limit", "cursor", "until", "since", "responseStatusCode",
                   "responseType", "requestMethod", "requestPath", "sort",
                   "direction", "include"}),
        NoBody, decodeGetMockCallLogsResponse)

sendGetMockServerResponse ==
    Request("GET", <<"mocks", "*", "server-responses", "*">>,
        <<"mockId", "serverResponseId">>, NoQuery, NoBody,
        decodeGetMockServerResponseResponse)

sendGetMockServerResponses ==
    Request("GET", <<"mocks", "*", "server-responses">>,
        <<"mockId">>, NoQuery, NoBody, decodeGetMockServerResponsesResponse)

sendGetMocks ==
    Request("GET", <<"mocks">>,
        <<>>, Query({}, {"teamId", "workspace"}), NoBody,
        decodeGetMocksResponse)

sendGetMonitor ==
    Request("GET", <<"monitors", "*">>,
        <<"monitorId">>, NoQuery, NoBody, decodeGetMonitorResponse)

sendGetMonitors ==
    Request("GET", <<"monitors">>,
        <<>>,
        Query({}, {"workspace", "active", "owner", "collectionUid",
                   "environmentUid", "cursor", "limit"}),
        NoBody, decodeGetMonitorsResponse)

sendGetPullRequest ==
    Request("GET", <<"pull-requests", "*">>,
        <<"pullRequestId">>, NoQuery, NoBody, decodeGetPullRequestResponse)

sendGetRequestComments ==
    Request("GET", <<"collections", "*", "requests", "*", "comments">>,
        <<"collectionId", "requestId">>, NoQuery, NoBody,
        decodeGetRequestCommentsResponse)

sendGetResponseComments ==
    Request("GET", <<"collections", "*", "responses", "*", "comments">>,
        <<"collectionId", "responseId">>, NoQuery, NoBody,
        decodeGetResponseCommentsResponse)

sendGetRunnerInstances ==
    Request("GET", <<"runners", "*", "instances">>,
        <<"runnerId">>, Query({}, {"limit", "cursor"}), NoBody,
        decodeGetRunnerInstancesResponse)

sendGetRunnerMetrics ==
    Request("GET", <<"runners", "*", "metrics">>,
        <<"runnerId">>, NoQuery, NoBody, decodeGetRunnerMetricsResponse)

sendGetSdk ==
    Request("GET", <<"sdks", "*">>,
        <<"sdkId">>, NoQuery, NoBody, decodeGetSdkResponse)

sendGetSdkDownloadUrl ==
    Request("GET", <<"sdks", "*", "downloads">>,
        <<"sdkId">>, NoQuery, NoBody, decodeGetSdkDownloadUrlResponse)

sendGetSdkGitConnection ==
    Request("GET", <<"sdk-git-connections", "*">>,
        <<"sdkGitConnectionId">>, NoQuery, NoBody,
        decodeGetSdkGitConnectionResponse)

sendGetSdkGitConnectionPullRequests ==
    Request("GET", <<"sdk-git-connections", "*", "pull-requests">>,
        <<"sdkGitConnectionId">>, Query({}, {"status", "cursor", "limit"}),
        NoBody, decodeGetSdkGitConnectionPullRequestsResponse)

sendGetSdkGitConnections ==
    Request("GET", <<"sdk-git-connections">>,
        <<>>,
        Query({"workspaceId"}, {"sourceId", "language", "status",
                                "repositoryUrl", "cursor", "limit"}),
        NoBody, decodeGetSdkGitConnectionsResponse)

sendGetSdks ==
    Request("GET", <<"sdks">>,
        <<>>,
        Query({"workspaceId"}, {"buildStatus", "language", "sourceId",
                                "cursor", "limit", "sdkIds"}),
        NoBody, decodeGetSdksResponse)

sendGetSecretTypes ==
    Request("GET", <<"secret-types">>,
        <<>>, NoQuery, NoBody, decodeGetSecretTypesResponse)

sendGetSourceCollectionStatus ==
    Request("GET", <<"collections", "*", "source-status">>,
        <<"collectionId">>, NoQuery, NoBody,
        decodeGetSourceCollectionStatusResponse)

sendGetSpec ==
    Request("GET", <<"specs", "*">>,
        <<"specId">>, NoQuery, NoBody, decodeGetSpecResponse)

sendGetSpecCollections ==
    Request("GET", <<"specs", "*", "generations", "*">>,
        <<"specId", "elementType">>, Query({}, {"limit", "cursor"}), NoBody,
        decodeGetSpecCollectionsResponse)

sendGetSpecDefinition ==
    Request("GET", <<"specs", "*", "definitions">>,
        <<"specId">>, NoQuery, NoBody, decodeGetSpecDefinitionResponse)

sendGetSpecFile ==
    Request("GET", <<"specs", "*", "files", "*">>,
        <<"specId", "filePath">>, NoQuery, NoBody, decodeGetSpecFileResponse)

sendGetSpecFiles ==
    Request("GET", <<"specs", "*", "files">>,
        <<"specId">>, NoQuery, NoBody, decodeGetSpecFilesResponse)

sendGetSpecVersionTag ==
    Request("GET", <<"specs", "*", "version-tags", "*", "files">>,
        <<"specId", "tagId">>, NoQuery, NoBody,
        decodeGetSpecVersionTagResponse)

sendGetSpecVersionTags ==
    Request("GET", <<"specs", "*", "version-tags">>,
        <<"specId">>, Query({}, {"cursor", "limit"}), NoBody,
        decodeGetSpecVersionTagsResponse)

sendGetTaggedEntities ==
    Request("GET", <<"tags", "*", "entities">>,
        <<"slug">>, Query({}, {"limit", "direction", "cursor", "entityType"}),
        NoBody, decodeGetTaggedEntitiesResponse)

sendGetTeam ==
    Request("GET", <<"teams", "*">>,
        <<"teamId">>, Query({}, {"include"}), NoBody, decodeGetTeamResponse)

sendGetTeamAccessRequests ==
    Request("GET", <<"teams", "*", "access-requests">>,
        <<"teamId">>, Query({}, {"cursor", "limit"}), NoBody,
        decodeGetTeamAccessRequestsResponse)

sendGetTeamSettings ==
    Request("GET", <<"teams", "*", "settings">>,
        <<"teamId">>, NoQuery, NoBody, decodeGetTeamSettingsResponse)

sendGetTeamUser ==
    Request("GET", <<"users", "*">>,
        <<"userId">>, NoQuery, NoBody, decodeGetTeamUserResponse)

sendGetTeamUsers ==
    Request("GET", <<"users">>,
        <<>>, Query({}, {"groupId"}), NoBody, decodeGetTeamUsersResponse)

sendGetTeams ==
    Request("GET", <<"teams">>,
        <<>>, Query({}, {"cursor", "limit", "settings", "userRoles"}), NoBody,
        decodeGetTeamsResponse)

sendGetWorkspace ==
    Request("GET", <<"workspaces", "*">>,
        <<"workspaceId">>, Query({}, {"include"}), NoBody,
        decodeGetWorkspaceResponse)

sendGetWorkspaceActivityFeed ==
    Request("GET", <<"workspaces", "*", "activities">>,
        <<"workspaceId">>,
        Query({}, {"userId", "elementType", "limit", "cursor"}), NoBody,
        decodeGetWorkspaceActivityFeedResponse)

sendGetWorkspaceGlobalVariables ==
    Request("GET", <<"workspaces", "*", "global-variables">>,
        <<"workspaceId">>, NoQuery, NoBody,
        decodeGetWorkspaceGlobalVariablesResponse)

sendGetWorkspaceRoles ==
    Request("GET", <<"workspaces", "*", "roles">>,
        <<"workspaceId">>, Query({}, {"include"}), NoBody,
        decodeGetWorkspaceRolesResponse)

sendGetWorkspaceTags ==
    Request("GET", <<"workspaces", "*", "tags">>,
        <<"workspaceId">>, NoQuery, NoBody, decodeGetWorkspaceTagsResponse)

sendGetWorkspaceUpdate ==
    Request("GET", <<"workspaces", "*", "updates", "*">>,
        <<"workspaceId", "updateId">>, NoQuery, NoBody,
        decodeGetWorkspaceUpdateResponse)

sendGetWorkspaceUpdates ==
    Request("GET", <<"workspaces", "*", "updates">>,
        <<"workspaceId">>, Query({}, {"cursor", "category"}), NoBody,
        decodeGetWorkspaceUpdatesResponse)

sendGetWorkspaces ==
    Request("GET", <<"workspaces">>,
        <<>>,
        Query({}, {"type", "createdBy", "include", "elementType", "elementId",
                   "cursor", "limit"}),
        NoBody, decodeGetWorkspacesResponse)

sendImportOpenApiDefinition ==
    Request("POST", <<"import", "openapi">>,
        <<>>, Query({"workspace"}, {}), encodeImportOpenApiDefinitionRequest,
        decodeImportOpenApiDefinitionResponse)

sendListPrivateNetworkAddRequests ==
    Request("GET", <<"network", "private", "network-entity", "request",
              "all">>,
        <<>>,
        Query({}, {"since", "until", "requestedBy", "type", "status", "name",
                   "sort", "direction", "offset", "limit"}),
        NoBody, decodeListPrivateNetworkAddRequestsResponse)

sendListPrivateNetworkWorkspaces ==
    Request("GET", <<"network", "private">>,
        <<>>,
        Query({}, {"type", "name", "summary", "description", "since", "until",
                   "addedBy", "sort", "direction", "createdBy", "offset",
                   "limit", "parentFolderId"}),
        NoBody, decodeListPrivateNetworkWorkspacesResponse)

sendManagePartnerWorkspaceInvites ==
    Request("POST", <<"invitations">>,
        <<>>, NoQuery, encodeManagePartnerWorkspaceInvitesRequest,
        decodeManagePartnerWorkspaceInvitesResponse)

sendManageTeamMemberRoles ==
    Request("POST", <<"teams", "*", "bulk-members">>,
        <<"teamId">>, NoQuery, encodeManageTeamMemberRolesRequest,
        decodeManageTeamMemberRolesResponse)

sendMergeCollectionFork ==
    Request("POST", <<"collections", "merge">>,
        <<>>, NoQuery, encodeMergeCollectionForkRequest,
        decodeMergeCollectionForkResponse)

sendMergeEnvironmentFork ==
    Request("POST", <<"environments", "*", "merges">>,
        <<"environmentId">>, NoQuery, encodeMergeEnvironmentForkRequest,
        decodeMergeEnvironmentForkResponse)

sendPatchCollection ==
    Request("PATCH", <<"collections", "*">>,
        <<"collectionId">>, NoQuery, encodePatchCollectionRequest,
        decodePatchCollectionResponse)

sendPatchEnvironment ==
    Request("PATCH", <<"environments", "*">>,
        <<"environmentId">>, NoQuery, encodePatchEnvironmentRequest,
        decodePatchEnvironmentResponse)

sendPatchWorkspaceUpdate ==
    Request("PATCH", <<"workspaces", "*", "updates", "*">>,
        <<"workspaceId", "updateId">>, NoQuery,
        encodePatchWorkspaceUpdateRequest, decodePatchWorkspaceUpdateResponse)

sendPublishDocumentation ==
    Request("PUT", <<"collections", "*", "public-documentations">>,
        <<"collectionId">>, NoQuery, encodePublishDocumentationRequest,
        decodePublishDocumentationResponse)

sendPublishMock ==
    Request("POST", <<"mocks", "*", "publish">>,
        <<"mockId">>, NoQuery, NoBody, decodePublishMockResponse)

sendPullCollectionChanges ==
    Request("PUT", <<"collections", "*", "pulls">>,
        <<"collectionId">>, NoQuery, NoBody,
        decodePullCollectionChangesResponse)

sendPullEnvironment ==
    Request("POST", <<"environments", "*", "pulls">>,
        <<"environmentUid">>, NoQuery, encodePullEnvironmentRequest,
        decodePullEnvironmentResponse)

sendPutCollection ==
    Request("PUT", <<"collections", "*">>,
        <<"collectionId">>, NoQuery, encodePutCollectionRequest,
        decodePutCollectionResponse)

sendPutEnvironment ==
    Request("PUT", <<"environments", "*">>,
        <<"environmentId">>, NoQuery, encodePutEnvironmentRequest,
        decodePutEnvironmentResponse)

sendRemoveTeamMembers ==
    Request("DELETE", <<"teams", "*", "bulk-members">>,
        <<"teamId">>, NoQuery, encodeRemoveTeamMembersRequest,
        decodeRemoveTeamMembersResponse)

sendRemoveWorkspaceFromPrivateNetwork ==
    Request("DELETE", <<"network", "private", "workspace", "*">>,
        <<"workspaceId">>, NoQuery, NoBody,
        decodeRemoveWorkspaceFromPrivateNetworkResponse)

sendResolveCommentThread ==
    Request("POST", <<"comments-resolutions", "*">>,
        <<"threadId">>, NoQuery, NoBody, decodeResolveCommentThreadResponse)

sendRespondPrivateNetworkAddRequest ==
    Request("PUT", <<"network", "private", "network-entity", "request", "*">>,
        <<"requestId">>, NoQuery,
        encodeRespondPrivateNetworkAddRequestRequest,
        decodeRespondPrivateNetworkAddRequestResponse)

sendReviewPullRequest ==
    Request("POST", <<"pull-requests", "*", "tasks">>,
        <<"pullRequestId">>, NoQuery, encodeReviewPullRequestRequest,
        decodeReviewPullRequestResponse)

sendRevokeOauthToken ==
    Request("POST", <<"oauth2", "token", "revoke">>,
        <<>>, NoQuery, encodeRevokeOauthTokenRequest,
        decodeRevokeOauthTokenResponse)

sendRunMonitor ==
    Request("POST", <<"monitors", "*", "run">>,
        <<"monitorId">>, Query({}, {"async"}), NoBody,
        decodeRunMonitorResponse)

sendSchemaSecurityValidation ==
    Request("POST", <<"security", "api-validation">>,
        <<>>, NoQuery, encodeSchemaSecurityValidationRequest,
        decodeSchemaSecurityValidationResponse)

sendSearchPostmanResources ==
    Request("POST", <<"search">>,
        <<>>, Query({}, {"limit", "cursor"}),
        encodeSearchPostmanResourcesRequest,
        decodeSearchPostmanResourcesResponse)

sendSyncCollectionWithSpec ==
    Request("PUT", <<"collections", "*", "synchronizations">>,
        <<"collectionUid">>, Query({"specId"}, {}), NoBody,
        decodeSyncCollectionWithSpecResponse)

sendSyncSpecWithCollection ==
    Request("PUT", <<"specs", "*", "synchronizations">>,
        <<"specId">>, Query({"collectionUid"}, {}), NoBody,
        decodeSyncSpecWithCollectionResponse)

sendTransferCollectionFolders ==
    Request("POST", <<"collection-folders-transfers">>,
        <<>>, NoQuery, encodeTransferCollectionFoldersRequest,
        decodeTransferCollectionFoldersResponse)

sendTransferCollectionRequests ==
    Request("POST", <<"collection-requests-transfers">>,
        <<>>, NoQuery, encodeTransferCollectionRequestsRequest,
        decodeTransferCollectionRequestsResponse)

sendTransferCollectionResponses ==
    Request("POST", <<"collection-responses-transfers">>,
        <<>>, NoQuery, encodeTransferCollectionResponsesRequest,
        decodeTransferCollectionResponsesResponse)

sendTransferWorkspaceElement ==
    Request("POST", <<"workspaces", "*", "element-transfers">>,
        <<"workspaceId">>, NoQuery, encodeTransferWorkspaceElementRequest,
        decodeTransferWorkspaceElementResponse)

sendTransferWorkspaceToTeam ==
    Request("PATCH", <<"workspaces", "*", "transfers">>,
        <<"workspaceId">>, NoQuery, encodeTransferWorkspaceToTeamRequest,
        decodeTransferWorkspaceToTeamResponse)

sendTransformCollectionToOpenApi ==
    Request("GET", <<"collections", "*", "transformations">>,
        <<"collectionId">>, Query({}, {"format"}), NoBody,
        decodeTransformCollectionToOpenApiResponse)

sendUnpublishDocumentation ==
    Request("DELETE", <<"collections", "*", "public-documentations">>,
        <<"collectionId">>, NoQuery, NoBody,
        decodeUnpublishDocumentationResponse)

sendUnpublishMock ==
    Request("DELETE", <<"mocks", "*", "unpublish">>,
        <<"mockId">>, NoQuery, NoBody, decodeUnpublishMockResponse)

sendUpdateCollectionComment ==
    Request("PUT", <<"collections", "*", "comments", "*">>,
        <<"collectionId", "commentId">>, NoQuery,
        encodeUpdateCollectionCommentRequest,
        decodeUpdateCollectionCommentResponse)

sendUpdateCollectionFolder ==
    Request("PUT", <<"collections", "*", "folders", "*">>,
        <<"collectionId", "folderId">>, NoQuery,
        encodeUpdateCollectionFolderRequest,
        decodeUpdateCollectionFolderResponse)

sendUpdateCollectionRequest ==
    Request("PUT", <<"collections", "*", "requests", "*">>,
        <<"collectionId", "requestId">>, NoQuery,
        encodeUpdateCollectionRequestRequest,
        decodeUpdateCollectionRequestResponse)

sendUpdateCollectionResponse ==
    Request("PUT", <<"collections", "*", "responses", "*">>,
        <<"collectionId", "responseId">>, NoQuery,
        encodeUpdateCollectionResponseRequest,
        decodeUpdateCollectionResponseResponse)

sendUpdateCollectionRoles ==
    Request("PATCH", <<"collections", "*", "roles">>,
        <<"collectionId">>, NoQuery, encodeUpdateCollectionRolesRequest,
        decodeUpdateCollectionRolesResponse)

sendUpdateCollectionTags ==
    Request("PUT", <<"collections", "*", "tags">>,
        <<"collectionId">>, NoQuery, encodeUpdateCollectionTagsRequest,
        decodeUpdateCollectionTagsResponse)

sendUpdateComponent ==
    Request("PATCH", <<"components", "*">>,
        <<"componentId">>, NoQuery, encodeUpdateComponentRequest,
        decodeUpdateComponentResponse)

sendUpdateComponentDraft ==
    Request("PATCH", <<"components", "*", "drafts">>,
        <<"componentId">>, NoQuery, encodeUpdateComponentDraftRequest,
        decodeUpdateComponentDraftResponse)

sendUpdateDetectedSecretResolutions ==
    Request("PUT", <<"detected-secrets", "*">>,
        <<"secretId">>, NoQuery, encodeUpdateDetectedSecretResolutionsRequest,
        decodeUpdateDetectedSecretResolutionsResponse)

sendUpdateFolderComment ==
    Request("PUT", <<"collections", "*", "folders", "*", "comments", "*">>,
        <<"collectionId", "folderId", "commentId">>, NoQuery,
        encodeUpdateFolderCommentRequest, decodeUpdateFolderCommentResponse)

sendUpdateMock ==
    Request("PUT", <<"mocks", "*">>,
        <<"mockId">>, NoQuery, encodeUpdateMockRequest,
        decodeUpdateMockResponse)

sendUpdateMockServerResponse ==
    Request("PUT", <<"mocks", "*", "server-responses", "*">>,
        <<"mockId", "serverResponseId">>, NoQuery,
        encodeUpdateMockServerResponseRequest,
        decodeUpdateMockServerResponseResponse)

sendUpdateMonitor ==
    Request("PUT", <<"monitors", "*">>,
        <<"monitorId">>, NoQuery, encodeUpdateMonitorRequest,
        decodeUpdateMonitorResponse)

sendUpdatePanElementOrFolder ==
    Request("PUT", <<"network", "private", "workspace", "*">>,
        <<"workspaceId">>, NoQuery, encodeUpdatePanElementOrFolderRequest,
        decodeUpdatePanElementOrFolderResponse)

sendUpdatePullRequest ==
    Request("PUT", <<"pull-requests", "*">>,
        <<"pullRequestId">>, NoQuery, encodeUpdatePullRequestRequest,
        decodeUpdatePullRequestResponse)

sendUpdateRequestComment ==
    Request("PUT", <<"collections", "*", "requests", "*", "comments", "*">>,
        <<"collectionId", "requestId", "commentId">>, NoQuery,
        encodeUpdateRequestCommentRequest, decodeUpdateRequestCommentResponse)

sendUpdateResponseComment ==
    Request("PUT", <<"collections", "*", "responses", "*", "comments", "*">>,
        <<"collectionId", "responseId", "commentId">>, NoQuery,
        encodeUpdateResponseCommentRequest,
        decodeUpdateResponseCommentResponse)

sendUpdateSdkGitConnection ==
    Request("PUT", <<"sdk-git-connections", "*">>,
        <<"sdkGitConnectionId">>, NoQuery,
        encodeUpdateSdkGitConnectionRequest,
        decodeUpdateSdkGitConnectionResponse)

sendUpdateSpecFile ==
    Request("PATCH", <<"specs", "*", "files", "*">>,
        <<"specId", "filePath">>, NoQuery, encodeUpdateSpecFileRequest,
        decodeUpdateSpecFileResponse)

sendUpdateSpecProperties ==
    Request("PATCH", <<"specs", "*">>,
        <<"specId">>, NoQuery, encodeUpdateSpecPropertiesRequest,
        decodeUpdateSpecPropertiesResponse)

sendUpdateSpecSyncOptions ==
    Request("PATCH", <<"specs", "*", "collections", "*", "sync-options">>,
        <<"specId", "collectionId">>, NoQuery,
        encodeUpdateSpecSyncOptionsRequest,
        decodeUpdateSpecSyncOptionsResponse)

sendUpdateTeamSettings ==
    Request("PUT", <<"teams", "*", "settings">>,
        <<"teamId">>, NoQuery, encodeUpdateTeamSettingsRequest,
        decodeUpdateTeamSettingsResponse)

sendUpdateWorkspace ==
    Request("PUT", <<"workspaces", "*">>,
        <<"workspaceId">>, NoQuery, encodeUpdateWorkspaceRequest,
        decodeUpdateWorkspaceResponse)

sendUpdateWorkspaceGlobalVariables ==
    Request("PUT", <<"workspaces", "*", "global-variables">>,
        <<"workspaceId">>, NoQuery,
        encodeUpdateWorkspaceGlobalVariablesRequest,
        decodeUpdateWorkspaceGlobalVariablesResponse)

sendUpdateWorkspaceRoles ==
    Request("PATCH", <<"workspaces", "*", "roles">>,
        <<"workspaceId">>, NoQuery, encodeUpdateWorkspaceRolesRequest,
        decodeUpdateWorkspaceRolesResponse)

sendUpdateWorkspaceTags ==
    Request("PUT", <<"workspaces", "*", "tags">>,
        <<"workspaceId">>, NoQuery, encodeUpdateWorkspaceTagsRequest,
        decodeUpdateWorkspaceTagsResponse)

\* The methods of Invoker.
Client ==
    [AddWorkspaceToPrivateNetwork |-> sendAddWorkspaceToPrivateNetwork,
     ApproveDenyAccessRequest |-> sendApproveDenyAccessRequest,
     AsyncMergePullCollectionFork |-> sendAsyncMergePullCollectionFork,
     AsyncMergePullCollectionTaskStatus |->
          sendAsyncMergePullCollectionTaskStatus,
     CreateAccessRequest |-> sendCreateAccessRequest,
     CreateCollection |-> sendCreateCollection,
     CreateCollectionComment |-> sendCreateCollectionComment,
     CreateCollectionFolder |-> sendCreateCollectionFolder,
     CreateCollectionFork |-> sendCreateCollectionFork,
     CreateCollectionPullRequest |-> sendCreateCollectionPullRequest,
     CreateCollectionRequest |-> sendCreateCollectionRequest,
     CreateCollectionResponse |-> sendCreateCollectionResponse,
     CreateComponent |-> sendCreateComponent,
     CreateComponentVersion |-> sendCreateComponentVersion,
     CreateEnvironment |-> sendCreateEnvironment,
     CreateFolderComment |-> sendCreateFolderComment,
     CreateMock |-> sendCreateMock,
     CreateMockServerResponse |-> sendCreateMockServerResponse,
     CreateMonitor |-> sendCreateMonitor,
     CreateRequestComment |-> sendCreateRequestComment,
     CreateResponseComment |-> sendCreateResponseComment,
     CreateSdk |-> sendCreateSdk,
     CreateSdkGitConnection |-> sendCreateSdkGitConnection,
     CreateSpec |-> sendCreateSpec,
     CreateSpecFile |-> sendCreateSpecFile,
     CreateSpecVersionTag |-> sendCreateSpecVersionTag,
     CreateTeam |-> sendCreateTeam,
     CreateWebhook |-> sendCreateWebhook,
     CreateWorkspace |-> sendCreateWorkspace,
     CreateWorkspaceUpdate |-> sendCreateWorkspaceUpdate,
     DeleteCollection |-> sendDeleteCollection,
     DeleteCollectionAccessKey |-> sendDeleteCollectionAccessKey,
     DeleteCollectionComment |-> sendDeleteCollectionComment,
     DeleteCollectionFolder |-> sendDeleteCollectionFolder,
     DeleteCollectionRequest |-> sendDeleteCollectionRequest,
     DeleteCollectionResponse |-> sendDeleteCollectionResponse,
     DeleteEnvironment |-> sendDeleteEnvironment,
     DeleteFolderComment |-> sendDeleteFolderComment,
     DeleteMock |-> sendDeleteMock,
     DeleteMockServerResponse |-> sendDeleteMockServerResponse,
     DeleteMonitor |-> sendDeleteMonitor,
     DeleteRequestComment |-> sendDeleteRequestComment,
     DeleteResponseComment |-> sendDeleteResponseComment,
     DeleteSdk |-> sendDeleteSdk,
     DeleteSpec |-> sendDeleteSpec,
     DeleteSpecFile |-> sendDeleteSpecFile,
     DeleteWorkspace |-> sendDeleteWorkspace,
     DeleteWorkspaceUpdate |-> sendDeleteWorkspaceUpdate,
     DetectedSecretsQueries |-> sendDetectedSecretsQueries,
     DuplicateCollection |-> sendDuplicateCollection,
     ForkEnvironment |-> sendForkEnvironment,
     GenerateCollection |-> sendGenerateCollection,
     GenerateOauthToken |-> sendGenerateOauthToken,
     GenerateServiceAccountToken |-> sendGenerateServiceAccountToken,
     GenerateSpecFromCollection |-> sendGenerateSpecFromCollection,
     GenerateTool |-> sendGenerateTool,
     GetAccountInvoices |-> sendGetAccountInvoices,
     GetAccounts |-> sendGetAccounts,
     GetAllComponents |-> sendGetAllComponents,
     GetAllSpecs |-> sendGetAllSpecs,
     GetAllWorkspaceRoles |-> sendGetAllWorkspaceRoles,
     GetAnalyticsData |-> sendGetAnalyticsData,
     GetAnalyticsMetadata |-> sendGetAnalyticsMetadata,
     GetAsyncSpecTaskStatus |-> sendGetAsyncSpecTaskStatus,
     GetAuditLogEventActions |-> sendGetAuditLogEventActions,
     GetAuditLogs |-> sendGetAuditLogs,
     GetAuthenticatedUser |-> sendGetAuthenticatedUser,
     GetCollection |-> sendGetCollection,
     GetCollectionAccessKeys |-> sendGetCollectionAccessKeys,
     GetCollectionComments |-> sendGetCollectionComments,
     GetCollectionFolder |-> sendGetCollectionFolder,
     GetCollectionForks |-> sendGetCollectionForks,
     GetCollectionPullRequests |-> sendGetCollectionPullRequests,
     GetCollectionRequest |-> sendGetCollectionRequest,
     GetCollectionResponse |-> sendGetCollectionResponse,
     GetCollectionRoles |-> sendGetCollectionRoles,
     GetCollectionTags |-> sendGetCollectionTags,
     GetCollectionUpdatesTasks |-> sendGetCollectionUpdatesTasks,
     GetCollections |-> sendGetCollections,
     GetCollectionsForkedByUser |-> sendGetCollectionsForkedByUser,
     GetComponent |-> sendGetComponent,
     GetComponentDraft |-> sendGetComponentDraft,
     GetComponentVersion |-> sendGetComponentVersion,
     GetComponentVersions |-> sendGetComponentVersions,
     GetDetectedSecretsLocations |-> sendGetDetectedSecretsLocations,
     GetDuplicateCollectionTaskStatus |->
          sendGetDuplicateCollectionTaskStatus,
     GetEnvironment |-> sendGetEnvironment,
     GetEnvironmentForks |-> sendGetEnvironmentForks,
     GetEnvironments |-> sendGetEnvironments,
     GetFolderComments |-> sendGetFolderComments,
     GetGeneratedCollectionSpecs |-> sendGetGeneratedCollectionSpecs,
     GetGroup |-> sendGetGroup,
     GetGroups |-> sendGetGroups,
     GetMock |-> sendGetMock,
     GetMockCallLogs |-> sendGetMockCallLogs,
     GetMockServerResponse |-> sendGetMockServerResponse,
     GetMockServerResponses |-> sendGetMockServerResponses,
     GetMocks |-> sendGetMocks,
     GetMonitor |-> sendGetMonitor,
     GetMonitors |-> sendGetMonitors,
     GetPullRequest |-> sendGetPullRequest,
     GetRequestComments |-> sendGetRequestComments,
     GetResponseComments |-> sendGetResponseComments,
     GetRunnerInstances |-> sendGetRunnerInstances,
     GetRunnerMetrics |-> sendGetRunnerMetrics,
     GetSdk |-> sendGetSdk,
     GetSdkDownloadUrl |-> sendGetSdkDownloadUrl,
     GetSdkGitConnection |-> sendGetSdkGitConnection,
     GetSdkGitConnectionPullRequests |-> sendGetSdkGitConnectionPullRequests,
     GetSdkGitConnections |-> sendGetSdkGitConnections,
     GetSdks |-> sendGetSdks,
     GetSecretTypes |-> sendGetSecretTypes,
     GetSourceCollectionStatus |-> sendGetSourceCollectionStatus,
     GetSpec |-> sendGetSpec,
     GetSpecCollections |-> sendGetSpecCollections,
     GetSpecDefinition |-> sendGetSpecDefinition,
     GetSpecFile |-> sendGetSpecFile,
     GetSpecFiles |-> sendGetSpecFiles,
     GetSpecVersionTag |-> sendGetSpecVersionTag,
     GetSpecVersionTags |-> sendGetSpecVersionTags,
     GetTaggedEntities |-> sendGetTaggedEntities,
     GetTeam |-> sendGetTeam,
     GetTeamAccessRequests |-> sendGetTeamAccessRequests,
     GetTeamSettings |-> sendGetTeamSettings,
     GetTeamUser |-> sendGetTeamUser,
     GetTeamUsers |-> sendGetTeamUsers,
     GetTeams |-> sendGetTeams,
     GetWorkspace |-> sendGetWorkspace,
     GetWorkspaceActivityFeed |-> sendGetWorkspaceActivityFeed,
     GetWorkspaceGlobalVariables |-> sendGetWorkspaceGlobalVariables,
     GetWorkspaceRoles |-> sendGetWorkspaceRoles,
     GetWorkspaceTags |-> sendGetWorkspaceTags,
     GetWorkspaceUpdate |-> sendGetWorkspaceUpdate,
     GetWorkspaceUpdates |-> sendGetWorkspaceUpdates,
     GetWorkspaces |-> sendGetWorkspaces,
     ImportOpenApiDefinition |-> sendImportOpenApiDefinition,
     ListPrivateNetworkAddRequests |-> sendListPrivateNetworkAddRequests,
     ListPrivateNetworkWorkspaces |-> sendListPrivateNetworkWorkspaces,
     ManagePartnerWorkspaceInvites |-> sendManagePartnerWorkspaceInvites,
     ManageTeamMemberRoles |-> sendManageTeamMemberRoles,
     MergeCollectionFork |-> sendMergeCollectionFork,
     MergeEnvironmentFork |-> sendMergeEnvironmentFork,
     PatchCollection |-> sendPatchCollection,
     PatchEnvironment |-> sendPatchEnvironment,
     PatchWorkspaceUpdate |-> sendPatchWorkspaceUpdate,
     PublishDocumentation |-> sendPublishDocumentation,
     PublishMock |-> sendPublishMock,
     PullCollectionChanges |-> sendPullCollectionChanges,
     PullEnvironment |-> sendPullEnvironment,
     PutCollection |-> sendPutCollection,
     PutEnvironment |-> sendPutEnvironment,
     RemoveTeamMembers |-> sendRemoveTeamMembers,
     RemoveWorkspaceFromPrivateNetwork |->
          sendRemoveWorkspaceFromPrivateNetwork,
     ResolveCommentThread |-> sendResolveCommentThread,
     RespondPrivateNetworkAddRequest |-> sendRespondPrivateNetworkAddRequest,
     ReviewPullRequest |-> sendReviewPullRequest,
     RevokeOauthToken |-> sendRevokeOauthToken,
     RunMonitor |-> sendRunMonitor,
     SchemaSecurityValidation |-> sendSchemaSecurityValidation,
     SearchPostmanResources |-> sendSearchPostmanResources,
     SyncCollectionWithSpec |-> sendSyncCollectionWithSpec,
     SyncSpecWithCollection |-> sendSyncSpecWithCollection,
     TransferCollectionFolders |-> sendTransferCollectionFolders,
     TransferCollectionRequests |-> sendTransferCollectionRequests,
     TransferCollectionResponses |-> sendTransferCollectionResponses,
     TransferWorkspaceElement |-> sendTransferWorkspaceElement,
     TransferWorkspaceToTeam |-> sendTransferWorkspaceToTeam,
     TransformCollectionToOpenApi |-> sendTransformCollectionToOpenApi,
     UnpublishDocumentation |-> sendUnpublishDocumentation,
     UnpublishMock |-> sendUnpublishMock,
     UpdateCollectionComment |-> sendUpdateCollectionComment,
     UpdateCollectionFolder |-> sendUpdateCollectionFolder,
     UpdateCollectionRequest |-> sendUpdateCollectionRequest,
     UpdateCollectionResponse |-> sendUpdateCollectionResponse,
     UpdateCollectionRoles |-> sendUpdateCollectionRoles,
     UpdateCollectionTags |-> sendUpdateCollectionTags,
     UpdateComponent |-> sendUpdateComponent,
     UpdateComponentDraft |-> sendUpdateComponentDraft,
     UpdateDetectedSecretResolutions |-> sendUpdateDetectedSecretResolutions,
     UpdateFolderComment |-> sendUpdateFolderComment,
     UpdateMock |-> sendUpdateMock,
     UpdateMockServerResponse |-> sendUpdateMockServerResponse,
     UpdateMonitor |-> sendUpdateMonitor,
     UpdatePanElementOrFolder |-> sendUpdatePanElementOrFolder,
     UpdatePullRequest |-> sendUpdatePullRequest,
     UpdateRequestComment |-> sendUpdateRequestComment,
     UpdateResponseComment |-> sendUpdateResponseComment,
     UpdateSdkGitConnection |-> sendUpdateSdkGitConnection,
     UpdateSpecFile |-> sendUpdateSpecFile,
     UpdateSpecProperties |-> sendUpdateSpecProperties,
     UpdateSpecSyncOptions |-> sendUpdateSpecSyncOptions,
     UpdateTeamSettings |-> sendUpdateTeamSettings,
     UpdateWorkspace |-> sendUpdateWorkspace,
     UpdateWorkspaceGlobalVariables |-> sendUpdateWorkspaceGlobalVariables,
     UpdateWorkspaceRoles |-> sendUpdateWorkspaceRoles,
     UpdateWorkspaceTags |-> sendUpdateWorkspaceTags]

=============================================================================
