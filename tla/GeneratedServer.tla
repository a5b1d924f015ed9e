-------------------------- MODULE GeneratedServer ----------------------------
(***************************************************************************)
(* What each handle<Op>Request of the generated server is made of: the     *)
(* method and the route it counts its requests under, the decoders it      *)
(* applies to parameters and body, and the encoder of its response.  The   *)
(* stages all of them share are actions of ServerHandlers and of RoundTrip. *)
(***************************************************************************)
EXTENDS Parameters, RequestDecoders, ResponseEncoders

handleAddWorkspaceToPrivateNetworkRequest ==
    Handler("POST", <<"network", "private">>,
        NoParams, decodeAddWorkspaceToPrivateNetworkRequest,
        encodeAddWorkspaceToPrivateNetworkResponse)

handleApproveDenyAccessRequestRequest ==
    Handler("POST", <<"teams", "*", "access-requests", "*">>,
        decodeApproveDenyAccessRequestParams,
        decodeApproveDenyAccessRequestRequest,
        encodeApproveDenyAccessRequestResponse)

handleAsyncMergePullCollectionForkRequest ==
    Handler("PUT", <<"collection-merges">>,
        NoParams, decodeAsyncMergePullCollectionForkRequest,
        encodeAsyncMergePullCollectionForkResponse)

handleAsyncMergePullCollectionTaskStatusRequest ==
    Handler("GET", <<"collection-merges-tasks", "*">>,
        decodeAsyncMergePullCollectionTaskStatusParams, NoBody,
        encodeAsyncMergePullCollectionTaskStatusResponse)

handleCreateAccessRequestRequest ==
    Handler("POST", <<"teams", "*", "access-requests">>,
        decodeCreateAccessRequestParams, decodeCreateAccessRequestRequest,
        encodeCreateAccessRequestResponse)

handleCreateCollectionRequest ==
    Handler("POST", <<"collections">>,
        decodeCreateCollectionParams, decodeCreateCollectionRequest,
        encodeCreateCollectionResponse)

handleCreateCollectionCommentRequest ==
    Handler("POST", <<"collections", "*", "comments">>,
        decodeCreateCollectionCommentParams,
        decodeCreateCollectionCommentRequest,
        encodeCreateCollectionCommentResponse)

handleCreateCollectionFolderRequest ==
    Handler("POST", <<"collections", "*", "folders">>,
        decodeCreateCollectionFolderParams,
        decodeCreateCollectionFolderRequest,
        encodeCreateCollectionFolderResponse)

handleCreateCollectionForkRequest ==
    Handler("POST", <<"collections", "fork", "*">>,
        decodeCreateCollectionForkParams, decodeCreateCollectionForkRequest,
        encodeCreateCollectionForkResponse)

handleCreateCollectionPullRequestRequest ==
    Handler("POST", <<"collections", "*", "pull-requests">>,
        decodeCreateCollectionPullRequestParams,
        decodeCreateCollectionPullRequestRequest,
        encodeCreateCollectionPullRequestResponse)

handleCreateCollectionRequestRequest ==
    Handler("POST", <<"collections", "*", "requests">>,
        decodeCreateCollectionRequestParams,
        decodeCreateCollectionRequestRequest,
        encodeCreateCollectionRequestResponse)

handleCreateCollectionResponseRequest ==
    Handler("POST", <<"collections", "*", "responses">>,
        decodeCreateCollectionResponseParams,
        decodeCreateCollectionResponseRequest,
        encodeCreateCollectionResponseResponse)

handleCreateComponentRequest ==
    Handler("POST", <<"components">>,
        NoParams, decodeCreateComponentRequest, encodeCreateComponentResponse)

handleCreateComponentVersionRequest ==
    Handler("POST", <<"components", "*", "versions">>,
        decodeCreateComponentVersionParams,
        decodeCreateComponentVersionRequest,
        encodeCreateComponentVersionResponse)

handleCreateEnvironmentRequest ==
    Handler("POST", <<"environments">>,
        decodeCreateEnvironmentParams, decodeCreateEnvironmentRequest,
        encodeCreateEnvironmentResponse)

handleCreateFolderCommentRequest ==
    Handler("POST", <<"collections", "*", "folders", "*", "comments">>,
        decodeCreateFolderCommentParams, decodeCreateFolderCommentRequest,
        encodeCreateFolderCommentResponse)

handleCreateMockRequest ==
    Handler("POST", <<"mocks">>,
        decodeCreateMockParams, decodeCreateMockRequest,
        encodeCreateMockResponse)

handleCreateMockServerResponseRequest ==
    Handler("POST", <<"mocks", "*", "server-responses">>,
        decodeCreateMockServerResponseParams,
        decodeCreateMockServerResponseRequest,
        encodeCreateMockServerResponseResponse)

handleCreateMonitorRequest ==
    Handler("POST", <<"monitors">>,
        decodeCreateMonitorParams, decodeCreateMonitorRequest,
        encodeCreateMonitorResponse)

handleCreateRequestCommentRequest ==
    Handler("POST", <<"collections", "*", "requests", "*", "comments">>,
        decodeCreateRequestCommentParams, decodeCreateRequestCommentRequest,
        encodeCreateRequestCommentResponse)

handleCreateResponseCommentRequest ==
    Handler("POST", <<"collections", "*", "responses", "*", "comments">>,
        decodeCreateResponseCommentParams, decodeCreateResponseCommentRequest,
        encodeCreateResponseCommentResponse)

handleCreateSdkRequest ==
    Handler("POST", <<"sdks">>,
        NoParams, decodeCreateSdkRequest, encodeCreateSdkResponse)

handleCreateSdkGitConnectionRequest ==
    Handler("POST", <<"sdk-git-connections">>,
        NoParams, decodeCreateSdkGitConnectionRequest,
        encodeCreateSdkGitConnectionResponse)

handleCreateSpecRequest ==
    Handler("POST", <<"specs">>,
        decodeCreateSpecParams, decodeCreateSpecRequest,
        encodeCreateSpecResponse)

handleCreateSpecFileRequest ==
    Handler("POST", <<"specs", "*", "files">>,
        decodeCreateSpecFileParams, decodeCreateSpecFileRequest,
        encodeCreateSpecFileResponse)

handleCreateSpecVersionTagRequest ==
    Handler("POST", <<"specs", "*", "version-tags">>,
        decodeCreateSpecVersionTagParams, decodeCreateSpecVersionTagRequest,
        encodeCreateSpecVersionTagResponse)

handleCreateTeamRequest ==
    Handler("POST", <<"teams">>,
        NoParams, decodeCreateTeamRequest, encodeCreateTeamResponse)

handleCreateWebhookRequest ==
    Handler("POST", <<"webhooks">>,
        decodeCreateWebhookParams, decodeCreateWebhookRequest,
        encodeCreateWebhookResponse)

handleCreateWorkspaceRequest ==
    Handler("POST", <<"workspaces">>,
        NoParams, decodeCreateWorkspaceRequest, encodeCreateWorkspaceResponse)

handleCreateWorkspaceUpdateRequest ==
    Handler("POST", <<"workspaces", "*", "updates">>,
        decodeCreateWorkspaceUpdateParams, decodeCreateWorkspaceUpdateRequest,
        encodeCreateWorkspaceUpdateResponse)

handleDeleteCollectionRequest ==
    Handler("DELETE", <<"collections", "*">>,
        decodeDeleteCollectionParams, NoBody, encodeDeleteCollectionResponse)

handleDeleteCollectionAccessKeyRequest ==
    Handler("DELETE", <<"collection-access-keys", "*">>,
        decodeDeleteCollectionAccessKeyParams, NoBody,
        encodeDeleteCollectionAccessKeyResponse)

handleDeleteCollectionCommentRequest ==
    Handler("DELETE", <<"collections", "*", "comments", "*">>,
        decodeDeleteCollectionCommentParams, NoBody,
        encodeDeleteCollectionCommentResponse)

handleDeleteCollectionFolderRequest ==
    Handler("DELETE", <<"collections", "*", "folders", "*">>,
        decodeDeleteCollectionFolderParams, NoBody,
        encodeDeleteCollectionFolderResponse)

handleDeleteCollectionRequestRequest ==
    Handler("DELETE", <<"collections", "*", "requests", "*">>,
        decodeDeleteCollectionRequestParams, NoBody,
        encodeDeleteCollectionRequestResponse)

handleDeleteCollectionResponseRequest ==
    Handler("DELETE", <<"collections", "*", "responses", "*">>,
        decodeDeleteCollectionResponseParams, NoBody,
        encodeDeleteCollectionResponseResponse)

handleDeleteEnvironmentRequest ==
    Handler("DELETE", <<"environments", "*">>,
        decodeDeleteEnvironmentParams, NoBody,
        encodeDeleteEnvironmentResponse)

handleDeleteFolderCommentRequest ==
    Handler("DELETE", <<"collections", "*", "folders", "*", "comments", "*">>,
        decodeDeleteFolderCommentParams, NoBody,
        encodeDeleteFolderCommentResponse)

handleDeleteMockRequest ==
    Handler("DELETE", <<"mocks", "*">>,
        decodeDeleteMockParams, NoBody, encodeDeleteMockResponse)

handleDeleteMockServerResponseRequest ==
    Handler("DELETE", <<"mocks", "*", "server-responses", "*">>,
        decodeDeleteMockServerResponseParams, NoBody,
        encodeDeleteMockServerResponseResponse)

handleDeleteMonitorRequest ==
    Handler("DELETE", <<"monitors", "*">>,
        decodeDeleteMonitorParams, NoBody, encodeDeleteMonitorResponse)

handleDeleteRequestCommentRequest ==
    Handler("DELETE", <<"collections", "*", "requests", "*", "comments",
              "*">>,
        decodeDeleteRequestCommentParams, NoBody,
        encodeDeleteRequestCommentResponse)

handleDeleteResponseCommentRequest ==
    Handler("DELETE", <<"collections", "*", "responses", "*", "comments",
              "*">>,
        decodeDeleteResponseCommentParams, NoBody,
        encodeDeleteResponseCommentResponse)

handleDeleteSdkRequest ==
    Handler("DELETE", <<"sdks", "*">>,
        decodeDeleteSdkParams, NoBody, encodeDeleteSdkResponse)

handleDeleteSpecRequest ==
    Handler("DELETE", <<"specs", "*">>,
        decodeDeleteSpecParams, NoBody, encodeDeleteSpecResponse)

handleDeleteSpecFileRequest ==
    Handler("DELETE", <<"specs", "*", "files", "*">>,
        decodeDeleteSpecFileParams, NoBody, encodeDeleteSpecFileResponse)

handleDeleteWorkspaceRequest ==
    Handler("DELETE", <<"workspaces", "*">>,
        decodeDeleteWorkspaceParams, NoBody, encodeDeleteWorkspaceResponse)

handleDeleteWorkspaceUpdateRequest ==
    Handler("DELETE", <<"workspaces", "*", "updates", "*">>,
        decodeDeleteWorkspaceUpdateParams, NoBody,
        encodeDeleteWorkspaceUpdateResponse)

handleDetectedSecretsQueriesRequest ==
    Handler("POST", <<"detected-secrets-queries">>,
        decodeDetectedSecretsQueriesParams,
        decodeDetectedSecretsQueriesRequest,
        encodeDetectedSecretsQueriesResponse)

handleDuplicateCollectionRequest ==
    Handler("POST", <<"collections", "*", "duplicates">>,
        decodeDuplicateCollectionParams, decodeDuplicateCollectionRequest,
        encodeDuplicateCollectionResponse)

handleForkEnvironmentRequest ==
    Handler("POST", <<"environments", "*", "forks">>,
        decodeForkEnvironmentParams, decodeForkEnvironmentRequest,
        encodeForkEnvironmentResponse)

handleGenerateCollectionRequest ==
    Handler("POST", <<"specs", "*", "generations", "*">>,
        decodeGenerateCollectionParams, decodeGenerateCollectionRequest,
        encodeGenerateCollectionResponse)

handleGenerateOauthTokenRequest ==
    Handler("POST", <<"oauth2", "token">>,
        NoParams, decodeGenerateOauthTokenRequest,
        encodeGenerateOauthTokenResponse)

handleGenerateServiceAccountTokenRequest ==
    Handler("POST", <<"service-account-tokens">>,
        NoParams, NoBody, encodeGenerateServiceAccountTokenResponse)

handleGenerateSpecFromCollectionRequest ==
    Handler("POST", <<"collections", "*", "generations", "*">>,
        decodeGenerateSpecFromCollectionParams,
        decodeGenerateSpecFromCollectionRequest,
        encodeGenerateSpecFromCollectionResponse)

handleGenerateToolRequest ==
    Handler("POST", <<"postbot", "generations", "tool">>,
        NoParams, decodeGenerateToolRequest, encodeGenerateToolResponse)

handleGetAccountInvoicesRequest ==
    Handler("GET", <<"accounts", "*", "invoices">>,
        decodeGetAccountInvoicesParams, NoBody,
        encodeGetAccountInvoicesResponse)

handleGetAccountsRequest ==
    Handler("GET", <<"accounts">>,
        NoParams, NoBody, encodeGetAccountsResponse)

handleGetAllComponentsRequest ==
    Handler("GET", <<"components">>,
        decodeGetAllComponentsParams, NoBody, encodeGetAllComponentsResponse)

handleGetAllSpecsRequest ==
    Handler("GET", <<"specs">>,
        decodeGetAllSpecsParams, NoBody, encodeGetAllSpecsResponse)

handleGetAllWorkspaceRolesRequest ==
    Handler("GET", <<"workspaces-roles">>,
        NoParams, NoBody, encodeGetAllWorkspaceRolesResponse)

handleGetAnalyticsDataRequest ==
    Handler("GET", <<"analytics">>,
        decodeGetAnalyticsDataParams, NoBody, encodeGetAnalyticsDataResponse)

handleGetAnalyticsMetadataRequest ==
    Handler("GET", <<"analytics-metadata">>,
        decodeGetAnalyticsMetadataParams, NoBody,
        encodeGetAnalyticsMetadataResponse)

handleGetAsyncSpecTaskStatusRequest ==
    Handler("GET", <<"*", "*", "tasks", "*">>,
        decodeGetAsyncSpecTaskStatusParams, NoBody,
        encodeGetAsyncSpecTaskStatusResponse)

handleGetAuditLogEventActionsRequest ==
    Handler("GET", <<"audit-actions">>,
        NoParams, NoBody, encodeGetAuditLogEventActionsResponse)

handleGetAuditLogsRequest ==
    Handler("GET", <<"audit", "logs">>,
        decodeGetAuditLogsParams, NoBody, encodeGetAuditLogsResponse)

handleGetAuthenticatedUserRequest ==
    Handler("GET", <<"me">>,
        NoParams, NoBody, encodeGetAuthenticatedUserResponse)

handleGetCollectionRequest ==
    Handler("GET", <<"collections", "*">>,
        decodeGetCollectionParams, NoBody, encodeGetCollectionResponse)

handleGetCollectionAccessKeysRequest ==
    Handler("GET", <<"collection-access-keys">>,
        decodeGetCollectionAccessKeysParams, NoBody,
        encodeGetCollectionAccessKeysResponse)

handleGetCollectionCommentsRequest ==
    Handler("GET", <<"collections", "*", "comments">>,
        decodeGetCollectionCommentsParams, NoBody,
        encodeGetCollectionCommentsResponse)

handleGetCollectionFolderRequest ==
    Handler("GET", <<"collections", "*", "folders", "*">>,
        decodeGetCollectionFolderParams, NoBody,
        encodeGetCollectionFolderResponse)

handleGetCollectionForksRequest ==
    Handler("GET", <<"collections", "*", "forks">>,
        decodeGetCollectionForksParams, NoBody,
        encodeGetCollectionForksResponse)

handleGetCollectionPullRequestsRequest ==
    Handler("GET", <<"collections", "*", "pull-requests">>,
        decodeGetCollectionPullRequestsParams, NoBody,
        encodeGetCollectionPullRequestsResponse)

handleGetCollectionRequestRequest ==
    Handler("GET", <<"collections", "*", "requests", "*">>,
        decodeGetCollectionRequestParams, NoBody,
        encodeGetCollectionRequestResponse)

handleGetCollectionResponseRequest ==
    Handler("GET", <<"collections", "*", "responses", "*">>,
        decodeGetCollectionResponseParams, NoBody,
        encodeGetCollectionResponseResponse)

handleGetCollectionRolesRequest ==
    Handler("GET", <<"collections", "*", "roles">>,
        decodeGetCollectionRolesParams, NoBody,
        encodeGetCollectionRolesResponse)

handleGetCollectionTagsRequest ==
    Handler("GET", <<"collections", "*", "tags">>,
        decodeGetCollectionTagsParams, NoBody,
        encodeGetCollectionTagsResponse)

handleGetCollectionUpdatesTasksRequest ==
    Handler("GET", <<"collection-updates-tasks", "*">>,
        decodeGetCollectionUpdatesTasksParams, NoBody,
        encodeGetCollectionUpdatesTasksResponse)

handleGetCollectionsRequest ==
    Handler("GET", <<"collections">>,
        decodeGetCollectionsParams, NoBody, encodeGetCollectionsResponse)

handleGetCollectionsForkedByUserRequest ==
    Handler("GET", <<"collections", "collection-forks">>,
        decodeGetCollectionsForkedByUserParams, NoBody,
        encodeGetCollectionsForkedByUserResponse)

handleGetComponentRequest ==
    Handler("GET", <<"components", "*">>,
        decodeGetComponentParams, NoBody, encodeGetComponentResponse)

handleGetComponentDraftRequest ==
    Handler("GET", <<"components", "*", "drafts">>,
        decodeGetComponentDraftParams, NoBody,
        encodeGetComponentDraftResponse)

handleGetComponentVersionRequest ==
    Handler("GET", <<"components", "*", "versions", "*">>,
        decodeGetComponentVersionParams, NoBody,
        encodeGetComponentVersionResponse)

handleGetComponentVersionsRequest ==
    Handler("GET", <<"components", "*", "versions">>,
        decodeGetComponentVersionsParams, NoBody,
        encodeGetComponentVersionsResponse)

handleGetDetectedSecretsLocationsRequest ==
    Handler("GET", <<"detected-secrets", "*", "locations">>,
        decodeGetDetectedSecretsLocationsParams, NoBody,
        encodeGetDetectedSecretsLocationsResponse)

handleGetDuplicateCollectionTaskStatusRequest ==
    Handler("GET", <<"collection-duplicate-tasks", "*">>,
        decodeGetDuplicateCollectionTaskStatusParams, NoBody,
        encodeGetDuplicateCollectionTaskStatusResponse)

handleGetEnvironmentRequest ==
    Handler("GET", <<"environments", "*">>,
        decodeGetEnvironmentParams, NoBody, encodeGetEnvironmentResponse)

handleGetEnvironmentForksRequest ==
    Handler("GET", <<"environments", "*", "forks">>,
        decodeGetEnvironmentForksParams, NoBody,
        encodeGetEnvironmentForksResponse)

handleGetEnvironmentsRequest ==
    Handler("GET", <<"environments">>,
        decodeGetEnvironmentsParams, NoBody, encodeGetEnvironmentsResponse)

handleGetFolderCommentsRequest ==
    Handler("GET", <<"collections", "*", "folders", "*", "comments">>,
        decodeGetFolderCommentsParams, NoBody,
        encodeGetFolderCommentsResponse)

handleGetGeneratedCollectionSpecsRequest ==
    Handler("GET", <<"collections", "*", "generations", "*">>,
        decodeGetGeneratedCollectionSpecsParams, NoBody,
        encodeGetGeneratedCollectionSpecsResponse)

handleGetGroupRequest ==
    Handler("GET", <<"groups", "*">>,
        decodeGetGroupParams, NoBody, encodeGetGroupResponse)

handleGetGroupsRequest ==
    Handler("GET", <<"groups">>,
        NoParams, NoBody, encodeGetGroupsResponse)

handleGetMockRequest ==
    Handler("GET", <<"mocks", "*">>,
        decodeGetMockParams, NoBody, encodeGetMockResponse)

handleGetMockCallLogsRequest ==
    Handler("GET", <<"mocks", "*", "call-logs">>,
        decodeGetMockCallLogsParams, NoBody, encodeGetMockCallLogsResponse)

handleGetMockServerResponseRequest ==
    Handler("GET", <<"mocks", "*", "server-responses", "*">>,
        decodeGetMockServerResponseParams, NoBody,
        encodeGetMockServerResponseResponse)

handleGetMockServerResponsesRequest ==
    Handler("GET", <<"mocks", "*", "server-responses">>,
        decodeGetMockServerResponsesParams, NoBody,
        encodeGetMockServerResponsesResponse)

handleGetMocksRequest ==
    Handler("GET", <<"mocks">>,
        decodeGetMocksParams, NoBody, encodeGetMocksResponse)

handleGetMonitorRequest ==
    Handler("GET", <<"monitors", "*">>,
        decodeGetMonitorParams, NoBody, encodeGetMonitorResponse)

handleGetMonitorsRequest ==
    Handler("GET", <<"monitors">>,
        decodeGetMonitorsParams, NoBody, encodeGetMonitorsResponse)

handleGetPullRequestRequest ==
    Handler("GET", <<"pull-requests", "*">>,
        decodeGetPullRequestParams, NoBody, encodeGetPullRequestResponse)

handleGetRequestCommentsRequest ==
    Handler("GET", <<"collections", "*", "requests", "*", "comments">>,
        decodeGetRequestCommentsParams, NoBody,
        encodeGetRequestCommentsResponse)

handleGetResponseCommentsRequest ==
    Handler("GET", <<"collections", "*", "responses", "*", "comments">>,
        decodeGetResponseCommentsParams, NoBody,
        encodeGetResponseCommentsResponse)

handleGetRunnerInstancesRequest ==
    Handler("GET", <<"runners", "*", "instances">>,
        decodeGetRunnerInstancesParams, NoBody,
        encodeGetRunnerInstancesResponse)

handleGetRunnerMetricsRequest ==
    Handler("GET", <<"runners", "*", "metrics">>,
        decodeGetRunnerMetricsParams, NoBody, encodeGetRunnerMetricsResponse)

handleGetSdkRequest ==
    Handler("GET", <<"sdks", "*">>,
        decodeGetSdkParams, NoBody, encodeGetSdkResponse)

handleGetSdkDownloadUrlRequest ==
    Handler("GET", <<"sdks", "*", "downloads">>,
        decodeGetSdkDownloadUrlParams, NoBody,
        encodeGetSdkDownloadUrlResponse)

handleGetSdkGitConnectionRequest ==
    Handler("GET", <<"sdk-git-connections", "*">>,
        decodeGetSdkGitConnectionParams, NoBody,
        encodeGetSdkGitConnectionResponse)

handleGetSdkGitConnectionPullRequestsRequest ==
    Handler("GET", <<"sdk-git-connections", "*", "pull-requests">>,
        decodeGetSdkGitConnectionPullRequestsParams, NoBody,
        encodeGetSdkGitConnectionPullRequestsResponse)

handleGetSdkGitConnectionsRequest ==
    Handler("GET", <<"sdk-git-connections">>,
        decodeGetSdkGitConnectionsParams, NoBody,
        encodeGetSdkGitConnectionsResponse)

handleGetSdksRequest ==
    Handler("GET", <<"sdks">>,
        decodeGetSdksParams, NoBody, encodeGetSdksResponse)

handleGetSecretTypesRequest ==
    Handler("GET", <<"secret-types">>,
        NoParams, NoBody, encodeGetSecretTypesResponse)

handleGetSourceCollectionStatusRequest ==
    Handler("GET", <<"collections", "*", "source-status">>,
        decodeGetSourceCollectionStatusParams, NoBody,
        encodeGetSourceCollectionStatusResponse)

handleGetSpecRequest ==
    Handler("GET", <<"specs", "*">>,
        decodeGetSpecParams, NoBody, encodeGetSpecResponse)

handleGetSpecCollectionsRequest ==
    Handler("GET", <<"specs", "*", "generations", "*">>,
        decodeGetSpecCollectionsParams, NoBody,
        encodeGetSpecCollectionsResponse)

handleGetSpecDefinitionRequest ==
    Handler("GET", <<"specs", "*", "definitions">>,
        decodeGetSpecDefinitionParams, NoBody,
        encodeGetSpecDefinitionResponse)

handleGetSpecFileRequest ==
    Handler("GET", <<"specs", "*", "files", "*">>,
        decodeGetSpecFileParams, NoBody, encodeGetSpecFileResponse)

handleGetSpecFilesRequest ==
    Handler("GET", <<"specs", "*", "files">>,
        decodeGetSpecFilesParams, NoBody, encodeGetSpecFilesResponse)

handleGetSpecVersionTagRequest ==
    Handler("GET", <<"specs", "*", "version-tags", "*", "files">>,
        decodeGetSpecVersionTagParams, NoBody,
        encodeGetSpecVersionTagResponse)

handleGetSpecVersionTagsRequest ==
    Handler("GET", <<"specs", "*", "version-tags">>,
        decodeGetSpecVersionTagsParams, NoBody,
        encodeGetSpecVersionTagsResponse)

handleGetTaggedEntitiesRequest ==
    Handler("GET", <<"tags", "*", "entities">>,
        decodeGetTaggedEntitiesParams, NoBody,
        encodeGetTaggedEntitiesResponse)

handleGetTeamRequest ==
    Handler("GET", <<"teams", "*">>,
        decodeGetTeamParams, NoBody, encodeGetTeamResponse)

handleGetTeamAccessRequestsRequest ==
    Handler("GET", <<"teams", "*", "access-requests">>,
        decodeGetTeamAccessRequestsParams, NoBody,
        encodeGetTeamAccessRequestsResponse)

handleGetTeamSettingsRequest ==
    Handler("GET", <<"teams", "*", "settings">>,
        decodeGetTeamSettingsParams, NoBody, encodeGetTeamSettingsResponse)

handleGetTeamUserRequest ==
    Handler("GET", <<"users", "*">>,
        decodeGetTeamUserParams, NoBody, encodeGetTeamUserResponse)

handleGetTeamUsersRequest ==
    Handler("GET", <<"users">>,
        decodeGetTeamUsersParams, NoBody, encodeGetTeamUsersResponse)

handleGetTeamsRequest ==
    Handler("GET", <<"teams">>,
        decodeGetTeamsParams, NoBody, encodeGetTeamsResponse)

handleGetWorkspaceRequest ==
    Handler("GET", <<"workspaces", "*">>,
        decodeGetWorkspaceParams, NoBody, encodeGetWorkspaceResponse)

handleGetWorkspaceActivityFeedRequest ==
    Handler("GET", <<"workspaces", "*", "activities">>,
        decodeGetWorkspaceActivityFeedParams, NoBody,
        encodeGetWorkspaceActivityFeedResponse)

handleGetWorkspaceGlobalVariablesRequest ==
    Handler("GET", <<"workspaces", "*", "global-variables">>,
        decodeGetWorkspaceGlobalVariablesParams, NoBody,
        encodeGetWorkspaceGlobalVariablesResponse)

handleGetWorkspaceRolesRequest ==
    Handler("GET", <<"workspaces", "*", "roles">>,
        decodeGetWorkspaceRolesParams, NoBody,
        encodeGetWorkspaceRolesResponse)

handleGetWorkspaceTagsRequest ==
    Handler("GET", <<"workspaces", "*", "tags">>,
        decodeGetWorkspaceTagsParams, NoBody, encodeGetWorkspaceTagsResponse)

handleGetWorkspaceUpdateRequest ==
    Handler("GET", <<"workspaces", "*", "updates", "*">>,
        decodeGetWorkspaceUpdateParams, NoBody,
        encodeGetWorkspaceUpdateResponse)

handleGetWorkspaceUpdatesRequest ==
    Handler("GET", <<"workspaces", "*", "updates">>,
        decodeGetWorkspaceUpdatesParams, NoBody,
        encodeGetWorkspaceUpdatesResponse)

handleGetWorkspacesRequest ==
    Handler("GET", <<"workspaces">>,
        decodeGetWorkspacesParams, NoBody, encodeGetWorkspacesResponse)

handleImportOpenApiDefinitionRequest ==
    Handler("POST", <<"import", "openapi">>,
        decodeImportOpenApiDefinitionParams,
        decodeImportOpenApiDefinitionRequest,
        encodeImportOpenApiDefinitionResponse)

handleListPrivateNetworkAddRequestsRequest ==
    Handler("GET", <<"network", "private", "network-entity", "request",
              "all">>,
        decodeListPrivateNetworkAddRequestsParams, NoBody,
        encodeListPrivateNetworkAddRequestsResponse)

handleListPrivateNetworkWorkspacesRequest ==
    Handler("GET", <<"network", "private">>,
        decodeListPrivateNetworkWorkspacesParams, NoBody,
        encodeListPrivateNetworkWorkspacesResponse)

handleManagePartnerWorkspaceInvitesRequest ==
    Handler("POST", <<"invitations">>,
        NoParams, decodeManagePartnerWorkspaceInvitesRequest,
        encodeManagePartnerWorkspaceInvitesResponse)

handleManageTeamMemberRolesRequest ==
    Handler("POST", <<"teams", "*", "bulk-members">>,
        decodeManageTeamMemberRolesParams, decodeManageTeamMemberRolesRequest,
        encodeManageTeamMemberRolesResponse)

handleMergeCollectionForkRequest ==
    Handler("POST", <<"collections", "merge">>,
        NoParams, decodeMergeCollectionForkRequest,
        encodeMergeCollectionForkResponse)

handleMergeEnvironmentForkRequest ==
    Handler("POST", <<"environments", "*", "merges">>,
        decodeMergeEnvironmentForkParams, decodeMergeEnvironmentForkRequest,
        encodeMergeEnvironmentForkResponse)

handlePatchCollectionRequest ==
    Handler("PATCH", <<"collections", "*">>,
        decodePatchCollectionParams, decodePatchCollectionRequest,
        encodePatchCollectionResponse)

handlePatchEnvironmentRequest ==
    Handler("PATCH", <<"environments", "*">>,
        decodePatchEnvironmentParams, decodePatchEnvironmentRequest,
        encodePatchEnvironmentResponse)

handlePatchWorkspaceUpdateRequest ==
    Handler("PATCH", <<"workspaces", "*", "updates", "*">>,
        decodePatchWorkspaceUpdateParams, decodePatchWorkspaceUpdateRequest,
        encodePatchWorkspaceUpdateResponse)

handlePublishDocumentationRequest ==
    Handler("PUT", <<"collections", "*", "public-documentations">>,
        decodePublishDocumentationParams, decodePublishDocumentationRequest,
        encodePublishDocumentationResponse)

handlePublishMockRequest ==
    Handler("POST", <<"mocks", "*", "publish">>,
        decodePublishMockParams, NoBody, encodePublishMockResponse)

handlePullCollectionChangesRequest ==
    Handler("PUT", <<"collections", "*", "pulls">>,
        decodePullCollectionChangesParams, NoBody,
        encodePullCollectionChangesResponse)

handlePullEnvironmentRequest ==
    Handler("POST", <<"environments", "*", "pulls">>,
        decodePullEnvironmentParams, decodePullEnvironmentRequest,
        encodePullEnvironmentResponse)

handlePutCollectionRequest ==
    Handler("PUT", <<"collections", "*">>,
        decodePutCollectionParams, decodePutCollectionRequest,
        encodePutCollectionResponse)

handlePutEnvironmentRequest ==
    Handler("PUT", <<"environments", "*">>,
        decodePutEnvironmentParams, decodePutEnvironmentRequest,
        encodePutEnvironmentResponse)

handleRemoveTeamMembersRequest ==
    Handler("DELETE", <<"teams", "*", "bulk-members">>,
        decodeRemoveTeamMembersParams, decodeRemoveTeamMembersRequest,
        encodeRemoveTeamMembersResponse)

handleRemoveWorkspaceFromPrivateNetworkRequest ==
    Handler("DELETE", <<"network", "private", "workspace", "*">>,
        decodeRemoveWorkspaceFromPrivateNetworkParams, NoBody,
        encodeRemoveWorkspaceFromPrivateNetworkResponse)

handleResolveCommentThreadRequest ==
    Handler("POST", <<"comments-resolutions", "*">>,
        decodeResolveCommentThreadParams, NoBody,
        encodeResolveCommentThreadResponse)

handleRespondPrivateNetworkAddRequestRequest ==
    Handler("PUT", <<"network", "private", "network-entity", "request", "*">>,
        decodeRespondPrivateNetworkAddRequestParams,
        decodeRespondPrivateNetworkAddRequestRequest,
        encodeRespondPrivateNetworkAddRequestResponse)

handleReviewPullRequestRequest ==
    Handler("POST", <<"pull-requests", "*", "tasks">>,
        decodeReviewPullRequestParams, decodeReviewPullRequestRequest,
        encodeReviewPullRequestResponse)

handleRevokeOauthTokenRequest ==
    Handler("POST", <<"oauth2", "token", "revoke">>,
        NoParams, decodeRevokeOauthTokenRequest,
        encodeRevokeOauthTokenResponse)

handleRunMonitorRequest ==
    Handler("POST", <<"monitors", "*", "run">>,
        decodeRunMonitorParams, NoBody, encodeRunMonitorResponse)

handleSchemaSecurityValidationRequest ==
    Handler("POST", <<"security", "api-validation">>,
        NoParams, decodeSchemaSecurityValidationRequest,
        encodeSchemaSecurityValidationResponse)

handleSearchPostmanResourcesRequest ==
    Handler("POST", <<"search">>,
        decodeSearchPostmanResourcesParams,
        decodeSearchPostmanResourcesRequest,
        encodeSearchPostmanResourcesResponse)

handleSyncCollectionWithSpecRequest ==
    Handler("PUT", <<"collections", "*", "synchronizations">>,
        decodeSyncCollectionWithSpecParams, NoBody,
        encodeSyncCollectionWithSpecResponse)

handleSyncSpecWithCollectionRequest ==
    Handler("PUT", <<"specs", "*", "synchronizations">>,
        decodeSyncSpecWithCollectionParams, NoBody,
        encodeSyncSpecWithCollectionResponse)

handleTransferCollectionFoldersRequest ==
    Handler("POST", <<"collection-folders-transfers">>,
        NoParams, decodeTransferCollectionFoldersRequest,
        encodeTransferCollectionFoldersResponse)

handleTransferCollectionRequestsRequest ==
    Handler("POST", <<"collection-requests-transfers">>,
        NoParams, decodeTransferCollectionRequestsRequest,
        encodeTransferCollectionRequestsResponse)

handleTransferCollectionResponsesRequest ==
    Handler("POST", <<"collection-responses-transfers">>,
        NoParams, decodeTransferCollectionResponsesRequest,
        encodeTransferCollectionResponsesResponse)

handleTransferWorkspaceElementRequest ==
    Handler("POST", <<"workspaces", "*", "element-transfers">>,
        decodeTransferWorkspaceElementParams,
        decodeTransferWorkspaceElementRequest,
        encodeTransferWorkspaceElementResponse)

handleTransferWorkspaceToTeamRequest ==
    Handler("PATCH", <<"workspaces", "*", "transfers">>,
        decodeTransferWorkspaceToTeamParams,
        decodeTransferWorkspaceToTeamRequest,
        encodeTransferWorkspaceToTeamResponse)

handleTransformCollectionToOpenApiRequest ==
    Handler("GET", <<"collections", "*", "transformations">>,
        decodeTransformCollectionToOpenApiParams, NoBody,
        encodeTransformCollectionToOpenApiResponse)

handleUnpublishDocumentationRequest ==
    Handler("DELETE", <<"collections", "*", "public-documentations">>,
        decodeUnpublishDocumentationParams, NoBody,
        encodeUnpublishDocumentationResponse)

handleUnpublishMockRequest ==
    Handler("DELETE", <<"mocks", "*", "unpublish">>,
        decodeUnpublishMockParams, NoBody, encodeUnpublishMockResponse)

handleUpdateCollectionCommentRequest ==
    Handler("PUT", <<"collections", "*", "comments", "*">>,
        decodeUpdateCollectionCommentParams,
        decodeUpdateCollectionCommentRequest,
        encodeUpdateCollectionCommentResponse)

handleUpdateCollectionFolderRequest ==
    Handler("PUT", <<"collections", "*", "folders", "*">>,
        decodeUpdateCollectionFolderParams,
        decodeUpdateCollectionFolderRequest,
        encodeUpdateCollectionFolderResponse)

handleUpdateCollectionRequestRequest ==
    Handler("PUT", <<"collections", "*", "requests", "*">>,
        decodeUpdateCollectionRequestParams,
        decodeUpdateCollectionRequestRequest,
        encodeUpdateCollectionRequestResponse)

handleUpdateCollectionResponseRequest ==
    Handler("PUT", <<"collections", "*", "responses", "*">>,
        decodeUpdateCollectionResponseParams,
        decodeUpdateCollectionResponseRequest,
        encodeUpdateCollectionResponseResponse)

handleUpdateCollectionRolesRequest ==
    Handler("PATCH", <<"collections", "*", "roles">>,
        decodeUpdateCollectionRolesParams, decodeUpdateCollectionRolesRequest,
        encodeUpdateCollectionRolesResponse)

handleUpdateCollectionTagsRequest ==
    Handler("PUT", <<"collections", "*", "tags">>,
        decodeUpdateCollectionTagsParams, decodeUpdateCollectionTagsRequest,
        encodeUpdateCollectionTagsResponse)

handleUpdateComponentRequest ==
    Handler("PATCH", <<"components", "*">>,
        decodeUpdateComponentParams, decodeUpdateComponentRequest,
        encodeUpdateComponentResponse)

handleUpdateComponentDraftRequest ==
    Handler("PATCH", <<"components", "*", "drafts">>,
        decodeUpdateComponentDraftParams, decodeUpdateComponentDraftRequest,
        encodeUpdateComponentDraftResponse)

handleUpdateDetectedSecretResolutionsRequest ==
    Handler("PUT", <<"detected-secrets", "*">>,
        decodeUpdateDetectedSecretResolutionsParams,
        decodeUpdateDetectedSecretResolutionsRequest,
        encodeUpdateDetectedSecretResolutionsResponse)

handleUpdateFolderCommentRequest ==
    Handler("PUT", <<"collections", "*", "folders", "*", "comments", "*">>,
        decodeUpdateFolderCommentParams, decodeUpdateFolderCommentRequest,
        encodeUpdateFolderCommentResponse)

handleUpdateMockRequest ==
    Handler("PUT", <<"mocks", "*">>,
        decodeUpdateMockParams, decodeUpdateMockRequest,
        encodeUpdateMockResponse)

handleUpdateMockServerResponseRequest ==
    Handler("PUT", <<"mocks", "*", "server-responses", "*">>,
        decodeUpdateMockServerResponseParams,
        decodeUpdateMockServerResponseRequest,
        encodeUpdateMockServerResponseResponse)

handleUpdateMonitorRequest ==
    Handler("PUT", <<"monitors", "*">>,
        decodeUpdateMonitorParams, decodeUpdateMonitorRequest,
        encodeUpdateMonitorResponse)

handleUpdatePanElementOrFolderRequest ==
    Handler("PUT", <<"network", "private", "workspace", "*">>,
        decodeUpdatePanElementOrFolderParams,
        decodeUpdatePanElementOrFolderRequest,
        encodeUpdatePanElementOrFolderResponse)

handleUpdatePullRequestRequest ==
    Handler("PUT", <<"pull-requests", "*">>,
        decodeUpdatePullRequestParams, decodeUpdatePullRequestRequest,
        encodeUpdatePullRequestResponse)

handleUpdateRequestCommentRequest ==
    Handler("PUT", <<"collections", "*", "requests", "*", "comments", "*">>,
        decodeUpdateRequestCommentParams, decodeUpdateRequestCommentRequest,
        encodeUpdateRequestCommentResponse)

handleUpdateResponseCommentRequest ==
    Handler("PUT", <<"collections", "*", "responses", "*", "comments", "*">>,
        decodeUpdateResponseCommentParams, decodeUpdateResponseCommentRequest,
        encodeUpdateResponseCommentResponse)

handleUpdateSdkGitConnectionRequest ==
    Handler("PUT", <<"sdk-git-connections", "*">>,
        decodeUpdateSdkGitConnectionParams,
        decodeUpdateSdkGitConnectionRequest,
        encodeUpdateSdkGitConnectionResponse)

handleUpdateSpecFileRequest ==
    Handler("PATCH", <<"specs", "*", "files", "*">>,
        decodeUpdateSpecFileParams, decodeUpdateSpecFileRequest,
        encodeUpdateSpecFileResponse)

handleUpdateSpecPropertiesRequest ==
    Handler("PATCH", <<"specs", "*">>,
        decodeUpdateSpecPropertiesParams, decodeUpdateSpecPropertiesRequest,
        encodeUpdateSpecPropertiesResponse)

handleUpdateSpecSyncOptionsRequest ==
    Handler("PATCH", <<"specs", "*", "collections", "*", "sync-options">>,
        decodeUpdateSpecSyncOptionsParams, decodeUpdateSpecSyncOptionsRequest,
        encodeUpdateSpecSyncOptionsResponse)

handleUpdateTeamSettingsRequest ==
    Handler("PUT", <<"teams", "*", "settings">>,
        decodeUpdateTeamSettingsParams, decodeUpdateTeamSettingsRequest,
        encodeUpdateTeamSettingsResponse)

handleUpdateWorkspaceRequest ==
    Handler("PUT", <<"workspaces", "*">>,
        decodeUpdateWorkspaceParams, decodeUpdateWorkspaceRequest,
        encodeUpdateWorkspaceResponse)

handleUpdateWorkspaceGlobalVariablesRequest ==
    Handler("PUT", <<"workspaces", "*", "global-variables">>,
        decodeUpdateWorkspaceGlobalVariablesParams,
        decodeUpdateWorkspaceGlobalVariablesRequest,
        encodeUpdateWorkspaceGlobalVariablesResponse)

handleUpdateWorkspaceRolesRequest ==
    Handler("PATCH", <<"workspaces", "*", "roles">>,
        decodeUpdateWorkspaceRolesParams, decodeUpdateWorkspaceRolesRequest,
        encodeUpdateWorkspaceRolesResponse)

handleUpdateWorkspaceTagsRequest ==
    Handler("PUT", <<"workspaces", "*", "tags">>,
        decodeUpdateWorkspaceTagsParams, decodeUpdateWorkspaceTagsRequest,
        encodeUpdateWorkspaceTagsResponse)

\* The methods of Handler.
Server ==
    [AddWorkspaceToPrivateNetwork |->
          handleAddWorkspaceToPrivateNetworkRequest,
     ApproveDenyAccessRequest |-> handleApproveDenyAccessRequestRequest,
     AsyncMergePullCollectionFork |->
          handleAsyncMergePullCollectionForkRequest,
     AsyncMergePullCollectionTaskStatus |->
          handleAsyncMergePullCollectionTaskStatusRequest,
     CreateAccessRequest |-> handleCreateAccessRequestRequest,
     CreateCollection |-> handleCreateCollectionRequest,
     CreateCollectionComment |-> handleCreateCollectionCommentRequest,
     CreateCollectionFolder |-> handleCreateCollectionFolderRequest,
     CreateCollectionFork |-> handleCreateCollectionForkRequest,
     CreateCollectionPullRequest |-> handleCreateCollectionPullRequestRequest,
     CreateCollectionRequest |-> handleCreateCollectionRequestRequest,
     CreateCollectionResponse |-> handleCreateCollectionResponseRequest,
     CreateComponent |-> handleCreateComponentRequest,
     CreateComponentVersion |-> handleCreateComponentVersionRequest,
     CreateEnvironment |-> handleCreateEnvironmentRequest,
     CreateFolderComment |-> handleCreateFolderCommentRequest,
     CreateMock |-> handleCreateMockRequest,
     CreateMockServerResponse |-> handleCreateMockServerResponseRequest,
     CreateMonitor |-> handleCreateMonitorRequest,
     CreateRequestComment |-> handleCreateRequestCommentRequest,
     CreateResponseComment |-> handleCreateResponseCommentRequest,
     CreateSdk |-> handleCreateSdkRequest,
     CreateSdkGitConnection |-> handleCreateSdkGitConnectionRequest,
     CreateSpec |-> handleCreateSpecRequest,
     CreateSpecFile |-> handleCreateSpecFileRequest,
     CreateSpecVersionTag |-> handleCreateSpecVersionTagRequest,
     CreateTeam |-> handleCreateTeamRequest,
     CreateWebhook |-> handleCreateWebhookRequest,
     CreateWorkspace |-> handleCreateWorkspaceRequest,
     CreateWorkspaceUpdate |-> handleCreateWorkspaceUpdateRequest,
     DeleteCollection |-> handleDeleteCollectionRequest,
     DeleteCollectionAccessKey |-> handleDeleteCollectionAccessKeyRequest,
     DeleteCollectionComment |-> handleDeleteCollectionCommentRequest,
     DeleteCollectionFolder |-> handleDeleteCollectionFolderRequest,
     DeleteCollectionRequest |-> handleDeleteCollectionRequestRequest,
     DeleteCollectionResponse |-> handleDeleteCollectionResponseRequest,
     DeleteEnvironment |-> handleDeleteEnvironmentRequest,
     DeleteFolderComment |-> handleDeleteFolderCommentRequest,
     DeleteMock |-> handleDeleteMockRequest,
     DeleteMockServerResponse |-> handleDeleteMockServerResponseRequest,
     DeleteMonitor |-> handleDeleteMonitorRequest,
     DeleteRequestComment |-> handleDeleteRequestCommentRequest,
     DeleteResponseComment |-> handleDeleteResponseCommentRequest,
     DeleteSdk |-> handleDeleteSdkRequest,
     DeleteSpec |-> handleDeleteSpecRequest,
     DeleteSpecFile |-> handleDeleteSpecFileRequest,
     DeleteWorkspace |-> handleDeleteWorkspaceRequest,
     DeleteWorkspaceUpdate |-> handleDeleteWorkspaceUpdateRequest,
     DetectedSecretsQueries |-> handleDetectedSecretsQueriesRequest,
     DuplicateCollection |-> handleDuplicateCollectionRequest,
     ForkEnvironment |-> handleForkEnvironmentRequest,
     GenerateCollection |-> handleGenerateCollectionRequest,
     GenerateOauthToken |-> handleGenerateOauthTokenRequest,
     GenerateServiceAccountToken |-> handleGenerateServiceAccountTokenRequest,
     GenerateSpecFromCollection |-> handleGenerateSpecFromCollectionRequest,
     GenerateTool |-> handleGenerateToolRequest,
     GetAccountInvoices |-> handleGetAccountInvoicesRequest,
     GetAccounts |-> handleGetAccountsRequest,
     GetAllComponents |-> handleGetAllComponentsRequest,
     GetAllSpecs |-> handleGetAllSpecsRequest,
     GetAllWorkspaceRoles |-> handleGetAllWorkspaceRolesRequest,
     GetAnalyticsData |-> handleGetAnalyticsDataRequest,
     GetAnalyticsMetadata |-> handleGetAnalyticsMetadataRequest,
     GetAsyncSpecTaskStatus |-> handleGetAsyncSpecTaskStatusRequest,
     GetAuditLogEventActions |-> handleGetAuditLogEventActionsRequest,
     GetAuditLogs |-> handleGetAuditLogsRequest,
     GetAuthenticatedUser |-> handleGetAuthenticatedUserRequest,
     GetCollection |-> handleGetCollectionRequest,
     GetCollectionAccessKeys |-> handleGetCollectionAccessKeysRequest,
     GetCollectionComments |-> handleGetCollectionCommentsRequest,
     GetCollectionFolder |-> handleGetCollectionFolderRequest,
     GetCollectionForks |-> handleGetCollectionForksRequest,
     GetCollectionPullRequests |-> handleGetCollectionPullRequestsRequest,
     GetCollectionRequest |-> handleGetCollectionRequestRequest,
     GetCollectionResponse |-> handleGetCollectionResponseRequest,
     GetCollectionRoles |-> handleGetCollectionRolesRequest,
     GetCollectionTags |-> handleGetCollectionTagsRequest,
     GetCollectionUpdatesTasks |-> handleGetCollectionUpdatesTasksRequest,
     GetCollections |-> handleGetCollectionsRequest,
     GetCollectionsForkedByUser |-> handleGetCollectionsForkedByUserRequest,
     GetComponent |-> handleGetComponentRequest,
     GetComponentDraft |-> handleGetComponentDraftRequest,
     GetComponentVersion |-> handleGetComponentVersionRequest,
     GetComponentVersions |-> handleGetComponentVersionsRequest,
     GetDetectedSecretsLocations |-> handleGetDetectedSecretsLocationsRequest,
     GetDuplicateCollectionTaskStatus |->
          handleGetDuplicateCollectionTaskStatusRequest,
     GetEnvironment |-> handleGetEnvironmentRequest,
     GetEnvironmentForks |-> handleGetEnvironmentForksRequest,
     GetEnvironments |-> handleGetEnvironmentsRequest,
     GetFolderComments |-> handleGetFolderCommentsRequest,
     GetGeneratedCollectionSpecs |-> handleGetGeneratedCollectionSpecsRequest,
     GetGroup |-> handleGetGroupRequest,
     GetGroups |-> handleGetGroupsRequest,
     GetMock |-> handleGetMockRequest,
     GetMockCallLogs |-> handleGetMockCallLogsRequest,
     GetMockServerResponse |-> handleGetMockServerResponseRequest,
     GetMockServerResponses |-> handleGetMockServerResponsesRequest,
     GetMocks |-> handleGetMocksRequest,
     GetMonitor |-> handleGetMonitorRequest,
     GetMonitors |-> handleGetMonitorsRequest,
     GetPullRequest |-> handleGetPullRequestRequest,
     GetRequestComments |-> handleGetRequestCommentsRequest,
     GetResponseComments |-> handleGetResponseCommentsRequest,
     GetRunnerInstances |-> handleGetRunnerInstancesRequest,
     GetRunnerMetrics |-> handleGetRunnerMetricsRequest,
     GetSdk |-> handleGetSdkRequest,
     GetSdkDownloadUrl |-> handleGetSdkDownloadUrlRequest,
     GetSdkGitConnection |-> handleGetSdkGitConnectionRequest,
     GetSdkGitConnectionPullRequests |->
          handleGetSdkGitConnectionPullRequestsRequest,
     GetSdkGitConnections |-> handleGetSdkGitConnectionsRequest,
     GetSdks |-> handleGetSdksRequest,
     GetSecretTypes |-> handleGetSecretTypesRequest,
     GetSourceCollectionStatus |-> handleGetSourceCollectionStatusRequest,
     GetSpec |-> handleGetSpecRequest,
     GetSpecCollections |-> handleGetSpecCollectionsRequest,
     GetSpecDefinition |-> handleGetSpecDefinitionRequest,
     GetSpecFile |-> handleGetSpecFileRequest,
     GetSpecFiles |-> handleGetSpecFilesRequest,
     GetSpecVersionTag |-> handleGetSpecVersionTagRequest,
     GetSpecVersionTags |-> handleGetSpecVersionTagsRequest,
     GetTaggedEntities |-> handleGetTaggedEntitiesRequest,
     GetTeam |-> handleGetTeamRequest,
     GetTeamAccessRequests |-> handleGetTeamAccessRequestsRequest,
     GetTeamSettings |-> handleGetTeamSettingsRequest,
     GetTeamUser |-> handleGetTeamUserRequest,
     GetTeamUsers |-> handleGetTeamUsersRequest,
     GetTeams |-> handleGetTeamsRequest,
     GetWorkspace |-> handleGetWorkspaceRequest,
     GetWorkspaceActivityFeed |-> handleGetWorkspaceActivityFeedRequest,
     GetWorkspaceGlobalVariables |-> handleGetWorkspaceGlobalVariablesRequest,
     GetWorkspaceRoles |-> handleGetWorkspaceRolesRequest,
     GetWorkspaceTags |-> handleGetWorkspaceTagsRequest,
     GetWorkspaceUpdate |-> handleGetWorkspaceUpdateRequest,
     GetWorkspaceUpdates |-> handleGetWorkspaceUpdatesRequest,
     GetWorkspaces |-> handleGetWorkspacesRequest,
     ImportOpenApiDefinition |-> handleImportOpenApiDefinitionRequest,
     ListPrivateNetworkAddRequests |->
          handleListPrivateNetworkAddRequestsRequest,
     ListPrivateNetworkWorkspaces |->
          handleListPrivateNetworkWorkspacesRequest,
     ManagePartnerWorkspaceInvites |->
          handleManagePartnerWorkspaceInvitesRequest,
     ManageTeamMemberRoles |-> handleManageTeamMemberRolesRequest,
     MergeCollectionFork |-> handleMergeCollectionForkRequest,
     MergeEnvironmentFork |-> handleMergeEnvironmentForkRequest,
     PatchCollection |-> handlePatchCollectionRequest,
     PatchEnvironment |-> handlePatchEnvironmentRequest,
     PatchWorkspaceUpdate |-> handlePatchWorkspaceUpdateRequest,
     PublishDocumentation |-> handlePublishDocumentationRequest,
     PublishMock |-> handlePublishMockRequest,
     PullCollectionChanges |-> handlePullCollectionChangesRequest,
     PullEnvironment |-> handlePullEnvironmentRequest,
     PutCollection |-> handlePutCollectionRequest,
     PutEnvironment |-> handlePutEnvironmentRequest,
     RemoveTeamMembers |-> handleRemoveTeamMembersRequest,
     RemoveWorkspaceFromPrivateNetwork |->
          handleRemoveWorkspaceFromPrivateNetworkRequest,
     ResolveCommentThread |-> handleResolveCommentThreadRequest,
     RespondPrivateNetworkAddRequest |->
          handleRespondPrivateNetworkAddRequestRequest,
     ReviewPullRequest |-> handleReviewPullRequestRequest,
     RevokeOauthToken |-> handleRevokeOauthTokenRequest,
     RunMonitor |-> handleRunMonitorRequest,
     SchemaSecurityValidation |-> handleSchemaSecurityValidationRequest,
     SearchPostmanResources |-> handleSearchPostmanResourcesRequest,
     SyncCollectionWithSpec |-> handleSyncCollectionWithSpecRequest,
     SyncSpecWithCollection |-> handleSyncSpecWithCollectionRequest,
     TransferCollectionFolders |-> handleTransferCollectionFoldersRequest,
     TransferCollectionRequests |-> handleTransferCollectionRequestsRequest,
     TransferCollectionResponses |-> handleTransferCollectionResponsesRequest,
     TransferWorkspaceElement |-> handleTransferWorkspaceElementRequest,
     TransferWorkspaceToTeam |-> handleTransferWorkspaceToTeamRequest,
     TransformCollectionToOpenApi |->
          handleTransformCollectionToOpenApiRequest,
     UnpublishDocumentation |-> handleUnpublishDocumentationRequest,
     UnpublishMock |-> handleUnpublishMockRequest,
     UpdateCollectionComment |-> handleUpdateCollectionCommentRequest,
     UpdateCollectionFolder |-> handleUpdateCollectionFolderRequest,
     UpdateCollectionRequest |-> handleUpdateCollectionRequestRequest,
     UpdateCollectionResponse |-> handleUpdateCollectionResponseRequest,
     UpdateCollectionRoles |-> handleUpdateCollectionRolesRequest,
     UpdateCollectionTags |-> handleUpdateCollectionTagsRequest,
     UpdateComponent |-> handleUpdateComponentRequest,
     UpdateComponentDraft |-> handleUpdateComponentDraftRequest,
     UpdateDetectedSecretResolutions |->
          handleUpdateDetectedSecretResolutionsRequest,
     UpdateFolderComment |-> handleUpdateFolderCommentRequest,
     UpdateMock |-> handleUpdateMockRequest,
     UpdateMockServerResponse |-> handleUpdateMockServerResponseRequest,
     UpdateMonitor |-> handleUpdateMonitorRequest,
     UpdatePanElementOrFolder |-> handleUpdatePanElementOrFolderRequest,
     UpdatePullRequest |-> handleUpdatePullRequestRequest,
     UpdateRequestComment |-> handleUpdateRequestCommentRequest,
     UpdateResponseComment |-> handleUpdateResponseCommentRequest,
     UpdateSdkGitConnection |-> handleUpdateSdkGitConnectionRequest,
     UpdateSpecFile |-> handleUpdateSpecFileRequest,
     UpdateSpecProperties |-> handleUpdateSpecPropertiesRequest,
     UpdateSpecSyncOptions |-> handleUpdateSpecSyncOptionsRequest,
     UpdateTeamSettings |-> handleUpdateTeamSettingsRequest,
     UpdateWorkspace |-> handleUpdateWorkspaceRequest,
     UpdateWorkspaceGlobalVariables |->
          handleUpdateWorkspaceGlobalVariablesRequest,
     UpdateWorkspaceRoles |-> handleUpdateWorkspaceRolesRequest,
     UpdateWorkspaceTags |-> handleUpdateWorkspaceTagsRequest]

=============================================================================
