----------------------------- MODULE Parameters ------------------------------
(***************************************************************************)
(* What each decode<Op>Params of the generated server takes from the path  *)
(* and from the query: the parameter each path argument becomes, in order, *)
(* the query parameters it requires, those it takes when present, and those *)
(* of either kind whose value must be one of an enumeration.               *)
(***************************************************************************)
EXTENDS Endpoint

decodeApproveDenyAccessRequestParams == PathParams(<<"teamId", "requestId">>)

decodeAsyncMergePullCollectionTaskStatusParams == PathParams(<<"taskId">>)

decodeCreateAccessRequestParams == PathParams(<<"teamId">>)

decodeCreateCollectionParams ==
    Params(<<>>, {"workspace"}, {}, {})

decodeCreateCollectionCommentParams == PathParams(<<"collectionId">>)

decodeCreateCollectionFolderParams == PathParams(<<"collectionId">>)

decodeCreateCollectionForkParams ==
    Params(<<"collectionId">>, {"workspace"}, {}, {})

decodeCreateCollectionPullRequestParams == PathParams(<<"collectionId">>)

decodeCreateCollectionRequestParams ==
    Params(<<"collectionId">>, {}, {"folderId"}, {})

decodeCreateCollectionResponseParams ==
    Params(<<"collectionId">>, {"request"}, {}, {})

decodeCreateComponentVersionParams == PathParams(<<"componentId">>)

decodeCreateEnvironmentParams ==
    Params(<<>>, {"workspace"}, {}, {})

decodeCreateFolderCommentParams == PathParams(<<"collectionId", "folderId">>)

decodeCreateMockParams ==
    Params(<<>>, {"workspace"}, {}, {})

decodeCreateMockServerResponseParams == PathParams(<<"mockId">>)

decodeCreateMonitorParams ==
    Params(<<>>, {"workspace"}, {}, {})

decodeCreateRequestCommentParams ==
    PathParams(<<"collectionId", "requestId">>)

decodeCreateResponseCommentParams ==
    PathParams(<<"collectionId", "responseId">>)

decodeCreateSpecParams ==
    Params(<<>>, {"workspaceId"}, {}, {})

decodeCreateSpecFileParams == PathParams(<<"specId">>)

decodeCreateSpecVersionTagParams == PathParams(<<"specId">>)

decodeCreateWebhookParams ==
    Params(<<>>, {"workspace"}, {}, {})

decodeCreateWorkspaceUpdateParams == PathParams(<<"workspaceId">>)

decodeDeleteCollectionParams == PathParams(<<"collectionId">>)

decodeDeleteCollectionAccessKeyParams == PathParams(<<"keyId">>)

decodeDeleteCollectionCommentParams ==
    PathParams(<<"collectionId", "commentId">>)

decodeDeleteCollectionFolderParams ==
    PathParams(<<"collectionId", "folderId">>)

decodeDeleteCollectionRequestParams ==
    PathParams(<<"collectionId", "requestId">>)

decodeDeleteCollectionResponseParams ==
    PathParams(<<"collectionId", "responseId">>)

decodeDeleteEnvironmentParams == PathParams(<<"environmentId">>)

decodeDeleteFolderCommentParams ==
    PathParams(<<"collectionId", "folderId", "commentId">>)

decodeDeleteMockParams == PathParams(<<"mockId">>)

decodeDeleteMockServerResponseParams ==
    PathParams(<<"mockId", "serverResponseId">>)

decodeDeleteMonitorParams == PathParams(<<"monitorId">>)

decodeDeleteRequestCommentParams ==
    PathParams(<<"collectionId", "requestId", "commentId">>)

decodeDeleteResponseCommentParams ==
    PathParams(<<"collectionId", "responseId", "commentId">>)

decodeDeleteSdkParams == PathParams(<<"sdkId">>)

decodeDeleteSpecParams == PathParams(<<"specId">>)

decodeDeleteSpecFileParams == PathParams(<<"specId", "filePath">>)

decodeDeleteWorkspaceParams == PathParams(<<"workspaceId">>)

decodeDeleteWorkspaceUpdateParams == PathParams(<<"workspaceId", "updateId">>)

decodeDetectedSecretsQueriesParams ==
    Params(<<>>, {}, {"limit", "cursor", "include", "since", "until"}, {})

decodeDuplicateCollectionParams == PathParams(<<"collectionId">>)

decodeForkEnvironmentParams ==
    Params(<<"environmentId">>, {"workspaceId"}, {}, {})

decodeGenerateCollectionParams == PathParams(<<"specId", "elementType">>)

decodeGenerateSpecFromCollectionParams ==
    PathParams(<<"collectionUid", "elementType">>)

decodeGetAccountInvoicesParams ==
    Params(<<"accountId">>, {"status"}, {}, {"status"})

decodeGetAllComponentsParams ==
    Params(<<>>, {},
           {"type", "status", "hasVersions", "include", "expand"},
           {"type", "status"})

decodeGetAllSpecsParams ==
    Params(<<>>, {"workspaceId"}, {"cursor", "limit"}, {})

decodeGetAnalyticsDataParams ==
    Params(<<>>, {"resource", "metrics"},
           {"view", "workspaceType", "userId", "duration", "requestId",
            "responseStatus", "attentionType", "period", "userType",
            "entityType", "limit", "offset"},
           {"resource", "metrics", "view", "duration", "userType",
            "entityType"})

decodeGetAnalyticsMetadataParams ==
    Params(<<>>, {}, {"include", "resources", "metrics"}, {"metrics"})

decodeGetAsyncSpecTaskStatusParams ==
    PathParams(<<"elementType", "elementId", "taskId">>)

decodeGetAuditLogsParams ==
    Params(<<>>, {},
           {"userId", "action", "since", "until", "limit", "cursor",
            "orderBy"},
           {"orderBy"})

decodeGetCollectionParams ==
    Params(<<"collectionId">>, {}, {"access_key", "model"}, {"model"})

decodeGetCollectionAccessKeysParams ==
    Params(<<>>, {}, {"collectionId", "cursor"}, {})

decodeGetCollectionCommentsParams == PathParams(<<"collectionId">>)

decodeGetCollectionFolderParams ==
    Params(<<"collectionId", "folderId">>, {}, {"ids", "uid", "populate"}, {})

decodeGetCollectionForksParams ==
    Params(<<"collectionId">>, {},
           {"cursor", "limit", "direction"},
           {"direction"})

decodeGetCollectionPullRequestsParams == PathParams(<<"collectionId">>)

decodeGetCollectionRequestParams ==
    Params(<<"collectionId", "requestId">>, {},
           {"ids", "uid", "populate"},
           {})

decodeGetCollectionResponseParams ==
    Params(<<"collectionId", "responseId">>, {},
           {"ids", "uid", "populate"},
           {})

decodeGetCollectionRolesParams == PathParams(<<"collectionId">>)

decodeGetCollectionTagsParams == PathParams(<<"collectionId">>)

decodeGetCollectionUpdatesTasksParams == PathParams(<<"taskId">>)

decodeGetCollectionsParams ==
    Params(<<>>, {}, {"workspace", "name", "limit", "offset"}, {})

decodeGetCollectionsForkedByUserParams ==
    Params(<<>>, {}, {"cursor", "limit", "direction"}, {"direction"})

decodeGetComponentParams ==
    Params(<<"componentId">>, {}, {"include", "expand"}, {})

decodeGetComponentDraftParams == PathParams(<<"componentId">>)

decodeGetComponentVersionParams ==
    Params(<<"componentId", "versionId">>, {}, {"include"}, {})

decodeGetComponentVersionsParams ==
    Params(<<"componentId">>, {}, {"include"}, {})

decodeGetDetectedSecretsLocationsParams ==
    Params(<<"secretId">>, {"workspaceId"},
           {"limit", "cursor", "since", "until", "resourceType"},
           {"resourceType"})

decodeGetDuplicateCollectionTaskStatusParams == PathParams(<<"taskId">>)

decodeGetEnvironmentParams == PathParams(<<"environmentId">>)

decodeGetEnvironmentForksParams ==
    Params(<<"environmentId">>, {},
           {"cursor", "direction", "limit", "sort"},
           {"direction", "sort"})

decodeGetEnvironmentsParams ==
    Params(<<>>, {}, {"workspace"}, {})

decodeGetFolderCommentsParams == PathParams(<<"collectionId", "folderId">>)

decodeGetGeneratedCollectionSpecsParams ==
    PathParams(<<"collectionUid", "elementType">>)

decodeGetGroupParams == PathParams(<<"groupId">>)

decodeGetMockParams == PathParams(<<"mockId">>)

decodeGetMockCallLogsParams ==
    Params(<<"mockId">>, {},
           {"limit", "cursor", "until", "since", "responseStatusCode",
            "responseType", "requestMethod", "requestPath", "sort",
            "direction", "include"},
           {"sort", "direction"})

decodeGetMockServerResponseParams ==
    PathParams(<<"mockId", "serverResponseId">>)

decodeGetMockServerResponsesParams == PathParams(<<"mockId">>)

decodeGetMocksParams ==
    Params(<<>>, {}, {"teamId", "workspace"}, {})

decodeGetMonitorParams == PathParams(<<"monitorId">>)

decodeGetMonitorsParams ==
    Params(<<>>, {},
           {"workspace", "active", "owner", "collectionUid", "environmentUid",
            "cursor", "limit"},
           {})

decodeGetPullRequestParams == PathParams(<<"pullRequestId">>)

decodeGetRequestCommentsParams == PathParams(<<"collectionId", "requestId">>)

decodeGetResponseCommentsParams ==
    PathParams(<<"collectionId", "responseId">>)

decodeGetRunnerInstancesParams ==
    Params(<<"runnerId">>, {}, {"limit", "cursor"}, {})

decodeGetRunnerMetricsParams == PathParams(<<"runnerId">>)

decodeGetSdkParams == PathParams(<<"sdkId">>)

decodeGetSdkDownloadUrlParams == PathParams(<<"sdkId">>)

decodeGetSdkGitConnectionParams == PathParams(<<"sdkGitConnectionId">>)

decodeGetSdkGitConnectionPullRequestsParams ==
    Params(<<"sdkGitConnectionId">>, {},
           {"status", "cursor", "limit"},
           {"status"})

decodeGetSdkGitConnectionsParams ==
    Params(<<>>, {"workspaceId"},
           {"sourceId", "language", "status", "repositoryUrl", "cursor",
            "limit"},
           {"language", "status"})

decodeGetSdksParams ==
    Params(<<>>, {"workspaceId"},
           {"sdkIds", "buildStatus", "language", "sourceId", "cursor",
            "limit"},
           {"buildStatus", "language"})

decodeGetSourceCollectionStatusParams == PathParams(<<"collectionId">>)

decodeGetSpecParams == PathParams(<<"specId">>)

decodeGetSpecCollectionsParams ==
    Params(<<"specId", "elementType">>, {}, {"limit", "cursor"}, {})

decodeGetSpecDefinitionParams == PathParams(<<"specId">>)

decodeGetSpecFileParams == PathParams(<<"specId", "filePath">>)

decodeGetSpecFilesParams == PathParams(<<"specId">>)

decodeGetSpecVersionTagParams == PathParams(<<"specId", "tagId">>)

decodeGetSpecVersionTagsParams ==
    Params(<<"specId">>, {}, {"cursor", "limit"}, {})

decodeGetTaggedEntitiesParams ==
    Params(<<"slug">>, {},
           {"limit", "direction", "cursor", "entityType"},
           {"direction", "entityType"})

decodeGetTeamParams ==
    Params(<<"teamId">>, {}, {"include"}, {"include"})

decodeGetTeamAccessRequestsParams ==
    Params(<<"teamId">>, {}, {"cursor", "limit"}, {})

decodeGetTeamSettingsParams == PathParams(<<"teamId">>)

decodeGetTeamUserParams == PathParams(<<"userId">>)

decodeGetTeamUsersParams ==
    Params(<<>>, {}, {"groupId"}, {})

decodeGetTeamsParams ==
    Params(<<>>, {}, {"cursor", "limit", "settings", "userRoles"}, {})

decodeGetWorkspaceParams ==
    Params(<<"workspaceId">>, {}, {"include"}, {"include"})

decodeGetWorkspaceActivityFeedParams ==
    Params(<<"workspaceId">>, {},
           {"userId", "elementType", "limit", "cursor"},
           {})

decodeGetWorkspaceGlobalVariablesParams == PathParams(<<"workspaceId">>)

decodeGetWorkspaceRolesParams ==
    Params(<<"workspaceId">>, {}, {"include"}, {"include"})

decodeGetWorkspaceTagsParams == PathParams(<<"workspaceId">>)

decodeGetWorkspaceUpdateParams == PathParams(<<"workspaceId", "updateId">>)

decodeGetWorkspaceUpdatesParams ==
    Params(<<"workspaceId">>, {}, {"cursor", "category"}, {})

decodeGetWorkspacesParams ==
    Params(<<>>, {},
           {"type", "createdBy", "include", "elementType", "elementId",
            "cursor", "limit"},
           {"type", "include", "elementType"})

decodeImportOpenApiDefinitionParams ==
    Params(<<>>, {"workspace"}, {}, {})

decodeListPrivateNetworkAddRequestsParams ==
    Params(<<>>, {},
           {"since", "until", "requestedBy", "type", "status", "name", "sort",
            "direction", "offset", "limit"},
           {"type", "status", "sort", "direction"})

decodeListPrivateNetworkWorkspacesParams ==
    Params(<<>>, {},
           {"type", "name", "summary", "description", "since", "until",
            "addedBy", "sort", "direction", "createdBy", "offset", "limit",
            "parentFolderId"},
           {"type", "sort", "direction"})

decodeManageTeamMemberRolesParams == PathParams(<<"teamId">>)

decodeMergeEnvironmentForkParams == PathParams(<<"environmentId">>)

decodePatchCollectionParams == PathParams(<<"collectionId">>)

decodePatchEnvironmentParams == PathParams(<<"environmentId">>)

decodePatchWorkspaceUpdateParams == PathParams(<<"workspaceId", "updateId">>)

decodePublishDocumentationParams == PathParams(<<"collectionId">>)

decodePublishMockParams == PathParams(<<"mockId">>)

decodePullCollectionChangesParams == PathParams(<<"collectionId">>)

decodePullEnvironmentParams == PathParams(<<"environmentUid">>)

decodePutCollectionParams == PathParams(<<"collectionId">>)

decodePutEnvironmentParams == PathParams(<<"environmentId">>)

decodeRemoveTeamMembersParams == PathParams(<<"teamId">>)

decodeRemoveWorkspaceFromPrivateNetworkParams == PathParams(<<"workspaceId">>)

decodeResolveCommentThreadParams == PathParams(<<"threadId">>)

decodeRespondPrivateNetworkAddRequestParams == PathParams(<<"requestId">>)

decodeReviewPullRequestParams == PathParams(<<"pullRequestId">>)

decodeRunMonitorParams ==
    Params(<<"monitorId">>, {}, {"async"}, {})

decodeSearchPostmanResourcesParams ==
    Params(<<>>, {}, {"limit", "cursor"}, {})

decodeSyncCollectionWithSpecParams ==
    Params(<<"collectionUid">>, {"specId"}, {}, {})

decodeSyncSpecWithCollectionParams ==
    Params(<<"specId">>, {"collectionUid"}, {}, {})

decodeTransferWorkspaceElementParams == PathParams(<<"workspaceId">>)

decodeTransferWorkspaceToTeamParams == PathParams(<<"workspaceId">>)

decodeTransformCollectionToOpenApiParams ==
    Params(<<"collectionId">>, {}, {"format"}, {"format"})

decodeUnpublishDocumentationParams == PathParams(<<"collectionId">>)

decodeUnpublishMockParams == PathParams(<<"mockId">>)

decodeUpdateCollectionCommentParams ==
    PathParams(<<"collectionId", "commentId">>)

decodeUpdateCollectionFolderParams ==
    PathParams(<<"collectionId", "folderId">>)

decodeUpdateCollectionRequestParams ==
    PathParams(<<"collectionId", "requestId">>)

decodeUpdateCollectionResponseParams ==
    PathParams(<<"collectionId", "responseId">>)

decodeUpdateCollectionRolesParams == PathParams(<<"collectionId">>)

decodeUpdateCollectionTagsParams == PathParams(<<"collectionId">>)

decodeUpdateComponentParams == PathParams(<<"componentId">>)

decodeUpdateComponentDraftParams == PathParams(<<"componentId">>)

decodeUpdateDetectedSecretResolutionsParams == PathParams(<<"secretId">>)

decodeUpdateFolderCommentParams ==
    PathParams(<<"collectionId", "folderId", "commentId">>)

decodeUpdateMockParams == PathParams(<<"mockId">>)

decodeUpdateMockServerResponseParams ==
    PathParams(<<"mockId", "serverResponseId">>)

decodeUpdateMonitorParams == PathParams(<<"monitorId">>)

decodeUpdatePanElementOrFolderParams == PathParams(<<"workspaceId">>)

decodeUpdatePullRequestParams == PathParams(<<"pullRequestId">>)

decodeUpdateRequestCommentParams ==
    PathParams(<<"collectionId", "requestId", "commentId">>)

decodeUpdateResponseCommentParams ==
    PathParams(<<"collectionId", "responseId", "commentId">>)

decodeUpdateSdkGitConnectionParams == PathParams(<<"sdkGitConnectionId">>)

decodeUpdateSpecFileParams == PathParams(<<"specId", "filePath">>)

decodeUpdateSpecPropertiesParams == PathParams(<<"specId">>)

decodeUpdateSpecSyncOptionsParams == PathParams(<<"specId", "collectionId">>)

decodeUpdateTeamSettingsParams == PathParams(<<"teamId">>)

decodeUpdateWorkspaceParams == PathParams(<<"workspaceId">>)

decodeUpdateWorkspaceGlobalVariablesParams == PathParams(<<"workspaceId">>)

decodeUpdateWorkspaceRolesParams == PathParams(<<"workspaceId">>)

decodeUpdateWorkspaceTagsParams == PathParams(<<"workspaceId">>)

=============================================================================
