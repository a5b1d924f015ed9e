-------------------------- MODULE ResponseEncoders ---------------------------
(***************************************************************************)
(* What each encode<Op>Response of the generated server writes for the     *)
(* types its type switch has a case for: the status.  Any other type is an *)
(* error.                                                                  *)
(***************************************************************************)
EXTENDS Endpoint

encodeAddWorkspaceToPrivateNetworkResponse ==
    Writes([ElementCreated |-> 200, Common401Error |-> 401,
            Common403Error |-> 403,
            AddWorkspaceToPrivateNetworkNotFoundResponse |-> 404,
            Common500Error |-> 500])

encodeApproveDenyAccessRequestResponse ==
    Writes([ApproveDenyAccessRequestResponse |-> 200, Teams400Error |-> 400,
            ErrorTypeTitleDetailStatusInstance |-> 401,
            ApproveDenyAccessRequestForbidden |-> 403,
            ApproveDenyAccessRequestNotFound |-> 404,
            ApproveDenyAccessRequestInternalServerError |-> 500])

encodeAsyncMergePullCollectionForkResponse ==
    Writes([AsyncMergePullCollectionForkOkResponse |-> 200,
            AsyncMergePullCollectionForkBadRequest |-> 400,
            Common401Error |-> 401,
            AsyncMergePullCollectionForkForbidden |-> 403,
            Common500Error |-> 500])

encodeAsyncMergePullCollectionTaskStatusResponse ==
    Writes([TaskStatusResponse |-> 200, Common401Error |-> 401,
            AsyncMergePullCollectionTaskStatusForbidden |-> 403,
            AsyncMergePullCollectionTaskStatusNotFound |-> 404,
            Common500Error |-> 500])

encodeCreateAccessRequestResponse ==
    Writes([CreateAccessRequestResponse |-> 200, Teams400Error |-> 400,
            ErrorTypeTitleDetailStatusInstance |-> 401,
            TeamsApiErrorSchema |-> 500])

encodeCreateCollectionResponse ==
    Writes([CollectionCreated |-> 200, ErrorNameMessageDetails |-> 400,
            Common401Error |-> 401, Common500Error |-> 500])

encodeCreateCollectionCommentResponse ==
    Writes([CommentUpdatedCreatedObject |-> 200,
            CreateCollectionCommentUnauthorized |-> 401,
            CreateCollectionCommentForbidden |-> 403,
            CreateCollectionCommentNotFound |-> 404,
            CreateCollectionCommentInternalServerError |-> 500])

encodeCreateCollectionFolderResponse ==
    Writes([CollectionFolderCreated |-> 200,
            CreateCollectionFolderBadRequest |-> 400,
            CreateCollectionFolderUnauthorized |-> 401,
            Common500Error |-> 500])

encodeCreateCollectionForkResponse ==
    Writes([CollectionForkCreated |-> 200, Common401Error |-> 401,
            ErrorNameMessageDetails |-> 404, Common500Error |-> 500])

encodeCreateCollectionPullRequestResponse ==
    Writes([PullRequestCreated |-> 200,
            CreateCollectionPullRequestBadRequest |-> 400,
            CreateCollectionPullRequestForbidden |-> 403,
            Common500Error |-> 500])

encodeCreateCollectionRequestResponse ==
    Writes([CollectionRequestCreated |-> 200,
            CreateCollectionRequestBadRequest |-> 400,
            CreateCollectionRequestUnauthorized |-> 401,
            Common500Error |-> 500])

encodeCreateCollectionResponseResponse ==
    Writes([CreateCollectionResponseOkResponse |-> 200,
            CreateCollectionResponseBadRequest |-> 400,
            CreateCollectionResponseUnauthorized |-> 401,
            Common500Error |-> 500])

encodeCreateComponentResponse ==
    Writes([CreateComponentResponse |-> 200,
            CreateComponentBadRequest |-> 400, Common401Error |-> 401,
            Common403Error |-> 403, CreateComponentConflict |-> 409,
            Common500Error |-> 500])

encodeCreateComponentVersionResponse ==
    Writes([CreateComponentVersionResponse |-> 200,
            CreateComponentVersionBadRequest |-> 400, Common401Error |-> 401,
            Common403Error |-> 403, CreateComponentVersionNotFound |-> 404,
            CreateComponentVersionConflict |-> 409, Common500Error |-> 500])

encodeCreateEnvironmentResponse ==
    Writes([EnvironmentCreated |-> 200, Environment400Errors |-> 400,
            Common401Error |-> 401, Common403Error |-> 403,
            CreateEnvironmentLengthRequired |-> 411,
            CreateEnvironmentRequestEntityTooLarge |-> 413,
            Common500Error |-> 500])

encodeCreateFolderCommentResponse ==
    Writes([CommentUpdatedCreatedObject |-> 200,
            CreateFolderCommentUnauthorized |-> 401,
            CreateFolderCommentForbidden |-> 403,
            CreateFolderCommentNotFound |-> 404,
            CreateFolderCommentInternalServerError |-> 500])

encodeCreateMockResponse ==
    Writes([MockCreateUpdateResponse |-> 200, Common400Error |-> 400,
            Common401Error |-> 401, InternalServerError |-> 500])

encodeCreateMockServerResponseResponse ==
    Writes([CreateMockServerResponseOkResponse |-> 200,
            Common400Error |-> 400, Common401Error |-> 401,
            GetMockServerResponsesNotFoundResponse |-> 404,
            Common500Error |-> 500])

encodeCreateMonitorResponse ==
    Writes([CreateUpdateMonitorResponse |-> 200, Monitors400Errors |-> 400,
            Common401Error |-> 401, Common403Error |-> 403,
            Common500Error |-> 500])

encodeCreateRequestCommentResponse ==
    Writes([CommentUpdatedCreatedObject |-> 200,
            CreateRequestCommentUnauthorized |-> 401,
            CreateRequestCommentForbidden |-> 403,
            CreateRequestCommentNotFound |-> 404,
            CreateRequestCommentInternalServerError |-> 500])

encodeCreateResponseCommentResponse ==
    Writes([CommentUpdatedCreatedObject |-> 200,
            CreateResponseCommentUnauthorized |-> 401,
            CreateResponseCommentForbidden |-> 403,
            CreateResponseCommentNotFound |-> 404,
            CreateResponseCommentInternalServerError |-> 500])

encodeCreateSdkResponse ==
    WritesBare([CreateSdkOK |-> 200, SdkError |-> 400, Common401Error |-> 401,
                Common403Error |-> 403, CreateSdkUnprocessableEntity |-> 422,
                CreateSdkTooManyRequests |-> 429,
                Common500Error |-> 500], {"CreateSdkOK"})

encodeCreateSdkGitConnectionResponse ==
    Writes([SdkGitConnection |-> 200, SdkError |-> 400,
            Common401Error |-> 401, Common403Error |-> 403,
            CreateSdkGitConnectionConflict |-> 409,
            CreateSdkGitConnectionTooManyRequests |-> 429,
            Common500Error |-> 500])

encodeCreateSpecResponse ==
    Writes([CreateSpecResponse |-> 200, CreateSpecBadRequest |-> 400,
            CreateSpecUnauthorized |-> 401, ApiSpec403Error |-> 403,
            CreateApiClientErrorResponse |-> 404, Common500Error |-> 500])

encodeCreateSpecFileResponse ==
    Writes([CreateUpdateSpecFileResponse |-> 200,
            CreateSpecFileBadRequest |-> 400,
            CreateSpecFileUnauthorized |-> 401, ApiSpec403Error |-> 403,
            CreateSpecFileNotFound |-> 404, Common500Error |-> 500])

encodeCreateSpecVersionTagResponse ==
    Writes([CreateSpecVersionTagResponse |-> 200,
            CreateSpecVersionTagBadRequest |-> 400,
            CreateSpecVersionTagUnauthorized |-> 401, ApiSpec403Error |-> 403,
            CreateSpecVersionTagNotFound |-> 404,
            CreateSpecVersionTagConflict |-> 409, Common500Error |-> 500])

encodeCreateTeamResponse ==
    Writes([CreateGetTeamResponse |-> 200, Teams400Error |-> 400,
            ErrorTypeTitleDetailStatusInstance |-> 401,
            CreateTeamForbidden |-> 403,
            CreateTeamInternalServerError |-> 500])

encodeCreateWebhookResponse ==
    Writes([WebhookCreated |-> 200, ErrorNameMessageDetails |-> 400,
            Common401Error |-> 401, Common500Error |-> 500])

encodeCreateWorkspaceResponse ==
    Writes([CreateWorkspaceOkResponse |-> 200,
            GetAuditLogEventActionsClientErrorResponse |-> 400,
            Common401Error |-> 401, Forbidden |-> 403,
            Common500Error |-> 500])

encodeCreateWorkspaceUpdateResponse ==
    Writes([WorkspaceUpdatePostPatchResponseData |-> 200,
            CreateWorkspaceUpdateBadRequest |-> 400,
            ErrorTypeTitleDetailStatusInstance |-> 401,
            CreateWorkspaceUpdateForbidden |-> 403,
            CreateWorkspaceUpdateNotFound |-> 404,
            CreateWorkspaceUpdateUnprocessableEntity |-> 422,
            Common500Error |-> 500])

encodeDeleteCollectionResponse ==
    Writes([CollectionDeleted |-> 200, Common401Error |-> 401,
            ErrorNameMessageDetails |-> 404, Common500Error |-> 500])

encodeDeleteCollectionAccessKeyResponse ==
    WritesBare([DeleteCollectionAccessKeyOK |-> 200, Common401Error |-> 401,
                Common403Error |-> 403,
                DeleteCollectionAccessKeyNotFoundResponse |-> 404,
                Common500Error |-> 500], {"DeleteCollectionAccessKeyOK"})

encodeDeleteCollectionCommentResponse ==
    WritesBare([DeleteCollectionCommentOK |-> 200,
                DeleteCollectionCommentUnauthorized |-> 401,
                DeleteCollectionCommentForbidden |-> 403,
                DeleteCollectionCommentNotFound |-> 404,
                DeleteCollectionCommentInternalServerError |-> 500],
               {"DeleteCollectionCommentOK"})

encodeDeleteCollectionFolderResponse ==
    Writes([CollectionFolderDeleted |-> 200,
            DeleteCollectionFolderUnauthorized |-> 401,
            DeleteCollectionFolderNotFound |-> 404, Common500Error |-> 500])

encodeDeleteCollectionRequestResponse ==
    Writes([CollectionRequestDeleted |-> 200,
            DeleteCollectionRequestUnauthorized |-> 401,
            DeleteCollectionRequestNotFound |-> 404, Common500Error |-> 500])

encodeDeleteCollectionResponseResponse ==
    Writes([CollectionResponseDeleted |-> 200,
            DeleteCollectionResponseUnauthorized |-> 401,
            DeleteCollectionResponseNotFound |-> 404, Common500Error |-> 500])

encodeDeleteEnvironmentResponse ==
    Writes([EnvironmentDeleted |-> 200, Common401Error |-> 401,
            Environments404Error |-> 404, Common500Error |-> 500])

encodeDeleteFolderCommentResponse ==
    WritesBare([DeleteFolderCommentOK |-> 200,
                DeleteFolderCommentUnauthorized |-> 401,
                DeleteFolderCommentForbidden |-> 403,
                DeleteFolderCommentNotFound |-> 404,
                DeleteFolderCommentInternalServerError |-> 500],
               {"DeleteFolderCommentOK"})

encodeDeleteMockResponse ==
    Writes([MockDeleted |-> 200, Common401Error |-> 401,
            ErrorNameMessageDetails |-> 404, InternalServerError |-> 500])

encodeDeleteMockServerResponseResponse ==
    Writes([ServerResponseDeleted |-> 200, Common401Error |-> 401,
            GetMockServerResponsesNotFoundResponse |-> 404,
            Common500Error |-> 500])

encodeDeleteMonitorResponse ==
    Writes([MonitorDeleted |-> 200, Common401Error |-> 401,
            Common403Error |-> 403,
            GetAuditLogEventActionsClientErrorResponse |-> 404,
            Common500Error |-> 500])

encodeDeleteRequestCommentResponse ==
    WritesBare([DeleteRequestCommentOK |-> 200,
                DeleteRequestCommentUnauthorized |-> 401,
                DeleteRequestCommentForbidden |-> 403,
                DeleteRequestCommentNotFound |-> 404,
                DeleteRequestCommentInternalServerError |-> 500],
               {"DeleteRequestCommentOK"})

encodeDeleteResponseCommentResponse ==
    WritesBare([DeleteResponseCommentOK |-> 200,
                DeleteResponseCommentUnauthorized |-> 401,
                DeleteResponseCommentForbidden |-> 403,
                DeleteResponseCommentNotFound |-> 404,
                DeleteResponseCommentInternalServerError |-> 500],
               {"DeleteResponseCommentOK"})

encodeDeleteSdkResponse ==
    WritesBare([DeleteSdkOK |-> 200, Common401Error |-> 401,
                Common403Error |-> 403, DeleteSdkNotFound |-> 404,
                DeleteSdkConflict |-> 409, DeleteSdkTooManyRequests |-> 429,
                Common500Error |-> 500], {"DeleteSdkOK"})

encodeDeleteSpecResponse ==
    WritesBare([DeleteSpecOK |-> 200, DeleteSpecUnauthorized |-> 401,
                ApiSpec403Error |-> 403, DeleteSpecNotFound |-> 404,
                Common500Error |-> 500], {"DeleteSpecOK"})

encodeDeleteSpecFileResponse ==
    WritesBare([DeleteSpecFileOK |-> 200, DeleteSpecFileBadRequest |-> 400,
                DeleteSpecFileUnauthorized |-> 401, ApiSpec403Error |-> 403,
                DeleteSpecFileNotFound |-> 404,
                Common500Error |-> 500], {"DeleteSpecFileOK"})

encodeDeleteWorkspaceResponse ==
    Writes([WorkspaceDeleted |-> 200,
            GetAuditLogEventActionsClientErrorResponse |-> 400,
            Common401Error |-> 401, Common500Error |-> 500])

encodeDeleteWorkspaceUpdateResponse ==
    WritesBare([DeleteWorkspaceUpdateOK |-> 200,
                ErrorTypeTitleDetailStatusInstance |-> 401,
                DeleteWorkspaceUpdateForbidden |-> 403,
                DeleteWorkspaceUpdateNotFound |-> 404,
                Common500Error |-> 500], {"DeleteWorkspaceUpdateOK"})

encodeDetectedSecretsQueriesResponse ==
    Writes([SearchDetectedSecretsRequest |-> 200,
            DetectedSecretsQuery400Errors |-> 400,
            DetectedSecretsQueriesUnauthorized |-> 401,
            SecretScanner403Error |-> 403,
            DetectedSecretsQueriesInternalServerError |-> 500])

encodeDuplicateCollectionResponse ==
    Writes([DuplicateCollectionResponse |-> 200, Common400Error |-> 400,
            Common401Error |-> 401, Common403Error |-> 403,
            Common500Error |-> 500])

encodeForkEnvironmentResponse ==
    Writes([ForkEnvironmentOkResponse |-> 200, Common401Error |-> 401,
            ErrorTypeTitleDetailStatus |-> 404, Common500Error |-> 500])

encodeGenerateCollectionResponse ==
    Writes([TaskCreated |-> 200, GenerateCollectionUnauthorized |-> 401,
            ApiSpec403Error |-> 403, GenerateCollectionNotFound |-> 404,
            GenerateCollectionLocked |-> 423, Common500Error |-> 500])

encodeGenerateOauthTokenResponse ==
    Writes([GenerateOauthTokenResponse |-> 200,
            GenerateOauthTokenBadRequest |-> 400,
            GenerateOauthTokenNotFound |-> 404, Common500Error |-> 500])

encodeGenerateServiceAccountTokenResponse ==
    Writes([GenerateServiceAccountTokenResponse |-> 200,
            Common400Error |-> 400, ErrorTypeTitleDetailStatus |-> 401,
            ErrorTypeTitleDetailStatusInstance |-> 429,
            Common500Error |-> 500])

encodeGenerateSpecFromCollectionResponse ==
    Writes([TaskCreated |-> 200, ApiSpec403Error |-> 403,
            GenerateSpecFromCollectionNotFound |-> 404,
            GenerateSpecFromCollectionLocked |-> 423, Common500Error |-> 500])

encodeGenerateToolResponse ==
    Writes([GenerateToolResponse |-> 200,
            GenerateToolBadRequestResponse |-> 400,
            ErrorTypeTitleDetailStatus |-> 429, Common500Error |-> 500])

encodeGetAccountInvoicesResponse ==
    Writes([GetAccountInvoices |-> 200, GetAccountInvoicesBadRequest |-> 400,
            Common401Error |-> 401, GetAccountInvoicesForbidden |-> 403,
            Common500Error |-> 500])

encodeGetAccountsResponse ==
    Writes([AccountInformation |-> 200, ErrorTypeTitleDetailStatus |-> 400,
            Common401Error |-> 401, Common500Error |-> 500])

encodeGetAllComponentsResponse ==
    Writes([GetAllComponents |-> 200, ErrorTypeTitleDetailStatus |-> 400,
            Common401Error |-> 401, Common500Error |-> 500])

encodeGetAllSpecsResponse ==
    Writes([GetAllSpecs |-> 200, GetAllSpecsBadRequest |-> 400,
            GetAllSpecsUnauthorized |-> 401, ApiSpec403Error |-> 403,
            Common500Error |-> 500])

encodeGetAllWorkspaceRolesResponse ==
    Writes([GetAllWorkspaceRolesOkResponse |-> 200, Common401Error |-> 401,
            Common403Error |-> 403, Common500Error |-> 500])

encodeGetAnalyticsDataResponse ==
    Writes([GetAnalyticsData |-> 200, ErrorTypeTitleDetailStatus |-> 400,
            GetAnalyticsDataUnauthorized |-> 401,
            GetAnalyticsDataForbidden |-> 403, Common500Error |-> 500])

encodeGetAnalyticsMetadataResponse ==
    Writes([GetAnalyticsMetadata |-> 200,
            GetAnalyticsMetadataUnauthorized |-> 401,
            GetAnalyticsMetadataForbidden |-> 403, Common500Error |-> 500])

encodeGetAsyncSpecTaskStatusResponse ==
    Writes([GetAsyncCollectionTaskStatus |-> 200,
            GetAsyncSpecTaskStatusUnauthorized |-> 401,
            ApiSpec403Error |-> 403, GetAsyncSpecTaskStatusNotFound |-> 404,
            Common500Error |-> 500])

encodeGetAuditLogEventActionsResponse ==
    Writes([GetAuditLogEventActionsOKApplicationJSON |-> 200,
            GetAuditLogEventActionsBadRequest |-> 400,
            GetAuditLogEventActionsForbidden |-> 403, Common500Error |-> 500])

encodeGetAuditLogsResponse ==
    Writes([GetAuditLogs |-> 200,
            GetAuditLogEventActionsClientErrorResponse |-> 400,
            Common401Error |-> 401, Common500Error |-> 500])

encodeGetAuthenticatedUserResponse ==
    Writes([GetAuthenticatedUserOkResponse |-> 200, Common401Error |-> 401,
            Common500Error |-> 500])

encodeGetCollectionResponse ==
    Writes([CollectionInformation |-> 200,
            GetAuditLogEventActionsClientErrorResponse |-> 400,
            Common401Error |-> 401, Common500Error |-> 500])

encodeGetCollectionAccessKeysResponse ==
    Writes([CollectionAccessKeys |-> 200, Common400Error |-> 400,
            Common401Error |-> 401, Common403Error |-> 403,
            Common500Error |-> 500])

encodeGetCollectionCommentsResponse ==
    Writes([CommentResponseObject |-> 200,
            GetCollectionCommentsUnauthorized |-> 401,
            GetCollectionCommentsForbidden |-> 403,
            GetCollectionCommentsNotFound |-> 404,
            GetCollectionCommentsInternalServerError |-> 500])

encodeGetCollectionFolderResponse ==
    Writes([CollectionFolderInfo |-> 200,
            GetCollectionFolderUnauthorized |-> 401,
            GetCollectionFolderNotFound |-> 404, Common500Error |-> 500])

encodeGetCollectionForksResponse ==
    Writes([CollectionForksInfo |-> 200,
            GetAuditLogEventActionsClientErrorResponse |-> 400,
            GetCollectionForksNotFoundResponse |-> 404,
            Common500Error |-> 500])

encodeGetCollectionPullRequestsResponse ==
    Writes([CollectionPullRequests |-> 200,
            ErrorTypeTitleDetailStatus |-> 403, Common500Error |-> 500])

encodeGetCollectionRequestResponse ==
    Writes([CollectionRequestInfo |-> 200,
            GetCollectionRequestUnauthorized |-> 401,
            GetCollectionRequestNotFound |-> 404, Common500Error |-> 500])

encodeGetCollectionResponseResponse ==
    Writes([CollectionResponseInfo |-> 200,
            GetCollectionResponseUnauthorized |-> 401,
            GetCollectionResponseNotFound |-> 404, Common500Error |-> 500])

encodeGetCollectionRolesResponse ==
    Writes([CollectionRolesInfo |-> 200, Common401Error |-> 401,
            Common403Error |-> 403, ErrorTitleType |-> 404,
            Common500Error |-> 500])

encodeGetCollectionTagsResponse ==
    Writes([SuccessResponse |-> 200, GetCollectionTagsUnauthorized |-> 401,
            GetCollectionTagsForbidden |-> 403,
            ErrorTypeTitleDetailStatusInstance |-> 500])

encodeGetCollectionUpdatesTasksResponse ==
    Writes([GetCollectionUpdateStatus |-> 200, Common401Error |-> 401,
            Common403Error |-> 403, Common500Error |-> 500])

encodeGetCollectionsResponse ==
    Writes([CollectionsList |-> 200, Common401Error |-> 401,
            Common500Error |-> 500])

encodeGetCollectionsForkedByUserResponse ==
    Writes([UsersForkedCollections |-> 200,
            GetCollectionsForkedByUserBadRequestResponse |-> 400,
            Common401Error |-> 401, Common500Error |-> 500])

encodeGetComponentResponse ==
    Writes([GetComponent |-> 200, GetComponentBadRequest |-> 400,
            Common401Error |-> 401, Common403Error |-> 403,
            GetComponentNotFound |-> 404, Common500Error |-> 500])

encodeGetComponentDraftResponse ==
    Writes([GetComponentDraft |-> 200, GetComponentDraftBadRequest |-> 400,
            Common401Error |-> 401, Common403Error |-> 403,
            GetComponentDraftNotFound |-> 404, Common500Error |-> 500])

encodeGetComponentVersionResponse ==
    Writes([ComponentVersionData |-> 200,
            GetComponentVersionBadRequest |-> 400, Common401Error |-> 401,
            Common403Error |-> 403, GetComponentVersionNotFound |-> 404,
            Common500Error |-> 500])

encodeGetComponentVersionsResponse ==
    Writes([GetComponentVersions |-> 200,
            GetComponentVersionsBadRequest |-> 400, Common401Error |-> 401,
            Common403Error |-> 403, GetComponentVersionsNotFound |-> 404,
            Common500Error |-> 500])

encodeGetDetectedSecretsLocationsResponse ==
    Writes([GetDetectedSecretsLocationsOkResponse |-> 200,
            GetDetectedSecretsLocationsBadRequest |-> 400,
            GetDetectedSecretsLocationsUnauthorized |-> 401,
            SecretScanner403Error |-> 403,
            GetDetectedSecretsLocationsInternalServerError |-> 500])

encodeGetDuplicateCollectionTaskStatusResponse ==
    Writes([DuplicateCollectionResponse |-> 200,
            GetDuplicateCollectionTaskStatusBadRequest |-> 400,
            Common401Error |-> 401, Common403Error |-> 403,
            GetDuplicateCollectionTaskStatusNotFound |-> 404,
            Common500Error |-> 500])

encodeGetEnvironmentResponse ==
    Writes([GetEnvironmentOkResponse |-> 200, Environments404Error |-> 400,
            Common401Error |-> 401, Common500Error |-> 500])

encodeGetEnvironmentForksResponse ==
    Writes([GetEnvironmentForksOkResponse |-> 200,
            CreateApiClientErrorResponse |-> 400, Common401Error |-> 401,
            ErrorTypeTitleDetailStatus |-> 404, Common500Error |-> 500])

encodeGetEnvironmentsResponse ==
    Writes([GetEnvironmentsOkResponse |-> 200, Common401Error |-> 401,
            Environments404Error |-> 404, Common500Error |-> 500])

encodeGetFolderCommentsResponse ==
    Writes([CommentResponseObject |-> 200,
            GetFolderCommentsUnauthorized |-> 401,
            GetFolderCommentsForbidden |-> 403,
            GetFolderCommentsNotFound |-> 404,
            GetFolderCommentsInternalServerError |-> 500])

encodeGetGeneratedCollectionSpecsResponse ==
    Writes([GetGeneratedCollectionSpecs |-> 200, ApiSpec403Error |-> 403,
            ErrorTypeTitleDetailStatus |-> 404, Common500Error |-> 500])

encodeGetGroupResponse ==
    Writes([PostmanGroupInformation |-> 200, Common400Error |-> 400,
            Common401Error |-> 401, Common403Error |-> 403,
            ErrorTypeTitleDetailStatus |-> 404, Common500Error |-> 500])

encodeGetGroupsResponse ==
    Writes([PostmanGroupsInformation |-> 200, Common401Error |-> 401,
            Common403Error |-> 403, Common500Error |-> 500])

encodeGetMockResponse ==
    Writes([GetMockServer |-> 200, Common401Error |-> 401,
            ErrorNameMessageDetails |-> 404, InternalServerError |-> 500])

encodeGetMockCallLogsResponse ==
    Writes([GetCallLogs |-> 200, Mock400Error |-> 400, Common401Error |-> 401,
            ErrorNameMessageDetails |-> 404, Common500Error |-> 500])

encodeGetMockServerResponseResponse ==
    Writes([CreateMockServerResponseOkResponse |-> 200,
            Common401Error |-> 401,
            GetMockServerResponsesNotFoundResponse |-> 404,
            Common500Error |-> 500])

encodeGetMockServerResponsesResponse ==
    Writes([GetMockServerResponsesOKApplicationJSON |-> 200,
            Common401Error |-> 401,
            GetMockServerResponsesNotFoundResponse |-> 404,
            Common500Error |-> 500])

encodeGetMocksResponse ==
    Writes([GetMockServers |-> 200, Common401Error |-> 401,
            InternalServerError |-> 500])

encodeGetMonitorResponse ==
    Writes([GetMonitorOkResponse |-> 200, Common401Error |-> 401,
            Common403Error |-> 403,
            GetAuditLogEventActionsClientErrorResponse |-> 404,
            Common500Error |-> 500])

encodeGetMonitorsResponse ==
    Writes([GetMonitorsOkResponse |-> 200, Monitors400Errors |-> 400,
            Common401Error |-> 401, Common403Error |-> 403,
            GetAuditLogEventActionsClientErrorResponse |-> 404,
            Common500Error |-> 500])

encodeGetPullRequestResponse ==
    Writes([GetPullRequestOkResponse |-> 200,
            ErrorTypeTitleDetailStatus |-> 403, Common500Error |-> 500])

encodeGetRequestCommentsResponse ==
    Writes([CommentResponseObject |-> 200,
            GetRequestCommentsUnauthorized |-> 401,
            GetRequestCommentsForbidden |-> 403,
            GetRequestCommentsNotFound |-> 404,
            GetRequestCommentsInternalServerError |-> 500])

encodeGetResponseCommentsResponse ==
    Writes([CommentResponseObject |-> 200,
            GetResponseCommentsUnauthorized |-> 401,
            GetResponseCommentsForbidden |-> 403,
            GetResponseCommentsNotFound |-> 404,
            GetResponseCommentsInternalServerError |-> 500])

encodeGetRunnerInstancesResponse ==
    Writes([GetRunnerInstances |-> 200, GetRunnerInstancesBadRequest |-> 400,
            Common401Error |-> 401, Common403Error |-> 403,
            GetRunnerInstancesNotFound |-> 404, Common500Error |-> 500])

encodeGetRunnerMetricsResponse ==
    Writes([GetRunnerMetrics |-> 200, Common401Error |-> 401,
            Common403Error |-> 403, ErrorTypeTitleDetailCreatedAt |-> 404,
            Common500Error |-> 500])

encodeGetSdkResponse ==
    Writes([Sdk |-> 200, Common401Error |-> 401, Common403Error |-> 403,
            GetSdkNotFound |-> 404, GetSdkTooManyRequests |-> 429,
            Common500Error |-> 500])

encodeGetSdkDownloadUrlResponse ==
    Writes([SdkDownload |-> 200, Common401Error |-> 401,
            Common403Error |-> 403, GetSdkDownloadUrlNotFound |-> 404,
            GetSdkDownloadUrlConflict |-> 409,
            GetSdkDownloadUrlTooManyRequests |-> 429, Common500Error |-> 500])

encodeGetSdkGitConnectionResponse ==
    Writes([SdkGitConnection |-> 200, Common401Error |-> 401,
            Common403Error |-> 403, GetSdkGitConnectionNotFound |-> 404,
            GetSdkGitConnectionTooManyRequests |-> 429,
            Common500Error |-> 500])

encodeGetSdkGitConnectionPullRequestsResponse ==
    Writes([SdkGitConnectionPullRequestList |-> 200, Common401Error |-> 401,
            Common403Error |-> 403,
            GetSdkGitConnectionPullRequestsNotFound |-> 404,
            GetSdkGitConnectionPullRequestsTooManyRequests |-> 429,
            Common500Error |-> 500])

encodeGetSdkGitConnectionsResponse ==
    Writes([SdkGitConnectionList |-> 200, SdkError |-> 400,
            Common401Error |-> 401, Common403Error |-> 403,
            ErrorTypeTitleDetailStatus |-> 429, Common500Error |-> 500])

encodeGetSdksResponse ==
    Writes([SdkList |-> 200, SdkError |-> 400, Common401Error |-> 401,
            Common403Error |-> 403, ErrorTypeTitleDetailStatus |-> 429,
            Common500Error |-> 500])

encodeGetSecretTypesResponse ==
    Writes([GetSecretTypesOkResponse |-> 200,
            GetSecretTypesUnauthorized |-> 401, SecretScanner403Error |-> 403,
            GetSecretTypesInternalServerError |-> 500])

encodeGetSourceCollectionStatusResponse ==
    Writes([SourceCollectionStatus |-> 200,
            GetSourceCollectionStatusBadRequestResponse |-> 400,
            ErrorTypeTitleDetailStatus |-> 403, Common500Error |-> 500])

encodeGetSpecResponse ==
    Writes([SpecInformation |-> 200, GetSpecUnauthorized |-> 401,
            ApiSpec403Error |-> 403, GetSpecNotFound |-> 404,
            Common500Error |-> 500])

encodeGetSpecCollectionsResponse ==
    Writes([GetSpecCollections |-> 200,
            GetSpecCollectionsUnauthorized |-> 401, ApiSpec403Error |-> 403,
            GetSpecCollectionsNotFound |-> 404, Common500Error |-> 500])

encodeGetSpecDefinitionResponse ==
    WritesBare([GetSpecDefinitionOK |-> 200,
                GetSpecDefinitionBadRequest |-> 400,
                GetSpecDefinitionUnauthorized |-> 401,
                ApiSpec403Error |-> 403, GetSpecDefinitionNotFound |-> 404,
                Common500Error |-> 500], {"GetSpecDefinitionOK"})

encodeGetSpecFileResponse ==
    Writes([GetSpecFile |-> 200, GetSpecFileBadRequest |-> 400,
            GetSpecFileUnauthorized |-> 401, ApiSpec403Error |-> 403,
            GetSpecFileNotFound |-> 404, Common500Error |-> 500])

encodeGetSpecFilesResponse ==
    Writes([GetSpecFiles |-> 200, GetSpecFilesUnauthorized |-> 401,
            ApiSpec403Error |-> 403, GetSpecFilesNotFound |-> 404,
            Common500Error |-> 500])

encodeGetSpecVersionTagResponse ==
    Writes([GetSpecVersionTag |-> 200, GetSpecVersionTagUnauthorized |-> 401,
            ApiSpec403Error |-> 403, GetSpecVersionTagNotFound |-> 404,
            Common500Error |-> 500])

encodeGetSpecVersionTagsResponse ==
    Writes([GetSpecVersionTags |-> 200,
            GetSpecVersionTagsUnauthorized |-> 401, ApiSpec403Error |-> 403,
            GetSpecVersionTagsNotFound |-> 404, Common500Error |-> 500])

encodeGetTaggedEntitiesResponse ==
    Writes([GetTaggedEntitiesOkResponse |-> 200,
            GetTaggedEntitiesBadRequestResponse |-> 400,
            GetTaggedEntitiesUnauthorized |-> 401,
            GetTaggedEntitiesForbidden |-> 403,
            GetTaggedEntitiesNotFound |-> 404,
            GetTaggedEntitiesInternalServerError |-> 500])

encodeGetTeamResponse ==
    Writes([CreateGetTeamResponse |-> 200, Teams400Error |-> 400,
            ErrorTypeTitleDetailStatusInstance |-> 401,
            TeamsApiErrorSchema |-> 500])

encodeGetTeamAccessRequestsResponse ==
    Writes([GetTeamAccessRequests |-> 200, Teams400Error |-> 400,
            ErrorTypeTitleDetailStatusInstance |-> 401,
            GetTeamAccessRequestsForbidden |-> 403,
            GetTeamAccessRequestsInternalServerError |-> 500])

encodeGetTeamSettingsResponse ==
    Writes([CreateGetTeamSettingsResponse |-> 200, Teams400Error |-> 400,
            ErrorTypeTitleDetailStatusInstance |-> 401,
            TeamsApiErrorSchema |-> 500])

encodeGetTeamUserResponse ==
    Writes([UserInformation |-> 200, Common400Error |-> 400,
            Common401Error |-> 401, Common403Error |-> 403,
            ErrorTypeTitleDetailStatus |-> 404, Common500Error |-> 500])

encodeGetTeamUsersResponse ==
    Writes([TeamUsersInformation |-> 200, Common401Error |-> 401,
            Common403Error |-> 403, Common500Error |-> 500])

encodeGetTeamsResponse ==
    Writes([GetTeams |-> 200, Teams400Error |-> 400,
            ErrorTypeTitleDetailStatusInstance |-> 401,
            TeamsApiErrorSchema |-> 500])

encodeGetWorkspaceResponse ==
    Writes([GetWorkspaceOkResponse |-> 200, Common401Error |-> 401,
            GetWorkspaceNotFoundResponse |-> 404, Common500Error |-> 500])

encodeGetWorkspaceActivityFeedResponse ==
    Writes([WorkspaceActivityFeed |-> 200,
            GetWorkspaceActivityFeedBadRequest |-> 400,
            Common401Error |-> 401, Common403Error |-> 403,
            GetWorkspaceActivityFeedNotFound |-> 404, Common500Error |-> 500])

encodeGetWorkspaceGlobalVariablesResponse ==
    Writes([GetWorkspaceGlobalVariablesOkResponse |-> 200,
            CreateApiClientErrorResponse |-> 500])

encodeGetWorkspaceRolesResponse ==
    Writes([WorkspaceRoles |-> 200, Common401Error |-> 401,
            Common403Error |-> 403, ErrorTypeTitleDetailStatus |-> 404,
            Common500Error |-> 500])

encodeGetWorkspaceTagsResponse ==
    Writes([SuccessResponse |-> 200, GetWorkspaceTagsUnauthorized |-> 401,
            GetWorkspaceTagsForbidden |-> 403,
            GetWorkspaceTagsNotFound |-> 404,
            GetWorkspaceTagsInternalServerError |-> 500])

encodeGetWorkspaceUpdateResponse ==
    Writes([WorkspaceUpdateData |-> 200,
            ErrorTypeTitleDetailStatusInstance |-> 401,
            GetWorkspaceUpdateForbidden |-> 403,
            GetWorkspaceUpdateNotFound |-> 404, Common500Error |-> 500])

encodeGetWorkspaceUpdatesResponse ==
    Writes([GetWorkspaceUpdates |-> 200,
            GetWorkspaceUpdatesBadRequest |-> 400,
            ErrorTypeTitleDetailStatusInstance |-> 401,
            GetWorkspaceUpdatesForbidden |-> 403,
            GetWorkspaceUpdatesNotFound |-> 404, Common500Error |-> 500])

encodeGetWorkspacesResponse ==
    Writes([GetWorkspacesOkResponse |-> 200, Workspaces400Error |-> 400,
            Common401Error |-> 401, Common500Error |-> 500])

encodeImportOpenApiDefinitionResponse ==
    Writes([ImportOpenApiDefinitionOkResponse |-> 200,
            ImportOpenApiDefinitionBadRequestResponse |-> 400,
            Common401Error |-> 401, Common500Error |-> 500])

encodeListPrivateNetworkAddRequestsResponse ==
    Writes([ListPrivateNetworkAddRequestsOkResponse |-> 200,
            Pan400Error |-> 400, Common401Error |-> 401,
            Common403Error |-> 403, Common500Error |-> 500])

encodeListPrivateNetworkWorkspacesResponse ==
    Writes([ListPrivateNetworkWorkspacesOkResponse |-> 200,
            Common401Error |-> 401, Common403Error |-> 403,
            Common500Error |-> 500])

encodeManagePartnerWorkspaceInvitesResponse ==
    Writes([ManagePartnerWorkspaceInvitesResponse |-> 200,
            ManagePartnerWorkspaceInvitesBadRequest |-> 400,
            ManagePartnerWorkspaceInvitesUnauthorized |-> 401,
            ManagePartnerWorkspaceInvitesForbidden |-> 403,
            ManagePartnerWorkspaceInvitesNotFound |-> 404,
            Common500Error |-> 500])

encodeManageTeamMemberRolesResponse ==
    Writes([ManageTeamMemberRolesResponse |-> 200, Teams400Error |-> 400,
            ErrorTypeTitleDetailStatusInstance |-> 401,
            TeamsApiErrorSchema |-> 500])

encodeMergeCollectionForkResponse ==
    Writes([CollectionForkMerged |-> 200, Common401Error |-> 401,
            Common403Error |-> 403, ErrorNameMessageDetails |-> 404,
            Common500Error |-> 500])

encodeMergeEnvironmentForkResponse ==
    Writes([MergeEnvironmentForkOkResponse |-> 200,
            CreateApiClientErrorResponse |-> 400, Common401Error |-> 401,
            ErrorTypeTitleDetailStatus |-> 404, Common500Error |-> 500])

encodePatchCollectionResponse ==
    Writes([PatchCollectionOkResponse |-> 200,
            CollectionPatch400Errors |-> 400, Common401Error |-> 401,
            Common403Error |-> 403, ErrorNameMessageDetails |-> 404,
            Common500Error |-> 500])

encodePatchEnvironmentResponse ==
    Writes([PatchEnvironmentOkResponse |-> 200,
            PatchEnvironmentBadRequestResponse |-> 400,
            PatchEnvironmentForbidden |-> 403, Environments404Error |-> 404,
            PatchEnvironmentLengthRequired |-> 411,
            PatchEnvironmentRequestEntityTooLarge |-> 413,
            Common500Error |-> 500])

encodePatchWorkspaceUpdateResponse ==
    Writes([WorkspaceUpdatePostPatchResponseData |-> 200,
            PatchWorkspaceUpdateBadRequest |-> 400,
            ErrorTypeTitleDetailStatusInstance |-> 401,
            PatchWorkspaceUpdateForbidden |-> 403,
            PatchWorkspaceUpdateNotFound |-> 404,
            PatchWorkspaceUpdateUnprocessableEntity |-> 422,
            Common500Error |-> 500])

encodePublishDocumentationResponse ==
    Writes([PublishDocumentationResponse |-> 200,
            PublishDocumentationBadRequest |-> 400,
            PublishDocumentationUnauthorized |-> 401,
            PublishDocumentationForbidden |-> 403,
            PublishDocumentationInternalServerError |-> 500])

encodePublishMockResponse ==
    Writes([MockPublishedUnpublished |-> 200, Mock400Error |-> 400,
            Common401Error |-> 401, ErrorNameMessageDetails |-> 404,
            InternalServerError |-> 500])

encodePullCollectionChangesResponse ==
    Writes([CollectionChangesPulled |-> 200,
            GetAuditLogEventActionsClientErrorResponse |-> 400,
            ErrorNameMessageDetails |-> 404, Common500Error |-> 500])

encodePullEnvironmentResponse ==
    Writes([PullEnvironmentOkResponse |-> 200,
            CreateApiClientErrorResponse |-> 400, Common401Error |-> 401,
            ErrorTypeTitleDetailStatus |-> 404, Common500Error |-> 500])

encodePutCollectionResponse ==
    WritesBare([PutCollectionOK |-> 200, CollectionPut400Errors |-> 400,
                Common401Error |-> 401, Common403Error |-> 403,
                CollectionPut404Errors |-> 404,
                ErrorTypeTitleDetailStatus |-> 409,
                Common500Error |-> 500], {"PutCollectionOK"})

encodePutEnvironmentResponse ==
    Writes([PutEnvironmentOkResponse |-> 200, Environment400Errors |-> 400,
            Common401Error |-> 401, PutEnvironmentLengthRequired |-> 411,
            PutEnvironmentRequestEntityTooLarge |-> 413,
            Common500Error |-> 500])

encodeRemoveTeamMembersResponse ==
    WritesBare([RemoveTeamMembersOK |-> 200, Teams400Error |-> 400,
                ErrorTypeTitleDetailStatusInstance |-> 401,
                RemoveTeamMembersForbidden |-> 403,
                RemoveTeamMembersInternalServerError |-> 500],
               {"RemoveTeamMembersOK"})

encodeRemoveWorkspaceFromPrivateNetworkResponse ==
    Writes([RemoveWorkspaceFromPrivateNetworkOkResponse |-> 200,
            Pan400Error |-> 400, Common401Error |-> 401,
            Common403Error |-> 403,
            AddWorkspaceToPrivateNetworkNotFoundResponse |-> 404,
            Common500Error |-> 500])

encodeResolveCommentThreadResponse ==
    WritesBare([ResolveCommentThreadOK |-> 200,
                ResolveCommentThreadUnauthorized |-> 401,
                ResolveCommentThreadNotFound |-> 404,
                ResolveCommentThreadInternalServerError |-> 500],
               {"ResolveCommentThreadOK"})

encodeRespondPrivateNetworkAddRequestResponse ==
    Writes([RespondPanElementAddRequest |-> 200, Pan400Error |-> 400,
            Common401Error |-> 401, Common403Error |-> 403,
            Common500Error |-> 500])

encodeReviewPullRequestResponse ==
    Writes([ReviewPullRequestOkResponse |-> 200,
            ReviewPullRequestBadRequest |-> 400,
            ReviewPullRequestForbidden |-> 403, Common500Error |-> 500])

encodeRevokeOauthTokenResponse ==
    Writes([RevokeOauthTokenResponse |-> 200, OauthTokenError |-> 404,
            Common500Error |-> 500])

encodeRunMonitorResponse ==
    WritesBare([RunMonitorOK |-> 200, Common401Error |-> 401,
                Common403Error |-> 403,
                GetAuditLogEventActionsClientErrorResponse |-> 404,
                Common500Error |-> 500], {"RunMonitorOK"})

encodeSchemaSecurityValidationResponse ==
    Writes([SchemaSecurityValidationOkResponse |-> 200,
            SchemaSecurityValidationBadRequestResponse |-> 400,
            Common401Error |-> 401, Common403Error |-> 403,
            Common500Error |-> 500])

encodeSearchPostmanResourcesResponse ==
    Writes([SearchPostmanResourcesResponse |-> 200,
            ErrorTypeTitleDetailStatus |-> 400, Common500Error |-> 500])

encodeSyncCollectionWithSpecResponse ==
    Writes([TaskCreated |-> 200, Api403Error |-> 403,
            ErrorTypeTitleDetailStatus |-> 404, Common500Error |-> 500])

encodeSyncSpecWithCollectionResponse ==
    Writes([TaskCreated |-> 200, SyncSpecWithCollectionUnauthorized |-> 401,
            ApiSpec403Error |-> 403, SyncSpecWithCollectionNotFound |-> 404,
            Common500Error |-> 500])

encodeTransferCollectionFoldersResponse ==
    Writes([CollectionItemsTransferred |-> 200,
            CreateApiClientErrorResponse |-> 400, Common500Error |-> 500])

encodeTransferCollectionRequestsResponse ==
    Writes([CollectionItemsTransferred |-> 200,
            CreateApiClientErrorResponse |-> 400, Common500Error |-> 500])

encodeTransferCollectionResponsesResponse ==
    Writes([CollectionItemsTransferred |-> 200,
            CreateApiClientErrorResponse |-> 400, Common500Error |-> 500])

encodeTransferWorkspaceElementResponse ==
    Writes([TransferWorkspaceElementResponse |-> 200,
            TransferWorkspaceElementBadRequest |-> 400,
            TransferWorkspaceElementForbidden |-> 403,
            TransferWorkspaceElementNotFound |-> 404, Common500Error |-> 500])

encodeTransferWorkspaceToTeamResponse ==
    Writes([TransferWorkspaceToTeamResponse |-> 200,
            TransferWorkspaceToTeamBadRequest |-> 400,
            TransferWorkspaceToTeamUnauthorized |-> 401,
            TransferWorkspaceToTeamForbidden |-> 403,
            TransferWorkspaceToTeamNotFound |-> 404,
            TransferWorkspaceToTeamInternalServerError |-> 500])

encodeTransformCollectionToOpenApiResponse ==
    Writes([CollectionTransformed |-> 200,
            TransformCollectionToOpenApiUnauthorized |-> 401,
            TransformCollectionToOpenApiNotFound |-> 404,
            TransformCollectionToOpenApiInternalServerError |-> 500])

encodeUnpublishDocumentationResponse ==
    WritesBare([UnpublishDocumentationOK |-> 200,
                UnpublishDocumentationBadRequest |-> 400,
                UnpublishDocumentationUnauthorized |-> 401,
                UnpublishDocumentationNotFound |-> 404,
                UnpublishDocumentationInternalServerError |-> 500],
               {"UnpublishDocumentationOK"})

encodeUnpublishMockResponse ==
    Writes([MockPublishedUnpublished |-> 200, Mock400Error |-> 400,
            Common401Error |-> 401, ErrorNameMessageDetails |-> 404,
            InternalServerError |-> 500])

encodeUpdateCollectionCommentResponse ==
    Writes([CommentUpdatedCreatedObject |-> 200,
            UpdateCollectionCommentUnauthorized |-> 401,
            UpdateCollectionCommentForbidden |-> 403,
            UpdateCollectionCommentNotFound |-> 404,
            UpdateCollectionCommentInternalServerError |-> 500])

encodeUpdateCollectionFolderResponse ==
    Writes([CollectionFolderUpdated |-> 200,
            UpdateCollectionFolderBadRequest |-> 400,
            UpdateCollectionFolderUnauthorized |-> 401,
            UpdateCollectionFolderNotFound |-> 404, Common500Error |-> 500])

encodeUpdateCollectionRequestResponse ==
    Writes([CollectionRequestUpdated |-> 200,
            UpdateCollectionRequestBadRequest |-> 400,
            UpdateCollectionRequestUnauthorized |-> 401,
            UpdateCollectionRequestNotFound |-> 404, Common500Error |-> 500])

encodeUpdateCollectionResponseResponse ==
    Writes([CollectionResponseUpdated |-> 200,
            UpdateCollectionResponseBadRequest |-> 400,
            UpdateCollectionResponseUnauthorized |-> 401,
            UpdateCollectionResponseNotFound |-> 404, Common500Error |-> 500])

encodeUpdateCollectionRolesResponse ==
    WritesBare([UpdateCollectionRolesOK |-> 200,
                ErrorTypeTitleDetailStatus |-> 400, Common401Error |-> 401,
                Common403Error |-> 403, ErrorTitleType |-> 404,
                Common500Error |-> 500], {"UpdateCollectionRolesOK"})

encodeUpdateCollectionTagsResponse ==
    Writes([SuccessResponse |-> 200, ApiTag400Error1 |-> 400,
            UpdateCollectionTagsUnauthorized |-> 401,
            UpdateCollectionTagsForbidden |-> 403,
            UpdateCollectionTagsNotFound |-> 404,
            UpdateCollectionTagsInternalServerError |-> 500])

encodeUpdateComponentResponse ==
    Writes([UpdateComponentResponse |-> 200,
            UpdateComponentBadRequest |-> 400, Common401Error |-> 401,
            Common403Error |-> 403, UpdateComponentNotFound |-> 404,
            UpdateComponentConflict |-> 409, Common500Error |-> 500])

encodeUpdateComponentDraftResponse ==
    Writes([UpdateComponentDraftResponse |-> 200,
            UpdateComponentDraftBadRequest |-> 400, Common401Error |-> 401,
            Common403Error |-> 403, UpdateComponentDraftNotFound |-> 404,
            UpdateComponentDraftConflict |-> 409, Common500Error |-> 500])

encodeUpdateDetectedSecretResolutionsResponse ==
    Writes([UpdateDetectedSecretResolutionsOkResponse |-> 200,
            UpdateDetectedSecretResolutionsBadRequest |-> 400,
            UpdateDetectedSecretResolutionsUnauthorized |-> 401,
            SecretScanner403Error |-> 403,
            UpdateDetectedSecretResolutionsInternalServerError |-> 500])

encodeUpdateFolderCommentResponse ==
    Writes([CommentUpdatedCreatedObject |-> 200,
            UpdateFolderCommentUnauthorized |-> 401,
            UpdateFolderCommentForbidden |-> 403,
            UpdateFolderCommentNotFound |-> 404,
            UpdateFolderCommentInternalServerError |-> 500])

encodeUpdateMockResponse ==
    Writes([MockCreateUpdateResponse |-> 200, Mock400Error |-> 400,
            Common401Error |-> 401, ErrorNameMessageDetails |-> 404,
            InternalServerError |-> 500])

encodeUpdateMockServerResponseResponse ==
    Writes([CreateMockServerResponseOkResponse |-> 200,
            Common400Error |-> 400, Common401Error |-> 401,
            GetMockServerResponsesNotFoundResponse |-> 404,
            Common500Error |-> 500])

encodeUpdateMonitorResponse ==
    Writes([CreateUpdateMonitorResponse |-> 200, Monitors400Errors |-> 400,
            Common401Error |-> 401, Common403Error |-> 403,
            GetAuditLogEventActionsClientErrorResponse |-> 404,
            Common500Error |-> 500])

encodeUpdatePanElementOrFolderResponse ==
    WritesBare([UpdatePanElementOrFolderOK |-> 200, Common401Error |-> 401,
                Common403Error |-> 403,
                AddWorkspaceToPrivateNetworkNotFoundResponse |-> 404,
                Common500Error |-> 500], {"UpdatePanElementOrFolderOK"})

encodeUpdatePullRequestResponse ==
    Writes([PullRequestUpdated |-> 200, UpdatePullRequestForbidden |-> 403,
            UpdatePullRequestConflict |-> 409, Common500Error |-> 500])

encodeUpdateRequestCommentResponse ==
    Writes([CommentUpdatedCreatedObject |-> 200,
            UpdateRequestCommentUnauthorized |-> 401,
            UpdateRequestCommentForbidden |-> 403,
            UpdateRequestCommentNotFound |-> 404,
            UpdateRequestCommentInternalServerError |-> 500])

encodeUpdateResponseCommentResponse ==
    Writes([CommentUpdatedCreatedObject |-> 200,
            UpdateResponseCommentUnauthorized |-> 401,
            UpdateResponseCommentForbidden |-> 403,
            UpdateResponseCommentNotFound |-> 404,
            UpdateResponseCommentInternalServerError |-> 500])

encodeUpdateSdkGitConnectionResponse ==
    Writes([SdkGitConnection |-> 200, SdkError |-> 400,
            Common401Error |-> 401, Common403Error |-> 403,
            UpdateSdkGitConnectionNotFound |-> 404,
            UpdateSdkGitConnectionUnprocessableEntity |-> 422,
            UpdateSdkGitConnectionTooManyRequests |-> 429,
            Common500Error |-> 500])

encodeUpdateSpecFileResponse ==
    Writes([CreateUpdateSpecFileResponse |-> 200,
            UpdateSpecFileBadRequest |-> 400,
            UpdateSpecFileUnauthorized |-> 401, ApiSpec403Error |-> 403,
            UpdateSpecFileNotFound |-> 404, Common500Error |-> 500])

encodeUpdateSpecPropertiesResponse ==
    Writes([UpdateSpecPropertiesResponse |-> 200,
            UpdateSpecPropertiesBadRequest |-> 400,
            UpdateSpecPropertiesUnauthorized |-> 401, ApiSpec403Error |-> 403,
            UpdateSpecPropertiesNotFound |-> 404, Common500Error |-> 500])

encodeUpdateSpecSyncOptionsResponse ==
    Writes([ApiSpecSyncOptions |-> 200,
            UpdateSpecSyncOptionsBadRequest |-> 400,
            ErrorTypeTitleDetailStatusInstance |-> 401,
            ApiSpec403Error |-> 403, UpdateSpecSyncOptionsNotFound |-> 404,
            Common500Error |-> 500])

encodeUpdateTeamSettingsResponse ==
    Writes([CreateGetTeamSettingsResponse |-> 200, Teams400Error |-> 400,
            ErrorTypeTitleDetailStatusInstance |-> 401,
            TeamsApiErrorSchema |-> 500])

encodeUpdateWorkspaceResponse ==
    Writes([WorkspaceUpdated |-> 200, UpdateWorkspaceBadRequest |-> 400,
            UpdateWorkspaceForbidden |-> 403, UpdateWorkspaceNotFound |-> 404,
            Common500Error |-> 500])

encodeUpdateWorkspaceGlobalVariablesResponse ==
    Writes([GlobalVariablesUpdated |-> 200,
            CreateApiClientErrorResponse |-> 500])

encodeUpdateWorkspaceRolesResponse ==
    Writes([WorkspaceRolesUpdated |-> 200,
            UpdateWorkspaceRolesBadRequest |-> 400, Common401Error |-> 401,
            Common403Error |-> 403, UpdateWorkspaceRolesNotFound |-> 404,
            PartnerAndPersonalWorkspaceRolesUnsupported |-> 422,
            Common500Error |-> 500])

encodeUpdateWorkspaceTagsResponse ==
    Writes([SuccessResponse |-> 200, ApiTag400Error1 |-> 400,
            UpdateWorkspaceTagsUnauthorized |-> 401,
            UpdateWorkspaceTagsForbidden |-> 403,
            UpdateWorkspaceTagsNotFound |-> 404,
            UpdateWorkspaceTagsInternalServerError |-> 500])

=============================================================================
