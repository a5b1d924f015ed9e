-------------------------- MODULE ResponseDecoders ---------------------------
(***************************************************************************)
(* What each decode<Op>Response of the generated client makes of the       *)
(* statuses it has a case for: the type of the value it returns, and what  *)
(* the body must be for it.  Any other status is an error, and so is any   *)
(* other media type than application/json, unless the success has no body. *)
(***************************************************************************)
EXTENDS Endpoint

decodeAddWorkspaceToPrivateNetworkResponse ==
    200 :> Checked(Schema("ElementCreated")) @@
    401 :> Object("Common401Error") @@ 403 :> Object("Common403Error") @@
    404 :> Raw("AddWorkspaceToPrivateNetworkNotFoundResponse") @@
    500 :> Object("Common500Error")

decodeApproveDenyAccessRequestResponse ==
    200 :> Schema("ApproveDenyAccessRequestResponse") @@
    400 :> Object("Teams400Error") @@
    401 :> Raw("ErrorTypeTitleDetailStatusInstance") @@
    403 :> Raw("ApproveDenyAccessRequestForbidden") @@
    404 :> Raw("ApproveDenyAccessRequestNotFound") @@
    500 :> Raw("ApproveDenyAccessRequestInternalServerError")

decodeAsyncMergePullCollectionForkResponse ==
    200 :> Schema("AsyncMergePullCollectionForkOkResponse") @@
    400 :> Raw("AsyncMergePullCollectionForkBadRequest") @@
    401 :> Object("Common401Error") @@
    403 :> Raw("AsyncMergePullCollectionForkForbidden") @@
    500 :> Object("Common500Error")

decodeAsyncMergePullCollectionTaskStatusResponse ==
    200 :> Checked(Schema("TaskStatusResponse")) @@
    401 :> Object("Common401Error") @@
    403 :> Raw("AsyncMergePullCollectionTaskStatusForbidden") @@
    404 :> Raw("AsyncMergePullCollectionTaskStatusNotFound") @@
    500 :> Object("Common500Error")

decodeCreateAccessRequestResponse ==
    200 :> Schema("CreateAccessRequestResponse") @@
    400 :> Object("Teams400Error") @@
    401 :> Raw("ErrorTypeTitleDetailStatusInstance") @@
    500 :> Raw("TeamsApiErrorSchema")

decodeCreateCollectionResponse ==
    200 :> Schema("CollectionCreated") @@
    400 :> Raw("ErrorNameMessageDetails") @@
    401 :> Object("Common401Error") @@ 500 :> Object("Common500Error")

decodeCreateCollectionCommentResponse ==
    200 :> Schema("CommentUpdatedCreatedObject") @@
    401 :> Raw("CreateCollectionCommentUnauthorized") @@
    403 :> Raw("CreateCollectionCommentForbidden") @@
    404 :> Raw("CreateCollectionCommentNotFound") @@
    500 :> Raw("CreateCollectionCommentInternalServerError")

decodeCreateCollectionFolderResponse ==
    200 :> Schema("CollectionFolderCreated") @@
    400 :> Raw("CreateCollectionFolderBadRequest") @@
    401 :> Raw("CreateCollectionFolderUnauthorized") @@
    500 :> Object("Common500Error")

decodeCreateCollectionForkResponse ==
    200 :> Schema("CollectionForkCreated") @@
    401 :> Object("Common401Error") @@
    404 :> Raw("ErrorNameMessageDetails") @@ 500 :> Object("Common500Error")

decodeCreateCollectionPullRequestResponse ==
    200 :> Schema("PullRequestCreated") @@
    400 :> Raw("CreateCollectionPullRequestBadRequest") @@
    403 :> Raw("CreateCollectionPullRequestForbidden") @@
    500 :> Object("Common500Error")

decodeCreateCollectionRequestResponse ==
    200 :> Schema("CollectionRequestCreated") @@
    400 :> Raw("CreateCollectionRequestBadRequest") @@
    401 :> Raw("CreateCollectionRequestUnauthorized") @@
    500 :> Object("Common500Error")

decodeCreateCollectionResponseResponse ==
    200 :> Schema("CreateCollectionResponseOkResponse") @@
    400 :> Raw("CreateCollectionResponseBadRequest") @@
    401 :> Raw("CreateCollectionResponseUnauthorized") @@
    500 :> Object("Common500Error")

decodeCreateComponentResponse ==
    200 :> Schema("CreateComponentResponse") @@
    400 :> Raw("CreateComponentBadRequest") @@
    401 :> Object("Common401Error") @@ 403 :> Object("Common403Error") @@
    409 :> Raw("CreateComponentConflict") @@ 500 :> Object("Common500Error")

decodeCreateComponentVersionResponse ==
    200 :> Schema("CreateComponentVersionResponse") @@
    400 :> Raw("CreateComponentVersionBadRequest") @@
    401 :> Object("Common401Error") @@ 403 :> Object("Common403Error") @@
    404 :> Raw("CreateComponentVersionNotFound") @@
    409 :> Raw("CreateComponentVersionConflict") @@
    500 :> Object("Common500Error")

decodeCreateEnvironmentResponse ==
    200 :> Schema("EnvironmentCreated") @@
    400 :> Object("Environment400Errors") @@
    401 :> Object("Common401Error") @@ 403 :> Object("Common403Error") @@
    411 :> Raw("CreateEnvironmentLengthRequired") @@
    413 :> Raw("CreateEnvironmentRequestEntityTooLarge") @@
    500 :> Object("Common500Error")

decodeCreateFolderCommentResponse ==
    200 :> Schema("CommentUpdatedCreatedObject") @@
    401 :> Raw("CreateFolderCommentUnauthorized") @@
    403 :> Raw("CreateFolderCommentForbidden") @@
    404 :> Raw("CreateFolderCommentNotFound") @@
    500 :> Raw("CreateFolderCommentInternalServerError")

decodeCreateMockResponse ==
    200 :> Checked(Schema("MockCreateUpdateResponse")) @@
    400 :> Object("Common400Error") @@ 401 :> Object("Common401Error") @@
    500 :> Raw("InternalServerError")

decodeCreateMockServerResponseResponse ==
    200 :> Schema("CreateMockServerResponseOkResponse") @@
    400 :> Object("Common400Error") @@ 401 :> Object("Common401Error") @@
    404 :> Raw("GetMockServerResponsesNotFoundResponse") @@
    500 :> Object("Common500Error")

decodeCreateMonitorResponse ==
    200 :> Schema("CreateUpdateMonitorResponse") @@
    400 :> Object("Monitors400Errors") @@ 401 :> Object("Common401Error") @@
    403 :> Object("Common403Error") @@ 500 :> Object("Common500Error")

decodeCreateRequestCommentResponse ==
    200 :> Schema("CommentUpdatedCreatedObject") @@
    401 :> Raw("CreateRequestCommentUnauthorized") @@
    403 :> Raw("CreateRequestCommentForbidden") @@
    404 :> Raw("CreateRequestCommentNotFound") @@
    500 :> Raw("CreateRequestCommentInternalServerError")

decodeCreateResponseCommentResponse ==
    200 :> Schema("CommentUpdatedCreatedObject") @@
    401 :> Raw("CreateResponseCommentUnauthorized") @@
    403 :> Raw("CreateResponseCommentForbidden") @@
    404 :> Raw("CreateResponseCommentNotFound") @@
    500 :> Raw("CreateResponseCommentInternalServerError")

decodeCreateSdkResponse ==
    200 :> NoContent("CreateSdkOK") @@ 400 :> Raw("SdkError") @@
    401 :> Object("Common401Error") @@ 403 :> Object("Common403Error") @@
    422 :> Raw("CreateSdkUnprocessableEntity") @@
    429 :> Raw("CreateSdkTooManyRequests") @@ 500 :> Object("Common500Error")

decodeCreateSdkGitConnectionResponse ==
    200 :> Checked(Schema("SdkGitConnection")) @@ 400 :> Raw("SdkError") @@
    401 :> Object("Common401Error") @@ 403 :> Object("Common403Error") @@
    409 :> Raw("CreateSdkGitConnectionConflict") @@
    429 :> Raw("CreateSdkGitConnectionTooManyRequests") @@
    500 :> Object("Common500Error")

decodeCreateSpecResponse ==
    200 :> Checked(Schema("CreateSpecResponse")) @@
    400 :> Raw("CreateSpecBadRequest") @@
    401 :> Raw("CreateSpecUnauthorized") @@
    403 :> Object("ApiSpec403Error") @@
    404 :> Raw("CreateApiClientErrorResponse") @@
    500 :> Object("Common500Error")

decodeCreateSpecFileResponse ==
    200 :> Checked(Schema("CreateUpdateSpecFileResponse")) @@
    400 :> Raw("CreateSpecFileBadRequest") @@
    401 :> Raw("CreateSpecFileUnauthorized") @@
    403 :> Object("ApiSpec403Error") @@
    404 :> Raw("CreateSpecFileNotFound") @@ 500 :> Object("Common500Error")

decodeCreateSpecVersionTagResponse ==
    200 :> Schema("CreateSpecVersionTagResponse") @@
    400 :> Raw("CreateSpecVersionTagBadRequest") @@
    401 :> Raw("CreateSpecVersionTagUnauthorized") @@
    403 :> Object("ApiSpec403Error") @@
    404 :> Raw("CreateSpecVersionTagNotFound") @@
    409 :> Raw("CreateSpecVersionTagConflict") @@
    500 :> Object("Common500Error")

decodeCreateTeamResponse ==
    200 :> Schema("CreateGetTeamResponse") @@
    400 :> Object("Teams400Error") @@
    401 :> Raw("ErrorTypeTitleDetailStatusInstance") @@
    403 :> Raw("CreateTeamForbidden") @@
    500 :> Raw("CreateTeamInternalServerError")

decodeCreateWebhookResponse ==
    200 :> Schema("WebhookCreated") @@
    400 :> Raw("ErrorNameMessageDetails") @@
    401 :> Object("Common401Error") @@ 500 :> Object("Common500Error")

decodeCreateWorkspaceResponse ==
    200 :> Schema("CreateWorkspaceOkResponse") @@
    400 :> Raw("GetAuditLogEventActionsClientErrorResponse") @@
    401 :> Object("Common401Error") @@ 403 :> Raw("Forbidden") @@
    500 :> Object("Common500Error")

decodeCreateWorkspaceUpdateResponse ==
    200 :> Checked(Schema("WorkspaceUpdatePostPatchResponseData")) @@
    400 :> Raw("CreateWorkspaceUpdateBadRequest") @@
    401 :> Raw("ErrorTypeTitleDetailStatusInstance") @@
    403 :> Raw("CreateWorkspaceUpdateForbidden") @@
    404 :> Raw("CreateWorkspaceUpdateNotFound") @@
    422 :> Raw("CreateWorkspaceUpdateUnprocessableEntity") @@
    500 :> Object("Common500Error")

decodeDeleteCollectionResponse ==
    200 :> Schema("CollectionDeleted") @@ 401 :> Object("Common401Error") @@
    404 :> Raw("ErrorNameMessageDetails") @@ 500 :> Object("Common500Error")

decodeDeleteCollectionAccessKeyResponse ==
    200 :> NoContent("DeleteCollectionAccessKeyOK") @@
    401 :> Object("Common401Error") @@ 403 :> Object("Common403Error") @@
    404 :> Raw("DeleteCollectionAccessKeyNotFoundResponse") @@
    500 :> Object("Common500Error")

decodeDeleteCollectionCommentResponse ==
    200 :> NoContent("DeleteCollectionCommentOK") @@
    401 :> Raw("DeleteCollectionCommentUnauthorized") @@
    403 :> Raw("DeleteCollectionCommentForbidden") @@
    404 :> Raw("DeleteCollectionCommentNotFound") @@
    500 :> Raw("DeleteCollectionCommentInternalServerError")

decodeDeleteCollectionFolderResponse ==
    200 :> Schema("CollectionFolderDeleted") @@
    401 :> Raw("DeleteCollectionFolderUnauthorized") @@
    404 :> Raw("DeleteCollectionFolderNotFound") @@
    500 :> Object("Common500Error")

decodeDeleteCollectionRequestResponse ==
    200 :> Schema("CollectionRequestDeleted") @@
    401 :> Raw("DeleteCollectionRequestUnauthorized") @@
    404 :> Raw("DeleteCollectionRequestNotFound") @@
    500 :> Object("Common500Error")

decodeDeleteCollectionResponseResponse ==
    200 :> Schema("CollectionResponseDeleted") @@
    401 :> Raw("DeleteCollectionResponseUnauthorized") @@
    404 :> Raw("DeleteCollectionResponseNotFound") @@
    500 :> Object("Common500Error")

decodeDeleteEnvironmentResponse ==
    200 :> Schema("EnvironmentDeleted") @@ 401 :> Object("Common401Error") @@
    404 :> Object("Environments404Error") @@ 500 :> Object("Common500Error")

decodeDeleteFolderCommentResponse ==
    200 :> NoContent("DeleteFolderCommentOK") @@
    401 :> Raw("DeleteFolderCommentUnauthorized") @@
    403 :> Raw("DeleteFolderCommentForbidden") @@
    404 :> Raw("DeleteFolderCommentNotFound") @@
    500 :> Raw("DeleteFolderCommentInternalServerError")

decodeDeleteMockResponse ==
    200 :> Schema("MockDeleted") @@ 401 :> Object("Common401Error") @@
    404 :> Raw("ErrorNameMessageDetails") @@ 500 :> Raw("InternalServerError")

decodeDeleteMockServerResponseResponse ==
    200 :> Checked(Schema("ServerResponseDeleted")) @@
    401 :> Object("Common401Error") @@
    404 :> Raw("GetMockServerResponsesNotFoundResponse") @@
    500 :> Object("Common500Error")

decodeDeleteMonitorResponse ==
    200 :> Schema("MonitorDeleted") @@ 401 :> Object("Common401Error") @@
    403 :> Object("Common403Error") @@
    404 :> Raw("GetAuditLogEventActionsClientErrorResponse") @@
    500 :> Object("Common500Error")

decodeDeleteRequestCommentResponse ==
    200 :> NoContent("DeleteRequestCommentOK") @@
    401 :> Raw("DeleteRequestCommentUnauthorized") @@
    403 :> Raw("DeleteRequestCommentForbidden") @@
    404 :> Raw("DeleteRequestCommentNotFound") @@
    500 :> Raw("DeleteRequestCommentInternalServerError")

decodeDeleteResponseCommentResponse ==
    200 :> NoContent("DeleteResponseCommentOK") @@
    401 :> Raw("DeleteResponseCommentUnauthorized") @@
    403 :> Raw("DeleteResponseCommentForbidden") @@
    404 :> Raw("DeleteResponseCommentNotFound") @@
    500 :> Raw("DeleteResponseCommentInternalServerError")

decodeDeleteSdkResponse ==
    200 :> NoContent("DeleteSdkOK") @@ 401 :> Object("Common401Error") @@
    403 :> Object("Common403Error") @@ 404 :> Raw("DeleteSdkNotFound") @@
    409 :> Raw("DeleteSdkConflict") @@
    429 :> Raw("DeleteSdkTooManyRequests") @@ 500 :> Object("Common500Error")

decodeDeleteSpecResponse ==
    200 :> NoContent("DeleteSpecOK") @@
    401 :> Raw("DeleteSpecUnauthorized") @@
    403 :> Object("ApiSpec403Error") @@ 404 :> Raw("DeleteSpecNotFound") @@
    500 :> Object("Common500Error")

decodeDeleteSpecFileResponse ==
    200 :> NoContent("DeleteSpecFileOK") @@
    400 :> Raw("DeleteSpecFileBadRequest") @@
    401 :> Raw("DeleteSpecFileUnauthorized") @@
    403 :> Object("ApiSpec403Error") @@
    404 :> Raw("DeleteSpecFileNotFound") @@ 500 :> Object("Common500Error")

decodeDeleteWorkspaceResponse ==
    200 :> Schema("WorkspaceDeleted") @@
    400 :> Raw("GetAuditLogEventActionsClientErrorResponse") @@
    401 :> Object("Common401Error") @@ 500 :> Object("Common500Error")

decodeDeleteWorkspaceUpdateResponse ==
    200 :> NoContent("DeleteWorkspaceUpdateOK") @@
    401 :> Raw("ErrorTypeTitleDetailStatusInstance") @@
    403 :> Raw("DeleteWorkspaceUpdateForbidden") @@
    404 :> Raw("DeleteWorkspaceUpdateNotFound") @@
    500 :> Object("Common500Error")

decodeDetectedSecretsQueriesResponse ==
    200 :> Checked(Schema("SearchDetectedSecretsRequest")) @@
    400 :> Object("DetectedSecretsQuery400Errors") @@
    401 :> Raw("DetectedSecretsQueriesUnauthorized") @@
    403 :> Object("SecretScanner403Error") @@
    500 :> Raw("DetectedSecretsQueriesInternalServerError")

decodeDuplicateCollectionResponse ==
    200 :> Checked(Schema("DuplicateCollectionResponse")) @@
    400 :> Object("Common400Error") @@ 401 :> Object("Common401Error") @@
    403 :> Object("Common403Error") @@ 500 :> Object("Common500Error")

decodeForkEnvironmentResponse ==
    200 :> Schema("ForkEnvironmentOkResponse") @@
    401 :> Object("Common401Error") @@
    404 :> Raw("ErrorTypeTitleDetailStatus") @@
    500 :> Object("Common500Error")

decodeGenerateCollectionResponse ==
    200 :> Schema("TaskCreated") @@
    401 :> Raw("GenerateCollectionUnauthorized") @@
    403 :> Object("ApiSpec403Error") @@
    404 :> Raw("GenerateCollectionNotFound") @@
    423 :> Raw("GenerateCollectionLocked") @@ 500 :> Object("Common500Error")

decodeGenerateOauthTokenResponse ==
    200 :> Checked(Schema("GenerateOauthTokenResponse")) @@
    400 :> Raw("GenerateOauthTokenBadRequest") @@
    404 :> Raw("GenerateOauthTokenNotFound") @@
    500 :> Object("Common500Error")

decodeGenerateServiceAccountTokenResponse ==
    200 :> Schema("GenerateServiceAccountTokenResponse") @@
    400 :> Object("Common400Error") @@
    401 :> Raw("ErrorTypeTitleDetailStatus") @@
    429 :> Raw("ErrorTypeTitleDetailStatusInstance") @@
    500 :> Object("Common500Error")

decodeGenerateSpecFromCollectionResponse ==
    200 :> Schema("TaskCreated") @@ 403 :> Object("ApiSpec403Error") @@
    404 :> Raw("GenerateSpecFromCollectionNotFound") @@
    423 :> Raw("GenerateSpecFromCollectionLocked") @@
    500 :> Object("Common500Error")

decodeGenerateToolResponse ==
    200 :> Schema("GenerateToolResponse") @@
    400 :> Raw("GenerateToolBadRequestResponse") @@
    429 :> Raw("ErrorTypeTitleDetailStatus") @@
    500 :> Object("Common500Error")

decodeGetAccountInvoicesResponse ==
    200 :> Checked(Schema("GetAccountInvoices")) @@
    400 :> Raw("GetAccountInvoicesBadRequest") @@
    401 :> Object("Common401Error") @@
    403 :> Raw("GetAccountInvoicesForbidden") @@
    500 :> Object("Common500Error")

decodeGetAccountsResponse ==
    200 :> Checked(Schema("AccountInformation")) @@
    400 :> Raw("ErrorTypeTitleDetailStatus") @@
    401 :> Object("Common401Error") @@ 500 :> Object("Common500Error")

decodeGetAllComponentsResponse ==
    200 :> Checked(Schema("GetAllComponents")) @@
    400 :> Raw("ErrorTypeTitleDetailStatus") @@
    401 :> Object("Common401Error") @@ 500 :> Object("Common500Error")

decodeGetAllSpecsResponse ==
    200 :> Checked(Schema("GetAllSpecs")) @@
    400 :> Raw("GetAllSpecsBadRequest") @@
    401 :> Raw("GetAllSpecsUnauthorized") @@
    403 :> Object("ApiSpec403Error") @@ 500 :> Object("Common500Error")

decodeGetAllWorkspaceRolesResponse ==
    200 :> Schema("GetAllWorkspaceRolesOkResponse") @@
    401 :> Object("Common401Error") @@ 403 :> Object("Common403Error") @@
    500 :> Object("Common500Error")

decodeGetAnalyticsDataResponse ==
    200 :> Schema("GetAnalyticsData") @@
    400 :> Raw("ErrorTypeTitleDetailStatus") @@
    401 :> Raw("GetAnalyticsDataUnauthorized") @@
    403 :> Raw("GetAnalyticsDataForbidden") @@ 500 :> Object("Common500Error")

decodeGetAnalyticsMetadataResponse ==
    200 :> Schema("GetAnalyticsMetadata") @@
    401 :> Raw("GetAnalyticsMetadataUnauthorized") @@
    403 :> Raw("GetAnalyticsMetadataForbidden") @@
    500 :> Object("Common500Error")

decodeGetAsyncSpecTaskStatusResponse ==
    200 :> Raw("GetAsyncCollectionTaskStatus") @@
    401 :> Raw("GetAsyncSpecTaskStatusUnauthorized") @@
    403 :> Object("ApiSpec403Error") @@
    404 :> Raw("GetAsyncSpecTaskStatusNotFound") @@
    500 :> Object("Common500Error")

decodeGetAuditLogEventActionsResponse ==
    200 :> Checked(Schema("GetAuditLogEventActionsOKApplicationJSON")) @@
    400 :> Raw("GetAuditLogEventActionsBadRequest") @@
    403 :> Raw("GetAuditLogEventActionsForbidden") @@
    500 :> Object("Common500Error")

decodeGetAuditLogsResponse ==
    200 :> Schema("GetAuditLogs") @@
    400 :> Raw("GetAuditLogEventActionsClientErrorResponse") @@
    401 :> Object("Common401Error") @@ 500 :> Object("Common500Error")

decodeGetAuthenticatedUserResponse ==
    200 :> Checked(Schema("GetAuthenticatedUserOkResponse")) @@
    401 :> Object("Common401Error") @@ 500 :> Object("Common500Error")

decodeGetCollectionResponse ==
    200 :> Checked(Schema("CollectionInformation")) @@
    400 :> Raw("GetAuditLogEventActionsClientErrorResponse") @@
    401 :> Object("Common401Error") @@ 500 :> Object("Common500Error")

decodeGetCollectionAccessKeysResponse ==
    200 :> Checked(Schema("CollectionAccessKeys")) @@
    400 :> Object("Common400Error") @@ 401 :> Object("Common401Error") @@
    403 :> Object("Common403Error") @@ 500 :> Object("Common500Error")

decodeGetCollectionCommentsResponse ==
    200 :> Schema("CommentResponseObject") @@
    401 :> Raw("GetCollectionCommentsUnauthorized") @@
    403 :> Raw("GetCollectionCommentsForbidden") @@
    404 :> Raw("GetCollectionCommentsNotFound") @@
    500 :> Raw("GetCollectionCommentsInternalServerError")

decodeGetCollectionFolderResponse ==
    200 :> Schema("CollectionFolderInfo") @@
    401 :> Raw("GetCollectionFolderUnauthorized") @@
    404 :> Raw("GetCollectionFolderNotFound") @@
    500 :> Object("Common500Error")

decodeGetCollectionForksResponse ==
    200 :> Schema("CollectionForksInfo") @@
    400 :> Raw("GetAuditLogEventActionsClientErrorResponse") @@
    404 :> Raw("GetCollectionForksNotFoundResponse") @@
    500 :> Object("Common500Error")

decodeGetCollectionPullRequestsResponse ==
    200 :> Checked(Schema("CollectionPullRequests")) @@
    403 :> Raw("ErrorTypeTitleDetailStatus") @@
    500 :> Object("Common500Error")

decodeGetCollectionRequestResponse ==
    200 :> Schema("CollectionRequestInfo") @@
    401 :> Raw("GetCollectionRequestUnauthorized") @@
    404 :> Raw("GetCollectionRequestNotFound") @@
    500 :> Object("Common500Error")

decodeGetCollectionResponseResponse ==
    200 :> Schema("CollectionResponseInfo") @@
    401 :> Raw("GetCollectionResponseUnauthorized") @@
    404 :> Raw("GetCollectionResponseNotFound") @@
    500 :> Object("Common500Error")

decodeGetCollectionRolesResponse ==
    200 :> Checked(Schema("CollectionRolesInfo")) @@
    401 :> Object("Common401Error") @@ 403 :> Object("Common403Error") @@
    404 :> Raw("ErrorTitleType") @@ 500 :> Object("Common500Error")

decodeGetCollectionTagsResponse ==
    200 :> Schema("SuccessResponse") @@
    401 :> Raw("GetCollectionTagsUnauthorized") @@
    403 :> Raw("GetCollectionTagsForbidden") @@
    500 :> Raw("ErrorTypeTitleDetailStatusInstance")

decodeGetCollectionUpdatesTasksResponse ==
    200 :> Checked(Schema("GetCollectionUpdateStatus")) @@
    401 :> Object("Common401Error") @@ 403 :> Object("Common403Error") @@
    500 :> Object("Common500Error")

decodeGetCollectionsResponse ==
    200 :> Schema("CollectionsList") @@ 401 :> Object("Common401Error") @@
    500 :> Object("Common500Error")

decodeGetCollectionsForkedByUserResponse ==
    200 :> Schema("UsersForkedCollections") @@
    400 :> Raw("GetCollectionsForkedByUserBadRequestResponse") @@
    401 :> Object("Common401Error") @@ 500 :> Object("Common500Error")

decodeGetComponentResponse ==
    200 :> Checked(Schema("GetComponent")) @@
    400 :> Raw("GetComponentBadRequest") @@ 401 :> Object("Common401Error") @@
    403 :> Object("Common403Error") @@ 404 :> Raw("GetComponentNotFound") @@
    500 :> Object("Common500Error")

decodeGetComponentDraftResponse ==
    200 :> Schema("GetComponentDraft") @@
    400 :> Raw("GetComponentDraftBadRequest") @@
    401 :> Object("Common401Error") @@ 403 :> Object("Common403Error") @@
    404 :> Raw("GetComponentDraftNotFound") @@ 500 :> Object("Common500Error")

decodeGetComponentVersionResponse ==
    200 :> Schema("ComponentVersionData") @@
    400 :> Raw("GetComponentVersionBadRequest") @@
    401 :> Object("Common401Error") @@ 403 :> Object("Common403Error") @@
    404 :> Raw("GetComponentVersionNotFound") @@
    500 :> Object("Common500Error")

decodeGetComponentVersionsResponse ==
    200 :> Schema("GetComponentVersions") @@
    400 :> Raw("GetComponentVersionsBadRequest") @@
    401 :> Object("Common401Error") @@ 403 :> Object("Common403Error") @@
    404 :> Raw("GetComponentVersionsNotFound") @@
    500 :> Object("Common500Error")

decodeGetDetectedSecretsLocationsResponse ==
    200 :> Checked(Schema("GetDetectedSecretsLocationsOkResponse")) @@
    400 :> Raw("GetDetectedSecretsLocationsBadRequest") @@
    401 :> Raw("GetDetectedSecretsLocationsUnauthorized") @@
    403 :> Object("SecretScanner403Error") @@
    500 :> Raw("GetDetectedSecretsLocationsInternalServerError")

decodeGetDuplicateCollectionTaskStatusResponse ==
    200 :> Checked(Schema("DuplicateCollectionResponse")) @@
    400 :> Raw("GetDuplicateCollectionTaskStatusBadRequest") @@
    401 :> Object("Common401Error") @@ 403 :> Object("Common403Error") @@
    404 :> Raw("GetDuplicateCollectionTaskStatusNotFound") @@
    500 :> Object("Common500Error")

decodeGetEnvironmentResponse ==
    200 :> Schema("GetEnvironmentOkResponse") @@
    400 :> Object("Environments404Error") @@
    401 :> Object("Common401Error") @@ 500 :> Object("Common500Error")

decodeGetEnvironmentForksResponse ==
    200 :> Schema("GetEnvironmentForksOkResponse") @@
    400 :> Raw("CreateApiClientErrorResponse") @@
    401 :> Object("Common401Error") @@
    404 :> Raw("ErrorTypeTitleDetailStatus") @@
    500 :> Object("Common500Error")

decodeGetEnvironmentsResponse ==
    200 :> Schema("GetEnvironmentsOkResponse") @@
    401 :> Object("Common401Error") @@
    404 :> Object("Environments404Error") @@ 500 :> Object("Common500Error")

decodeGetFolderCommentsResponse ==
    200 :> Schema("CommentResponseObject") @@
    401 :> Raw("GetFolderCommentsUnauthorized") @@
    403 :> Raw("GetFolderCommentsForbidden") @@
    404 :> Raw("GetFolderCommentsNotFound") @@
    500 :> Raw("GetFolderCommentsInternalServerError")

decodeGetGeneratedCollectionSpecsResponse ==
    200 :> Checked(Schema("GetGeneratedCollectionSpecs")) @@
    403 :> Object("ApiSpec403Error") @@
    404 :> Raw("ErrorTypeTitleDetailStatus") @@
    500 :> Object("Common500Error")

decodeGetGroupResponse ==
    200 :> Schema("PostmanGroupInformation") @@
    400 :> Object("Common400Error") @@ 401 :> Object("Common401Error") @@
    403 :> Object("Common403Error") @@
    404 :> Raw("ErrorTypeTitleDetailStatus") @@
    500 :> Object("Common500Error")

decodeGetGroupsResponse ==
    200 :> Schema("PostmanGroupsInformation") @@
    401 :> Object("Common401Error") @@ 403 :> Object("Common403Error") @@
    500 :> Object("Common500Error")

decodeGetMockResponse ==
    200 :> Checked(Schema("GetMockServer")) @@
    401 :> Object("Common401Error") @@
    404 :> Raw("ErrorNameMessageDetails") @@ 500 :> Raw("InternalServerError")

decodeGetMockCallLogsResponse ==
    200 :> Schema("GetCallLogs") @@ 400 :> Object("Mock400Error") @@
    401 :> Object("Common401Error") @@
    404 :> Raw("ErrorNameMessageDetails") @@ 500 :> Object("Common500Error")

decodeGetMockServerResponseResponse ==
    200 :> Schema("CreateMockServerResponseOkResponse") @@
    401 :> Object("Common401Error") @@
    404 :> Raw("GetMockServerResponsesNotFoundResponse") @@
    500 :> Object("Common500Error")

decodeGetMockServerResponsesResponse ==
    200 :> Checked(Schema("GetMockServerResponsesOKApplicationJSON")) @@
    401 :> Object("Common401Error") @@
    404 :> Raw("GetMockServerResponsesNotFoundResponse") @@
    500 :> Object("Common500Error")

decodeGetMocksResponse ==
    200 :> Checked(Schema("GetMockServers")) @@
    401 :> Object("Common401Error") @@ 500 :> Raw("InternalServerError")

decodeGetMonitorResponse ==
    200 :> Checked(Schema("GetMonitorOkResponse")) @@
    401 :> Object("Common401Error") @@ 403 :> Object("Common403Error") @@
    404 :> Raw("GetAuditLogEventActionsClientErrorResponse") @@
    500 :> Object("Common500Error")

decodeGetMonitorsResponse ==
    200 :> Schema("GetMonitorsOkResponse") @@
    400 :> Object("Monitors400Errors") @@ 401 :> Object("Common401Error") @@
    403 :> Object("Common403Error") @@
    404 :> Raw("GetAuditLogEventActionsClientErrorResponse") @@
    500 :> Object("Common500Error")

decodeGetPullRequestResponse ==
    200 :> Checked(Schema("GetPullRequestOkResponse")) @@
    403 :> Raw("ErrorTypeTitleDetailStatus") @@
    500 :> Object("Common500Error")

decodeGetRequestCommentsResponse ==
    200 :> Schema("CommentResponseObject") @@
    401 :> Raw("GetRequestCommentsUnauthorized") @@
    403 :> Raw("GetRequestCommentsForbidden") @@
    404 :> Raw("GetRequestCommentsNotFound") @@
    500 :> Raw("GetRequestCommentsInternalServerError")

decodeGetResponseCommentsResponse ==
    200 :> Schema("CommentResponseObject") @@
    401 :> Raw("GetResponseCommentsUnauthorized") @@
    403 :> Raw("GetResponseCommentsForbidden") @@
    404 :> Raw("GetResponseCommentsNotFound") @@
    500 :> Raw("GetResponseCommentsInternalServerError")

decodeGetRunnerInstancesResponse ==
    200 :> Schema("GetRunnerInstances") @@
    400 :> Raw("GetRunnerInstancesBadRequest") @@
    401 :> Object("Common401Error") @@ 403 :> Object("Common403Error") @@
    404 :> Raw("GetRunnerInstancesNotFound") @@
    500 :> Object("Common500Error")

decodeGetRunnerMetricsResponse ==
    200 :> Schema("GetRunnerMetrics") @@ 401 :> Object("Common401Error") @@
    403 :> Object("Common403Error") @@
    404 :> Raw("ErrorTypeTitleDetailCreatedAt") @@
    500 :> Object("Common500Error")

decodeGetSdkResponse ==
    200 :> Checked(Schema("Sdk")) @@ 401 :> Object("Common401Error") @@
    403 :> Object("Common403Error") @@ 404 :> Raw("GetSdkNotFound") @@
    429 :> Raw("GetSdkTooManyRequests") @@ 500 :> Object("Common500Error")

decodeGetSdkDownloadUrlResponse ==
    200 :> Checked(Schema("SdkDownload")) @@
    401 :> Object("Common401Error") @@ 403 :> Object("Common403Error") @@
    404 :> Raw("GetSdkDownloadUrlNotFound") @@
    409 :> Raw("GetSdkDownloadUrlConflict") @@
    429 :> Raw("GetSdkDownloadUrlTooManyRequests") @@
    500 :> Object("Common500Error")

decodeGetSdkGitConnectionResponse ==
    200 :> Checked(Schema("SdkGitConnection")) @@
    401 :> Object("Common401Error") @@ 403 :> Object("Common403Error") @@
    404 :> Raw("GetSdkGitConnectionNotFound") @@
    429 :> Raw("GetSdkGitConnectionTooManyRequests") @@
    500 :> Object("Common500Error")

decodeGetSdkGitConnectionPullRequestsResponse ==
    200 :> Checked(Schema("SdkGitConnectionPullRequestList")) @@
    401 :> Object("Common401Error") @@ 403 :> Object("Common403Error") @@
    404 :> Raw("GetSdkGitConnectionPullRequestsNotFound") @@
    429 :> Raw("GetSdkGitConnectionPullRequestsTooManyRequests") @@
    500 :> Object("Common500Error")

decodeGetSdkGitConnectionsResponse ==
    200 :> Checked(Schema("SdkGitConnectionList")) @@
    400 :> Raw("SdkError") @@ 401 :> Object("Common401Error") @@
    403 :> Object("Common403Error") @@
    429 :> Raw("ErrorTypeTitleDetailStatus") @@
    500 :> Object("Common500Error")

decodeGetSdksResponse ==
    200 :> Checked(Schema("SdkList")) @@ 400 :> Raw("SdkError") @@
    401 :> Object("Common401Error") @@ 403 :> Object("Common403Error") @@
    429 :> Raw("ErrorTypeTitleDetailStatus") @@
    500 :> Object("Common500Error")

decodeGetSecretTypesResponse ==
    200 :> Checked(Schema("GetSecretTypesOkResponse")) @@
    401 :> Raw("GetSecretTypesUnauthorized") @@
    403 :> Object("SecretScanner403Error") @@
    500 :> Raw("GetSecretTypesInternalServerError")

decodeGetSourceCollectionStatusResponse ==
    200 :> Schema("SourceCollectionStatus") @@
    400 :> Raw("GetSourceCollectionStatusBadRequestResponse") @@
    403 :> Raw("ErrorTypeTitleDetailStatus") @@
    500 :> Object("Common500Error")

decodeGetSpecResponse ==
    200 :> Checked(Schema("SpecInformation")) @@
    401 :> Raw("GetSpecUnauthorized") @@ 403 :> Object("ApiSpec403Error") @@
    404 :> Raw("GetSpecNotFound") @@ 500 :> Object("Common500Error")

decodeGetSpecCollectionsResponse ==
    200 :> Checked(Schema("GetSpecCollections")) @@
    401 :> Raw("GetSpecCollectionsUnauthorized") @@
    403 :> Object("ApiSpec403Error") @@
    404 :> Raw("GetSpecCollectionsNotFound") @@
    500 :> Object("Common500Error")

decodeGetSpecDefinitionResponse ==
    200 :> NoContent("GetSpecDefinitionOK") @@
    400 :> Raw("GetSpecDefinitionBadRequest") @@
    401 :> Raw("GetSpecDefinitionUnauthorized") @@
    403 :> Object("ApiSpec403Error") @@
    404 :> Raw("GetSpecDefinitionNotFound") @@ 500 :> Object("Common500Error")

decodeGetSpecFileResponse ==
    200 :> Checked(Schema("GetSpecFile")) @@
    400 :> Raw("GetSpecFileBadRequest") @@
    401 :> Raw("GetSpecFileUnauthorized") @@
    403 :> Object("ApiSpec403Error") @@ 404 :> Raw("GetSpecFileNotFound") @@
    500 :> Object("Common500Error")

decodeGetSpecFilesResponse ==
    200 :> Checked(Schema("GetSpecFiles")) @@
    401 :> Raw("GetSpecFilesUnauthorized") @@
    403 :> Object("ApiSpec403Error") @@ 404 :> Raw("GetSpecFilesNotFound") @@
    500 :> Object("Common500Error")

decodeGetSpecVersionTagResponse ==
    200 :> Checked(Schema("GetSpecVersionTag")) @@
    401 :> Raw("GetSpecVersionTagUnauthorized") @@
    403 :> Object("ApiSpec403Error") @@
    404 :> Raw("GetSpecVersionTagNotFound") @@ 500 :> Object("Common500Error")

decodeGetSpecVersionTagsResponse ==
    200 :> Schema("GetSpecVersionTags") @@
    401 :> Raw("GetSpecVersionTagsUnauthorized") @@
    403 :> Object("ApiSpec403Error") @@
    404 :> Raw("GetSpecVersionTagsNotFound") @@
    500 :> Object("Common500Error")

decodeGetTaggedEntitiesResponse ==
    200 :> Checked(Schema("GetTaggedEntitiesOkResponse")) @@
    400 :> Raw("GetTaggedEntitiesBadRequestResponse") @@
    401 :> Raw("GetTaggedEntitiesUnauthorized") @@
    403 :> Raw("GetTaggedEntitiesForbidden") @@
    404 :> Raw("GetTaggedEntitiesNotFound") @@
    500 :> Raw("GetTaggedEntitiesInternalServerError")

decodeGetTeamResponse ==
    200 :> Schema("CreateGetTeamResponse") @@
    400 :> Object("Teams400Error") @@
    401 :> Raw("ErrorTypeTitleDetailStatusInstance") @@
    500 :> Raw("TeamsApiErrorSchema")

decodeGetTeamAccessRequestsResponse ==
    200 :> Checked(Schema("GetTeamAccessRequests")) @@
    400 :> Object("Teams400Error") @@
    401 :> Raw("ErrorTypeTitleDetailStatusInstance") @@
    403 :> Raw("GetTeamAccessRequestsForbidden") @@
    500 :> Raw("GetTeamAccessRequestsInternalServerError")

decodeGetTeamSettingsResponse ==
    200 :> Schema("CreateGetTeamSettingsResponse") @@
    400 :> Object("Teams400Error") @@
    401 :> Raw("ErrorTypeTitleDetailStatusInstance") @@
    500 :> Raw("TeamsApiErrorSchema")

decodeGetTeamUserResponse ==
    200 :> Schema("UserInformation") @@ 400 :> Object("Common400Error") @@
    401 :> Object("Common401Error") @@ 403 :> Object("Common403Error") @@
    404 :> Raw("ErrorTypeTitleDetailStatus") @@
    500 :> Object("Common500Error")

decodeGetTeamUsersResponse ==
    200 :> Schema("TeamUsersInformation") @@
    401 :> Object("Common401Error") @@ 403 :> Object("Common403Error") @@
    500 :> Object("Common500Error")

decodeGetTeamsResponse ==
    200 :> Schema("GetTeams") @@ 400 :> Object("Teams400Error") @@
    401 :> Raw("ErrorTypeTitleDetailStatusInstance") @@
    500 :> Raw("TeamsApiErrorSchema")

decodeGetWorkspaceResponse ==
    200 :> Checked(Schema("GetWorkspaceOkResponse")) @@
    401 :> Object("Common401Error") @@
    404 :> Raw("GetWorkspaceNotFoundResponse") @@
    500 :> Object("Common500Error")

decodeGetWorkspaceActivityFeedResponse ==
    200 :> Checked(Schema("WorkspaceActivityFeed")) @@
    400 :> Raw("GetWorkspaceActivityFeedBadRequest") @@
    401 :> Object("Common401Error") @@ 403 :> Object("Common403Error") @@
    404 :> Raw("GetWorkspaceActivityFeedNotFound") @@
    500 :> Object("Common500Error")

decodeGetWorkspaceGlobalVariablesResponse ==
    200 :> Checked(Schema("GetWorkspaceGlobalVariablesOkResponse")) @@
    500 :> Raw("CreateApiClientErrorResponse")

decodeGetWorkspaceRolesResponse ==
    200 :> Schema("WorkspaceRoles") @@ 401 :> Object("Common401Error") @@
    403 :> Object("Common403Error") @@
    404 :> Raw("ErrorTypeTitleDetailStatus") @@
    500 :> Object("Common500Error")

decodeGetWorkspaceTagsResponse ==
    200 :> Schema("SuccessResponse") @@
    401 :> Raw("GetWorkspaceTagsUnauthorized") @@
    403 :> Raw("GetWorkspaceTagsForbidden") @@
    404 :> Raw("GetWorkspaceTagsNotFound") @@
    500 :> Raw("GetWorkspaceTagsInternalServerError")

decodeGetWorkspaceUpdateResponse ==
    200 :> Checked(Schema("WorkspaceUpdateData")) @@
    401 :> Raw("ErrorTypeTitleDetailStatusInstance") @@
    403 :> Raw("GetWorkspaceUpdateForbidden") @@
    404 :> Raw("GetWorkspaceUpdateNotFound") @@
    500 :> Object("Common500Error")

decodeGetWorkspaceUpdatesResponse ==
    200 :> Checked(Schema("GetWorkspaceUpdates")) @@
    400 :> Raw("GetWorkspaceUpdatesBadRequest") @@
    401 :> Raw("ErrorTypeTitleDetailStatusInstance") @@
    403 :> Raw("GetWorkspaceUpdatesForbidden") @@
    404 :> Raw("GetWorkspaceUpdatesNotFound") @@
    500 :> Object("Common500Error")

decodeGetWorkspacesResponse ==
    200 :> Checked(Schema("GetWorkspacesOkResponse")) @@
    400 :> Object("Workspaces400Error") @@ 401 :> Object("Common401Error") @@
    500 :> Object("Common500Error")

decodeImportOpenApiDefinitionResponse ==
    200 :> Schema("ImportOpenApiDefinitionOkResponse") @@
    400 :> Object("ImportOpenApiDefinitionBadRequestResponse") @@
    401 :> Object("Common401Error") @@ 500 :> Object("Common500Error")

decodeListPrivateNetworkAddRequestsResponse ==
    200 :> Checked(Schema("ListPrivateNetworkAddRequestsOkResponse")) @@
    400 :> Object("Pan400Error") @@ 401 :> Object("Common401Error") @@
    403 :> Object("Common403Error") @@ 500 :> Object("Common500Error")

decodeListPrivateNetworkWorkspacesResponse ==
    200 :> Schema("ListPrivateNetworkWorkspacesOkResponse") @@
    401 :> Object("Common401Error") @@ 403 :> Object("Common403Error") @@
    500 :> Object("Common500Error")

decodeManagePartnerWorkspaceInvitesResponse ==
    200 :> Raw("ManagePartnerWorkspaceInvitesResponse") @@
    400 :> Raw("ManagePartnerWorkspaceInvitesBadRequest") @@
    401 :> Raw("ManagePartnerWorkspaceInvitesUnauthorized") @@
    403 :> Raw("ManagePartnerWorkspaceInvitesForbidden") @@
    404 :> Raw("ManagePartnerWorkspaceInvitesNotFound") @@
    500 :> Object("Common500Error")

decodeManageTeamMemberRolesResponse ==
    200 :> Schema("ManageTeamMemberRolesResponse") @@
    400 :> Object("Teams400Error") @@
    401 :> Raw("ErrorTypeTitleDetailStatusInstance") @@
    500 :> Raw("TeamsApiErrorSchema")

decodeMergeCollectionForkResponse ==
    200 :> Schema("CollectionForkMerged") @@
    401 :> Object("Common401Error") @@ 403 :> Object("Common403Error") @@
    404 :> Raw("ErrorNameMessageDetails") @@ 500 :> Object("Common500Error")

decodeMergeEnvironmentForkResponse ==
    200 :> Schema("MergeEnvironmentForkOkResponse") @@
    400 :> Raw("CreateApiClientErrorResponse") @@
    401 :> Object("Common401Error") @@
    404 :> Raw("ErrorTypeTitleDetailStatus") @@
    500 :> Object("Common500Error")

decodePatchCollectionResponse ==
    200 :> Schema("PatchCollectionOkResponse") @@
    400 :> Object("CollectionPatch400Errors") @@
    401 :> Object("Common401Error") @@ 403 :> Object("Common403Error") @@
    404 :> Raw("ErrorNameMessageDetails") @@ 500 :> Object("Common500Error")

decodePatchEnvironmentResponse ==
    200 :> Schema("PatchEnvironmentOkResponse") @@
    400 :> Raw("PatchEnvironmentBadRequestResponse") @@
    403 :> Raw("PatchEnvironmentForbidden") @@
    404 :> Object("Environments404Error") @@
    411 :> Raw("PatchEnvironmentLengthRequired") @@
    413 :> Raw("PatchEnvironmentRequestEntityTooLarge") @@
    500 :> Object("Common500Error")

decodePatchWorkspaceUpdateResponse ==
    200 :> Checked(Schema("WorkspaceUpdatePostPatchResponseData")) @@
    400 :> Raw("PatchWorkspaceUpdateBadRequest") @@
    401 :> Raw("ErrorTypeTitleDetailStatusInstance") @@
    403 :> Raw("PatchWorkspaceUpdateForbidden") @@
    404 :> Raw("PatchWorkspaceUpdateNotFound") @@
    422 :> Raw("PatchWorkspaceUpdateUnprocessableEntity") @@
    500 :> Object("Common500Error")

decodePublishDocumentationResponse ==
    200 :> Checked(Schema("PublishDocumentationResponse")) @@
    400 :> Raw("PublishDocumentationBadRequest") @@
    401 :> Raw("PublishDocumentationUnauthorized") @@
    403 :> Raw("PublishDocumentationForbidden") @@
    500 :> Raw("PublishDocumentationInternalServerError")

decodePublishMockResponse ==
    200 :> Schema("MockPublishedUnpublished") @@
    400 :> Object("Mock400Error") @@ 401 :> Object("Common401Error") @@
    404 :> Raw("ErrorNameMessageDetails") @@ 500 :> Raw("InternalServerError")

decodePullCollectionChangesResponse ==
    200 :> Schema("CollectionChangesPulled") @@
    400 :> Raw("GetAuditLogEventActionsClientErrorResponse") @@
    404 :> Raw("ErrorNameMessageDetails") @@ 500 :> Object("Common500Error")

decodePullEnvironmentResponse ==
    200 :> Schema("PullEnvironmentOkResponse") @@
    400 :> Raw("CreateApiClientErrorResponse") @@
    401 :> Object("Common401Error") @@
    404 :> Raw("ErrorTypeTitleDetailStatus") @@
    500 :> Object("Common500Error")

decodePutCollectionResponse ==
    200 :> NoContent("PutCollectionOK") @@
    400 :> Object("CollectionPut400Errors") @@
    401 :> Object("Common401Error") @@ 403 :> Object("Common403Error") @@
    404 :> Object("CollectionPut404Errors") @@
    409 :> Raw("ErrorTypeTitleDetailStatus") @@
    500 :> Object("Common500Error")

decodePutEnvironmentResponse ==
    200 :> Schema("PutEnvironmentOkResponse") @@
    400 :> Object("Environment400Errors") @@
    401 :> Object("Common401Error") @@
    411 :> Raw("PutEnvironmentLengthRequired") @@
    413 :> Raw("PutEnvironmentRequestEntityTooLarge") @@
    500 :> Object("Common500Error")

decodeRemoveTeamMembersResponse ==
    200 :> NoContent("RemoveTeamMembersOK") @@
    400 :> Object("Teams400Error") @@
    401 :> Raw("ErrorTypeTitleDetailStatusInstance") @@
    403 :> Raw("RemoveTeamMembersForbidden") @@
    500 :> Raw("RemoveTeamMembersInternalServerError")

decodeRemoveWorkspaceFromPrivateNetworkResponse ==
    200 :> Schema("RemoveWorkspaceFromPrivateNetworkOkResponse") @@
    400 :> Object("Pan400Error") @@ 401 :> Object("Common401Error") @@
    403 :> Object("Common403Error") @@
    404 :> Raw("AddWorkspaceToPrivateNetworkNotFoundResponse") @@
    500 :> Object("Common500Error")

decodeResolveCommentThreadResponse ==
    200 :> NoContent("ResolveCommentThreadOK") @@
    401 :> Raw("ResolveCommentThreadUnauthorized") @@
    404 :> Raw("ResolveCommentThreadNotFound") @@
    500 :> Raw("ResolveCommentThreadInternalServerError")

decodeRespondPrivateNetworkAddRequestResponse ==
    200 :> Raw("RespondPanElementAddRequest") @@
    400 :> Object("Pan400Error") @@ 401 :> Object("Common401Error") @@
    403 :> Object("Common403Error") @@ 500 :> Object("Common500Error")

decodeReviewPullRequestResponse ==
    200 :> Schema("ReviewPullRequestOkResponse") @@
    400 :> Raw("ReviewPullRequestBadRequest") @@
    403 :> Raw("ReviewPullRequestForbidden") @@
    500 :> Object("Common500Error")

decodeRevokeOauthTokenResponse ==
    200 :> Schema("RevokeOauthTokenResponse") @@
    404 :> Raw("OauthTokenError") @@ 500 :> Object("Common500Error")

decodeRunMonitorResponse ==
    200 :> NoContent("RunMonitorOK") @@ 401 :> Object("Common401Error") @@
    403 :> Object("Common403Error") @@
    404 :> Raw("GetAuditLogEventActionsClientErrorResponse") @@
    500 :> Object("Common500Error")

decodeSchemaSecurityValidationResponse ==
    200 :> Schema("SchemaSecurityValidationOkResponse") @@
    400 :> Raw("SchemaSecurityValidationBadRequestResponse") @@
    401 :> Object("Common401Error") @@ 403 :> Object("Common403Error") @@
    500 :> Object("Common500Error")

decodeSearchPostmanResourcesResponse ==
    200 :> Schema("SearchPostmanResourcesResponse") @@
    400 :> Raw("ErrorTypeTitleDetailStatus") @@
    500 :> Object("Common500Error")

decodeSyncCollectionWithSpecResponse ==
    200 :> Schema("TaskCreated") @@ 403 :> Object("Api403Error") @@
    404 :> Raw("ErrorTypeTitleDetailStatus") @@
    500 :> Object("Common500Error")

decodeSyncSpecWithCollectionResponse ==
    200 :> Schema("TaskCreated") @@
    401 :> Raw("SyncSpecWithCollectionUnauthorized") @@
    403 :> Object("ApiSpec403Error") @@
    404 :> Raw("SyncSpecWithCollectionNotFound") @@
    500 :> Object("Common500Error")

decodeTransferCollectionFoldersResponse ==
    200 :> Schema("CollectionItemsTransferred") @@
    400 :> Raw("CreateApiClientErrorResponse") @@
    500 :> Object("Common500Error")

decodeTransferCollectionRequestsResponse ==
    200 :> Schema("CollectionItemsTransferred") @@
    400 :> Raw("CreateApiClientErrorResponse") @@
    500 :> Object("Common500Error")

decodeTransferCollectionResponsesResponse ==
    200 :> Schema("CollectionItemsTransferred") @@
    400 :> Raw("CreateApiClientErrorResponse") @@
    500 :> Object("Common500Error")

decodeTransferWorkspaceElementResponse ==
    200 :> Schema("TransferWorkspaceElementResponse") @@
    400 :> Raw("TransferWorkspaceElementBadRequest") @@
    403 :> Raw("TransferWorkspaceElementForbidden") @@
    404 :> Raw("TransferWorkspaceElementNotFound") @@
    500 :> Object("Common500Error")

decodeTransferWorkspaceToTeamResponse ==
    200 :> Schema("TransferWorkspaceToTeamResponse") @@
    400 :> Raw("TransferWorkspaceToTeamBadRequest") @@
    401 :> Raw("TransferWorkspaceToTeamUnauthorized") @@
    403 :> Raw("TransferWorkspaceToTeamForbidden") @@
    404 :> Raw("TransferWorkspaceToTeamNotFound") @@
    500 :> Raw("TransferWorkspaceToTeamInternalServerError")

decodeTransformCollectionToOpenApiResponse ==
    200 :> Schema("CollectionTransformed") @@
    401 :> Raw("TransformCollectionToOpenApiUnauthorized") @@
    404 :> Raw("TransformCollectionToOpenApiNotFound") @@
    500 :> Raw("TransformCollectionToOpenApiInternalServerError")

decodeUnpublishDocumentationResponse ==
    200 :> NoContent("UnpublishDocumentationOK") @@
    400 :> Raw("UnpublishDocumentationBadRequest") @@
    401 :> Raw("UnpublishDocumentationUnauthorized") @@
    404 :> Raw("UnpublishDocumentationNotFound") @@
    500 :> Raw("UnpublishDocumentationInternalServerError")

decodeUnpublishMockResponse ==
    200 :> Schema("MockPublishedUnpublished") @@
    400 :> Object("Mock400Error") @@ 401 :> Object("Common401Error") @@
    404 :> Raw("ErrorNameMessageDetails") @@ 500 :> Raw("InternalServerError")

decodeUpdateCollectionCommentResponse ==
    200 :> Schema("CommentUpdatedCreatedObject") @@
    401 :> Raw("UpdateCollectionCommentUnauthorized") @@
    403 :> Raw("UpdateCollectionCommentForbidden") @@
    404 :> Raw("UpdateCollectionCommentNotFound") @@
    500 :> Raw("UpdateCollectionCommentInternalServerError")

decodeUpdateCollectionFolderResponse ==
    200 :> Schema("CollectionFolderUpdated") @@
    400 :> Raw("UpdateCollectionFolderBadRequest") @@
    401 :> Raw("UpdateCollectionFolderUnauthorized") @@
    404 :> Raw("UpdateCollectionFolderNotFound") @@
    500 :> Object("Common500Error")

decodeUpdateCollectionRequestResponse ==
    200 :> Schema("CollectionRequestUpdated") @@
    400 :> Raw("UpdateCollectionRequestBadRequest") @@
    401 :> Raw("UpdateCollectionRequestUnauthorized") @@
    404 :> Raw("UpdateCollectionRequestNotFound") @@
    500 :> Object("Common500Error")

decodeUpdateCollectionResponseResponse ==
    200 :> Schema("CollectionResponseUpdated") @@
    400 :> Raw("UpdateCollectionResponseBadRequest") @@
    401 :> Raw("UpdateCollectionResponseUnauthorized") @@
    404 :> Raw("UpdateCollectionResponseNotFound") @@
    500 :> Object("Common500Error")

decodeUpdateCollectionRolesResponse ==
    200 :> NoContent("UpdateCollectionRolesOK") @@
    400 :> Raw("ErrorTypeTitleDetailStatus") @@
    401 :> Object("Common401Error") @@ 403 :> Object("Common403Error") @@
    404 :> Raw("ErrorTitleType") @@ 500 :> Object("Common500Error")

decodeUpdateCollectionTagsResponse ==
    200 :> Schema("SuccessResponse") @@ 400 :> Raw("ApiTag400Error1") @@
    401 :> Raw("UpdateCollectionTagsUnauthorized") @@
    403 :> Raw("UpdateCollectionTagsForbidden") @@
    404 :> Raw("UpdateCollectionTagsNotFound") @@
    500 :> Raw("UpdateCollectionTagsInternalServerError")

decodeUpdateComponentResponse ==
    200 :> Checked(Schema("UpdateComponentResponse")) @@
    400 :> Raw("UpdateComponentBadRequest") @@
    401 :> Object("Common401Error") @@ 403 :> Object("Common403Error") @@
    404 :> Raw("UpdateComponentNotFound") @@
    409 :> Raw("UpdateComponentConflict") @@ 500 :> Object("Common500Error")

decodeUpdateComponentDraftResponse ==
    200 :> Schema("UpdateComponentDraftResponse") @@
    400 :> Raw("UpdateComponentDraftBadRequest") @@
    401 :> Object("Common401Error") @@ 403 :> Object("Common403Error") @@
    404 :> Raw("UpdateComponentDraftNotFound") @@
    409 :> Raw("UpdateComponentDraftConflict") @@
    500 :> Object("Common500Error")

decodeUpdateDetectedSecretResolutionsResponse ==
    200 :> Checked(Schema("UpdateDetectedSecretResolutionsOkResponse")) @@
    400 :> Raw("UpdateDetectedSecretResolutionsBadRequest") @@
    401 :> Raw("UpdateDetectedSecretResolutionsUnauthorized") @@
    403 :> Object("SecretScanner403Error") @@
    500 :> Raw("UpdateDetectedSecretResolutionsInternalServerError")

decodeUpdateFolderCommentResponse ==
    200 :> Schema("CommentUpdatedCreatedObject") @@
    401 :> Raw("UpdateFolderCommentUnauthorized") @@
    403 :> Raw("UpdateFolderCommentForbidden") @@
    404 :> Raw("UpdateFolderCommentNotFound") @@
    500 :> Raw("UpdateFolderCommentInternalServerError")

decodeUpdateMockResponse ==
    200 :> Checked(Schema("MockCreateUpdateResponse")) @@
    400 :> Object("Mock400Error") @@ 401 :> Object("Common401Error") @@
    404 :> Raw("ErrorNameMessageDetails") @@ 500 :> Raw("InternalServerError")

decodeUpdateMockServerResponseResponse ==
    200 :> Schema("CreateMockServerResponseOkResponse") @@
    400 :> Object("Common400Error") @@ 401 :> Object("Common401Error") @@
    404 :> Raw("GetMockServerResponsesNotFoundResponse") @@
    500 :> Object("Common500Error")

decodeUpdateMonitorResponse ==
    200 :> Schema("CreateUpdateMonitorResponse") @@
    400 :> Object("Monitors400Errors") @@ 401 :> Object("Common401Error") @@
    403 :> Object("Common403Error") @@
    404 :> Raw("GetAuditLogEventActionsClientErrorResponse") @@
    500 :> Object("Common500Error")

decodeUpdatePanElementOrFolderResponse ==
    200 :> NoContent("UpdatePanElementOrFolderOK") @@
    401 :> Object("Common401Error") @@ 403 :> Object("Common403Error") @@
    404 :> Raw("AddWorkspaceToPrivateNetworkNotFoundResponse") @@
    500 :> Object("Common500Error")

decodeUpdatePullRequestResponse ==
    200 :> Checked(Schema("PullRequestUpdated")) @@
    403 :> Raw("UpdatePullRequestForbidden") @@
    409 :> Raw("UpdatePullRequestConflict") @@ 500 :> Object("Common500Error")

decodeUpdateRequestCommentResponse ==
    200 :> Schema("CommentUpdatedCreatedObject") @@
    401 :> Raw("UpdateRequestCommentUnauthorized") @@
    403 :> Raw("UpdateRequestCommentForbidden") @@
    404 :> Raw("UpdateRequestCommentNotFound") @@
    500 :> Raw("UpdateRequestCommentInternalServerError")

decodeUpdateResponseCommentResponse ==
    200 :> Schema("CommentUpdatedCreatedObject") @@
    401 :> Raw("UpdateResponseCommentUnauthorized") @@
    403 :> Raw("UpdateResponseCommentForbidden") @@
    404 :> Raw("UpdateResponseCommentNotFound") @@
    500 :> Raw("UpdateResponseCommentInternalServerError")

decodeUpdateSdkGitConnectionResponse ==
    200 :> Checked(Schema("SdkGitConnection")) @@ 400 :> Raw("SdkError") @@
    401 :> Object("Common401Error") @@ 403 :> Object("Common403Error") @@
    404 :> Raw("UpdateSdkGitConnectionNotFound") @@
    422 :> Raw("UpdateSdkGitConnectionUnprocessableEntity") @@
    429 :> Raw("UpdateSdkGitConnectionTooManyRequests") @@
    500 :> Object("Common500Error")

decodeUpdateSpecFileResponse ==
    200 :> Checked(Schema("CreateUpdateSpecFileResponse")) @@
    400 :> Raw("UpdateSpecFileBadRequest") @@
    401 :> Raw("UpdateSpecFileUnauthorized") @@
    403 :> Object("ApiSpec403Error") @@
    404 :> Raw("UpdateSpecFileNotFound") @@ 500 :> Object("Common500Error")

decodeUpdateSpecPropertiesResponse ==
    200 :> Checked(Schema("UpdateSpecPropertiesResponse")) @@
    400 :> Raw("UpdateSpecPropertiesBadRequest") @@
    401 :> Raw("UpdateSpecPropertiesUnauthorized") @@
    403 :> Object("ApiSpec403Error") @@
    404 :> Raw("UpdateSpecPropertiesNotFound") @@
    500 :> Object("Common500Error")

decodeUpdateSpecSyncOptionsResponse ==
    200 :> Schema("ApiSpecSyncOptions") @@
    400 :> Raw("UpdateSpecSyncOptionsBadRequest") @@
    401 :> Raw("ErrorTypeTitleDetailStatusInstance") @@
    403 :> Object("ApiSpec403Error") @@
    404 :> Raw("UpdateSpecSyncOptionsNotFound") @@
    500 :> Object("Common500Error")

decodeUpdateTeamSettingsResponse ==
    200 :> Schema("CreateGetTeamSettingsResponse") @@
    400 :> Object("Teams400Error") @@
    401 :> Raw("ErrorTypeTitleDetailStatusInstance") @@
    500 :> Raw("TeamsApiErrorSchema")

decodeUpdateWorkspaceResponse ==
    200 :> Schema("WorkspaceUpdated") @@
    400 :> Raw("UpdateWorkspaceBadRequest") @@
    403 :> Raw("UpdateWorkspaceForbidden") @@
    404 :> Raw("UpdateWorkspaceNotFound") @@ 500 :> Object("Common500Error")

decodeUpdateWorkspaceGlobalVariablesResponse ==
    200 :> Checked(Schema("GlobalVariablesUpdated")) @@
    500 :> Raw("CreateApiClientErrorResponse")

decodeUpdateWorkspaceRolesResponse ==
    200 :> Schema("WorkspaceRolesUpdated") @@
    400 :> Raw("UpdateWorkspaceRolesBadRequest") @@
    401 :> Object("Common401Error") @@ 403 :> Object("Common403Error") @@
    404 :> Raw("UpdateWorkspaceRolesNotFound") @@
    422 :> Raw("PartnerAndPersonalWorkspaceRolesUnsupported") @@
    500 :> Object("Common500Error")

decodeUpdateWorkspaceTagsResponse ==
    200 :> Schema("SuccessResponse") @@ 400 :> Raw("ApiTag400Error1") @@
    401 :> Raw("UpdateWorkspaceTagsUnauthorized") @@
    403 :> Raw("UpdateWorkspaceTagsForbidden") @@
    404 :> Raw("UpdateWorkspaceTagsNotFound") @@
    500 :> Raw("UpdateWorkspaceTagsInternalServerError")

=============================================================================
