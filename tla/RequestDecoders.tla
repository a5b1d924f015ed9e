-------------------------- MODULE RequestDecoders ----------------------------
(***************************************************************************)
(* What each decode<Op>Request of the generated server accepts as a body:  *)
(* JSON of one type, for 46 of the 85 types subject to Validate().         *)
(***************************************************************************)
EXTENDS Endpoint

decodeAddWorkspaceToPrivateNetworkRequest == Json("AddWorkspace")

decodeApproveDenyAccessRequestRequest ==
    Checked(Json("ApproveDenyAccessRequest"))

decodeAsyncMergePullCollectionForkRequest ==
    Checked(Json("MergePullCollectionChanges"))

decodeCreateAccessRequestRequest == Checked(Json("CreateAccessRequest"))

decodeCreateCollectionRequest == Checked(Json("CreateCollection"))

decodeCreateCollectionCommentRequest == Json("CommentCreate")

decodeCreateCollectionFolderRequest == Json("CreateFolder")

decodeCreateCollectionForkRequest == Json("CreateCollectionFork")

decodeCreateCollectionPullRequestRequest == Checked(Json("CreatePullRequest"))

decodeCreateCollectionRequestRequest == Checked(Json("CreateRequest"))

decodeCreateCollectionResponseRequest ==
    Json("CreateCollectionResponseRequest")

decodeCreateComponentRequest == Checked(Json("CreateComponent"))

decodeCreateComponentVersionRequest == Checked(Json("CreateComponentVersion"))

decodeCreateEnvironmentRequest == Json("CreateEnvironment")

decodeCreateFolderCommentRequest == Json("CommentCreate")

decodeCreateMockRequest == Json("CreateMock")

decodeCreateMockServerResponseRequest ==
    Checked(Json("CreateMockServerResponse"))

decodeCreateMonitorRequest == Checked(Json("CreateMonitor"))

decodeCreateRequestCommentRequest == Json("CommentCreate")

decodeCreateResponseCommentRequest == Json("CommentCreate")

decodeCreateSdkRequest == Checked(Json("CreateSdk"))

decodeCreateSdkGitConnectionRequest == Checked(Json("CreateSdkGitConnection"))

decodeCreateSpecRequest == Checked(Json("CreateSpec"))

decodeCreateSpecFileRequest == Json("CreateSpecFile")

decodeCreateSpecVersionTagRequest == Json("CreateSpecVersionTag")

decodeCreateTeamRequest == Json("CreateTeam")

decodeCreateWebhookRequest == Json("CreateWebhook")

decodeCreateWorkspaceRequest == Checked(Json("CreateWorkspace"))

decodeCreateWorkspaceUpdateRequest == Checked(Json("CreateWorkspaceUpdate"))

decodeDetectedSecretsQueriesRequest ==
    Checked(Json("DetectedSecretsQueryRequest"))

decodeDuplicateCollectionRequest == Json("DuplicateCollection")

decodeForkEnvironmentRequest == Json("ForkEnvironment")

decodeGenerateCollectionRequest == Checked(Json("GenerateCollection"))

decodeGenerateOauthTokenRequest == Json("GenerateOauthToken")

decodeGenerateSpecFromCollectionRequest ==
    Checked(Json("GenerateSpecFromCollection"))

decodeGenerateToolRequest == Checked(Json("GenerateTool"))

decodeImportOpenApiDefinitionRequest == Json("ImportOpenApiDefinition")

decodeManagePartnerWorkspaceInvitesRequest ==
    Json("ManagePartnerWorkspaceInvites")

decodeManageTeamMemberRolesRequest == Checked(Json("ManageTeamMemberRoles"))

decodeMergeCollectionForkRequest == Checked(Json("MergeCollectionFork"))

decodeMergeEnvironmentForkRequest == Json("MergeEnvironmentFork")

decodePatchCollectionRequest == Json("UpdateCollection")

decodePatchEnvironmentRequest == Json("PatchEnvironment")

decodePatchWorkspaceUpdateRequest == Checked(Json("UpdateWorkspaceUpdate"))

decodePublishDocumentationRequest == Checked(Json("PublishDocumentation"))

decodePullEnvironmentRequest == Json("PullEnvironmentForkChanges")

decodePutCollectionRequest == Checked(Json("ReplaceCollectionData"))

decodePutEnvironmentRequest == Json("ReplaceEnvironmentData")

decodeRemoveTeamMembersRequest == Checked(Json("RemoveTeamMembers"))

decodeRespondPrivateNetworkAddRequestRequest ==
    Checked(Json("RespondPanElementAddRequestBody"))

decodeReviewPullRequestRequest == Checked(Json("ReviewPullRequest"))

decodeRevokeOauthTokenRequest == Json("RevokeOauthToken")

decodeSchemaSecurityValidationRequest ==
    Checked(Json("SchemaValidationRequestBody"))

decodeSearchPostmanResourcesRequest == Checked(Json("SearchPostmanResources"))

decodeTransferCollectionFoldersRequest ==
    Checked(Json("TransferCollectionItems"))

decodeTransferCollectionRequestsRequest ==
    Checked(Json("TransferCollectionItems"))

decodeTransferCollectionResponsesRequest ==
    Checked(Json("TransferCollectionItems"))

decodeTransferWorkspaceElementRequest ==
    Checked(Json("TransferWorkspaceElement"))

decodeTransferWorkspaceToTeamRequest == Json("TransferWorkspaceToTeam")

decodeUpdateCollectionCommentRequest == Json("CommentUpdate")

decodeUpdateCollectionFolderRequest == Json("UpdateFolder")

decodeUpdateCollectionRequestRequest == Checked(Json("UpdateRequest"))

decodeUpdateCollectionResponseRequest == Json("UpdateCollectionResponse1")

decodeUpdateCollectionRolesRequest == Checked(Json("UpdateCollectionRoles"))

decodeUpdateCollectionTagsRequest == Json("UpdateTags")

decodeUpdateComponentRequest == Json("UpdateComponentReq")

decodeUpdateComponentDraftRequest == Checked(Json("UpdateComponentDraft"))

decodeUpdateDetectedSecretResolutionsRequest ==
    Checked(Json("UpdateSecretResolutionRequest"))

decodeUpdateFolderCommentRequest == Json("CommentUpdate")

decodeUpdateMockRequest == Json("UpdateMock")

decodeUpdateMockServerResponseRequest ==
    Checked(Json("UpdateMockServerResponse"))

decodeUpdateMonitorRequest == Checked(Json("UpdateMonitor"))

decodeUpdatePanElementOrFolderRequest ==
    Json("UpdatePanElementOrFolderRequest")

decodeUpdatePullRequestRequest == Checked(Json("UpdatePullRequest"))

decodeUpdateRequestCommentRequest == Json("CommentUpdate")

decodeUpdateResponseCommentRequest == Json("CommentUpdate")

decodeUpdateSdkGitConnectionRequest == Checked(Json("UpdateSdkGitConnection"))

decodeUpdateSpecFileRequest == Checked(Json("UpdateSpecFile"))

decodeUpdateSpecPropertiesRequest == Json("UpdateSpecProperties")

decodeUpdateSpecSyncOptionsRequest == Json("ApiSpecSyncOptions")

decodeUpdateTeamSettingsRequest == Checked(Json("UpdateTeamSettings"))

decodeUpdateWorkspaceRequest == Checked(Json("UpdateWorkspaceRequest"))

decodeUpdateWorkspaceGlobalVariablesRequest ==
    Checked(Json("UpdateGlobalVariables"))

decodeUpdateWorkspaceRolesRequest == Checked(Json("UpdateWorkspaceRoles"))

decodeUpdateWorkspaceTagsRequest == Json("UpdateTags")

=============================================================================
