-------------------------- MODULE RequestEncoders ----------------------------
(***************************************************************************)
(* What each encode<Op>Request of the generated client puts into a request: *)
(* JSON of the type of its argument.  It never validates.                  *)
(***************************************************************************)
EXTENDS Endpoint

encodeAddWorkspaceToPrivateNetworkRequest == Json("AddWorkspace")

encodeApproveDenyAccessRequestRequest == Json("ApproveDenyAccessRequest")

encodeAsyncMergePullCollectionForkRequest ==
    Json("MergePullCollectionChanges")

encodeCreateAccessRequestRequest == Json("CreateAccessRequest")

encodeCreateCollectionRequest == Json("CreateCollection")

encodeCreateCollectionCommentRequest == Json("CommentCreate")

encodeCreateCollectionFolderRequest == Json("CreateFolder")

encodeCreateCollectionForkRequest == Json("CreateCollectionFork")

encodeCreateCollectionPullRequestRequest == Json("CreatePullRequest")

encodeCreateCollectionRequestRequest == Json("CreateRequest")

encodeCreateCollectionResponseRequest ==
    Json("CreateCollectionResponseRequest")

encodeCreateComponentRequest == Json("CreateComponent")

encodeCreateComponentVersionRequest == Json("CreateComponentVersion")

encodeCreateEnvironmentRequest == Json("CreateEnvironment")

encodeCreateFolderCommentRequest == Json("CommentCreate")

encodeCreateMockRequest == Json("CreateMock")

encodeCreateMockServerResponseRequest == Json("CreateMockServerResponse")

encodeCreateMonitorRequest == Json("CreateMonitor")

encodeCreateRequestCommentRequest == Json("CommentCreate")

encodeCreateResponseCommentRequest == Json("CommentCreate")

encodeCreateSdkRequest == Json("CreateSdk")

encodeCreateSdkGitConnectionRequest == Json("CreateSdkGitConnection")

encodeCreateSpecRequest == Json("CreateSpec")

encodeCreateSpecFileRequest == Json("CreateSpecFile")

encodeCreateSpecVersionTagRequest == Json("CreateSpecVersionTag")

encodeCreateTeamRequest == Json("CreateTeam")

encodeCreateWebhookRequest == Json("CreateWebhook")

encodeCreateWorkspaceRequest == Json("CreateWorkspace")

encodeCreateWorkspaceUpdateRequest == Json("CreateWorkspaceUpdate")

encodeDetectedSecretsQueriesRequest == Json("DetectedSecretsQueryRequest")

encodeDuplicateCollectionRequest == Json("DuplicateCollection")

encodeForkEnvironmentRequest == Json("ForkEnvironment")

encodeGenerateCollectionRequest == Json("GenerateCollection")

encodeGenerateOauthTokenRequest == Json("GenerateOauthToken")

encodeGenerateSpecFromCollectionRequest == Json("GenerateSpecFromCollection")

encodeGenerateToolRequest == Json("GenerateTool")

encodeImportOpenApiDefinitionRequest == Json("ImportOpenApiDefinition")

encodeManagePartnerWorkspaceInvitesRequest ==
    Json("ManagePartnerWorkspaceInvites")

encodeManageTeamMemberRolesRequest == Json("ManageTeamMemberRoles")

encodeMergeCollectionForkRequest == Json("MergeCollectionFork")

encodeMergeEnvironmentForkRequest == Json("MergeEnvironmentFork")

encodePatchCollectionRequest == Json("UpdateCollection")

encodePatchEnvironmentRequest == Json("PatchEnvironment")

encodePatchWorkspaceUpdateRequest == Json("UpdateWorkspaceUpdate")

encodePublishDocumentationRequest == Json("PublishDocumentation")

encodePullEnvironmentRequest == Json("PullEnvironmentForkChanges")

encodePutCollectionRequest == Json("ReplaceCollectionData")

encodePutEnvironmentRequest == Json("ReplaceEnvironmentData")

encodeRemoveTeamMembersRequest == Json("RemoveTeamMembers")

encodeRespondPrivateNetworkAddRequestRequest ==
    Json("RespondPanElementAddRequestBody")

encodeReviewPullRequestRequest == Json("ReviewPullRequest")

encodeRevokeOauthTokenRequest == Json("RevokeOauthToken")

encodeSchemaSecurityValidationRequest == Json("SchemaValidationRequestBody")

encodeSearchPostmanResourcesRequest == Json("SearchPostmanResources")

encodeTransferCollectionFoldersRequest == Json("TransferCollectionItems")

encodeTransferCollectionRequestsRequest == Json("TransferCollectionItems")

encodeTransferCollectionResponsesRequest == Json("TransferCollectionItems")

encodeTransferWorkspaceElementRequest == Json("TransferWorkspaceElement")

encodeTransferWorkspaceToTeamRequest == Json("TransferWorkspaceToTeam")

encodeUpdateCollectionCommentRequest == Json("CommentUpdate")

encodeUpdateCollectionFolderRequest == Json("UpdateFolder")

encodeUpdateCollectionRequestRequest == Json("UpdateRequest")

encodeUpdateCollectionResponseRequest == Json("UpdateCollectionResponse1")

encodeUpdateCollectionRolesRequest == Json("UpdateCollectionRoles")

encodeUpdateCollectionTagsRequest == Json("UpdateTags")

encodeUpdateComponentRequest == Json("UpdateComponentReq")

encodeUpdateComponentDraftRequest == Json("UpdateComponentDraft")

encodeUpdateDetectedSecretResolutionsRequest ==
    Json("UpdateSecretResolutionRequest")

encodeUpdateFolderCommentRequest == Json("CommentUpdate")

encodeUpdateMockRequest == Json("UpdateMock")

encodeUpdateMockServerResponseRequest == Json("UpdateMockServerResponse")

encodeUpdateMonitorRequest == Json("UpdateMonitor")

encodeUpdatePanElementOrFolderRequest ==
    Json("UpdatePanElementOrFolderRequest")

encodeUpdatePullRequestRequest == Json("UpdatePullRequest")

encodeUpdateRequestCommentRequest == Json("CommentUpdate")

encodeUpdateResponseCommentRequest == Json("CommentUpdate")

encodeUpdateSdkGitConnectionRequest == Json("UpdateSdkGitConnection")

encodeUpdateSpecFileRequest == Json("UpdateSpecFile")

encodeUpdateSpecPropertiesRequest == Json("UpdateSpecProperties")

encodeUpdateSpecSyncOptionsRequest == Json("ApiSpecSyncOptions")

encodeUpdateTeamSettingsRequest == Json("UpdateTeamSettings")

encodeUpdateWorkspaceRequest == Json("UpdateWorkspaceRequest")

encodeUpdateWorkspaceGlobalVariablesRequest == Json("UpdateGlobalVariables")

encodeUpdateWorkspaceRolesRequest == Json("UpdateWorkspaceRoles")

encodeUpdateWorkspaceTagsRequest == Json("UpdateTags")

=============================================================================
