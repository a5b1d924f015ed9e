--------------------------- MODULE ServiceCatalog ---------------------------
(***************************************************************************)
(* The 196 operations of the SDK's 31 services, one row for each service   *)
(* method: its HTTP method, the error statuses its decoder declares, and   *)
(* what its type switch makes of each (see Operation).  A definition holds *)
(* the methods that stand together in one file.                            *)
(*                                                                         *)
(* The requests these methods build are abstracted to whether building them*)
(* can fail: json.Marshal of a string or a struct of strings cannot, the   *)
(* conversion of a caller's own JSON or of a value of any type can.        *)
(***************************************************************************)
EXTENDS Operation, TLC

\* analytics/analytics.go
Analytics ==
    [Data |-> Op("GET", {500}, {400, 401, 403}),
     Metadata |-> Op("GET", {500}, {401, 403})]

\* apisecurity/apisecurity.go
ApiSecurity ==
    [Validate |-> Op("POST", {401, 403, 500}, {400})]

\* auditlogs/auditlogs.go
AuditLogs ==
    [List |-> Op("GET", {401, 500}, {400}),
     Actions |-> Op("GET", {500}, {400, 403})]

\* billing/billing.go
Billing ==
    [Accounts |-> Op("GET", {401, 500}, {400}),
     Invoices |-> Op("GET", {401, 500}, {400, 403})]

\* collectionaccesskeys/collectionaccesskeys.go
CollectionAccessKeys ==
    [List |-> Op("GET", {400, 401, 403, 500}, {}),
     Delete |-> WithoutBody(Op("DELETE", {401, 403, 500}, {404}))]

\* collectionfolders/collectionfolders.go
FolderComments ==
    [Get |-> Op("GET", {}, {401, 403, 404, 500}),
     Create |-> Op("POST", {}, {401, 403, 404, 500}),
     Update |-> Op("PUT", {}, {401, 403, 404, 500})]

FolderCommentDelete ==
    [Delete |-> WithoutBody(Op("DELETE", {}, {401, 403, 404, 500}))]

\* collectionitems/collectionitems.go
ItemFolders ==
    [CreateFolder |-> Op("POST", {500}, {400, 401}),
     GetFolder |-> Op("GET", {500}, {401, 404})]

ItemFolderChanges ==
    [UpdateFolder |-> Op("PUT", {500}, {400, 401, 404}),
     DeleteFolder |-> Op("DELETE", {500}, {401, 404})]

ItemRequests ==
    [CreateRequest |-> Op("POST", {500}, {400, 401}),
     GetRequest |-> Op("GET", {500}, {401, 404})]

ItemRequestChanges ==
    [UpdateRequest |-> Op("PUT", {500}, {400, 401, 404}),
     DeleteRequest |-> Op("DELETE", {500}, {401, 404})]

ItemResponses ==
    [CreateResponse |-> Op("POST", {500}, {400, 401}),
     GetResponse |-> Op("GET", {500}, {401, 404})]

ItemResponseChanges ==
    [UpdateResponse |-> Op("PUT", {500}, {400, 401, 404}),
     DeleteResponse |-> Op("DELETE", {500}, {401, 404})]

\* collectionrequests/collectionrequests.go
RequestComments ==
    [Get |-> Op("GET", {}, {401, 403, 404, 500}),
     Create |-> Op("POST", {}, {401, 403, 404, 500}),
     Update |-> Op("PUT", {}, {401, 403, 404, 500})]

RequestCommentDelete ==
    [Delete |-> WithoutBody(Op("DELETE", {}, {401, 403, 404, 500}))]

\* collectionresponses/collectionresponses.go
ResponseComments ==
    [Get |-> Op("GET", {}, {401, 403, 404, 500}),
     Create |-> Op("POST", {}, {401, 403, 404, 500}),
     Update |-> Op("PUT", {}, {401, 403, 404, 500})]

ResponseCommentDelete ==
    [Delete |-> WithoutBody(Op("DELETE", {}, {401, 403, 404, 500}))]

\* collections/collections.go
CollectionCreation ==
    [List |-> Op("GET", {401, 500}, {}),
     Create |-> EncodesInput(Op("POST", {401, 500}, {400}))]

CollectionForking ==
    [ForkedByUser |-> Op("GET", {401, 500}, {400}),
     Fork |-> Op("POST", {401, 500}, {404}),
     MergeFork |-> Op("POST", {401, 403, 500}, {404})]

CollectionAsyncMerge ==
    [MergeForkAsync |-> Op("PUT", {401, 500}, {400, 403}),
     MergeForkAsyncStatus |-> Op("GET", {401, 500}, {403, 404}),
     Get |-> Op("GET", {401, 500}, {400})]

CollectionChanges ==
    [Replace |-> EncodesInput(WithoutBody(
                    Op("PUT", {400, 401, 403, 404, 500}, {409}))),
     Update |-> Op("PATCH", {400, 401, 403, 500}, {404}),
     Delete |-> Op("DELETE", {401, 500}, {404})]

CollectionComments ==
    [Comments |-> Op("GET", {}, {401, 403, 404, 500}),
     CreateComment |-> Op("POST", {}, {401, 403, 404, 500}),
     UpdateComment |-> Op("PUT", {}, {401, 403, 404, 500}),
     DeleteComment |-> WithoutBody(Op("DELETE", {}, {401, 403, 404, 500}))]

CollectionDuplication ==
    [Duplicate |-> Op("POST", {400, 401, 403, 500}, {}),
     DuplicateStatus |-> Unhandled(Op("GET", {}, {400, 404}), {401, 403, 500}),
     Forks |-> Op("GET", {500}, {400, 404})]

CollectionDocs ==
    [PublishDocs |-> Op("PUT", {}, {400, 401, 403, 500}),
     UnpublishDocs |-> WithoutBody(Op("DELETE", {}, {400, 401, 404, 500})),
     Pull |-> Op("PUT", {500}, {400, 404})]

CollectionPullRequests ==
    [PullRequests |-> Op("GET", {500}, {403}),
     CreatePullRequest |-> Op("POST", {500}, {400, 403}),
     Roles |-> Op("GET", {401, 403, 500}, {404})]

CollectionRolesAndSource ==
    [UpdateRoles |-> WithoutBody(Op("PATCH", {401, 403, 500}, {400, 404})),
     SourceStatus |-> Op("GET", {500}, {400, 403}),
     TransformToOpenAPI |-> Op("GET", {}, {401, 404, 500})]

CollectionTransfers ==
    [TransferFolders |-> Op("POST", {500}, {400}),
     TransferRequests |-> Op("POST", {500}, {400}),
     TransferResponses |-> Op("POST", {500}, {400}),
     UpdateStatus |-> Op("GET", {401, 403, 500}, {})]

\* comments/comments.go
Comments ==
    [ResolveThread |-> WithoutBody(Op("POST", {}, {401, 404, 500}))]

\* components/components.go
ComponentCreation ==
    [List |-> ConvertsOutput(Op("GET", {401, 500}, {400})),
     Create |-> Op("POST", {401, 403, 500}, {400, 409})]

ComponentReading ==
    [Get |-> ConvertsOutput(Op("GET", {401, 403, 500}, {400, 404})),
     Update |-> Op("PATCH", {401, 403, 500}, {400, 404, 409}),
     Draft |-> Op("GET", {401, 403, 500}, {400, 404})]

ComponentVersions ==
    [UpdateDraft |-> Op("PATCH", {401, 403, 500}, {400, 404, 409}),
     Versions |-> Op("GET", {401, 403, 500}, {400, 404}),
     CreateVersion |-> Op("POST", {401, 403, 500}, {400, 404, 409})]

ComponentVersion ==
    [Version |-> Op("GET", {401, 403, 500}, {400, 404})]

\* environments/environments.go
EnvironmentCreation ==
    [List |-> Op("GET", {401, 404, 500}, {}),
     Create |-> Op("POST", {400, 401, 403, 500}, {411, 413})]

EnvironmentReplacement ==
    [Get |-> ConvertsOutput(Op("GET", {400, 401, 500}, {})),
     Replace |-> Op("PUT", {400, 401, 500}, {411, 413})]

EnvironmentPatching ==
    [Patch |-> ConvertsOutput(EncodesInput(
                  Op("PATCH", {404, 500}, {400, 403, 411, 413}))),
     Delete |-> Op("DELETE", {401, 404, 500}, {})]

EnvironmentForking ==
    [Forks |-> Op("GET", {401, 500}, {400, 404}),
     Fork |-> Op("POST", {401, 500}, {404}),
     Merge |-> Op("POST", {401, 500}, {400, 404})]

EnvironmentPulling ==
    [Pull |-> Op("POST", {401, 500}, {400, 404})]

\* groups/groups.go
Groups ==
    [List |-> Op("GET", {401, 403, 500}, {}),
     Get |-> Op("GET", {400, 401, 403, 500}, {404})]

\* imports/imports.go
Imports ==
    [FromOpenAPI |-> EncodesInput(Op("POST", {400, 401, 500}, {}))]

\* mocks/mocks.go
MockCreation ==
    [List |-> Op("GET", {401}, {500}),
     Create |-> Op("POST", {400, 401}, {500}),
     Get |-> Op("GET", {401}, {404, 500})]

MockChanges ==
    [Update |-> Op("PUT", {400, 401}, {404, 500}),
     Delete |-> Op("DELETE", {401}, {404, 500})]

MockPublication ==
    [CallLogs |-> Op("GET", {400, 401, 500}, {404}),
     Publish |-> Op("POST", {400, 401}, {404, 500}),
     Unpublish |-> Op("DELETE", {400, 401}, {404, 500})]

MockServerResponses ==
    [ServerResponses |-> Op("GET", {401, 500}, {404}),
     CreateServerResponse |-> Op("POST", {400, 401, 500}, {404}),
     ServerResponse |-> Op("GET", {401, 500}, {404})]

MockServerResponseChanges ==
    [UpdateServerResponse |-> Op("PUT", {400, 401, 500}, {404}),
     DeleteServerResponse |-> Op("DELETE", {401, 500}, {404})]

\* monitors/monitors.go
MonitorListing ==
    [List |-> Op("GET", {400, 401, 403, 500}, {404})]

MonitorCreation ==
    [Create |-> Op("POST", {400, 401, 403, 500}, {}),
     Get |-> Op("GET", {401, 403, 500}, {404})]

MonitorChanges ==
    [Update |-> Op("PUT", {400, 401, 403, 500}, {404}),
     Delete |-> Op("DELETE", {401, 403, 500}, {404}),
     Run |-> WithoutBody(Op("POST", {401, 403, 500}, {404}))]

MonitorRunners ==
    [RunnerInstances |-> Op("GET", {401, 403, 500}, {400, 404}),
     RunnerMetrics |-> Op("GET", {401, 403, 500}, {404})]

\* oauth2/oauth2.go
OAuth2 ==
    [Generate |-> Op("POST", {500}, {400, 404}),
     Revoke |-> Op("POST", {500}, {404})]

\* postbot/postbot.go
Postbot ==
    [GenerateTool |-> Op("POST", {500}, {400, 429})]

\* privateapinetwork/privateapinetwork.go
NetworkWorkspaces ==
    [List |-> Op("GET", {401, 403, 500}, {}),
     Add |-> Op("POST", {401, 403, 500}, {404})]

NetworkRemoval ==
    [Remove |-> Op("DELETE", {400, 401, 403, 500}, {404}),
     UpdateFolder |-> WithoutBody(Op("PUT", {401, 403, 500}, {404}))]

NetworkAddRequests ==
    [ListAddRequests |-> Op("GET", {400, 401, 403, 500}, {}),
     RespondAddRequest |-> Op("PUT", {400, 401, 403, 500}, {})]

\* pullrequests/pullrequests.go
PullRequestEditing ==
    [Get |-> Op("GET", {500}, {403}),
     Update |-> Op("PUT", {500}, {403, 409})]

PullRequestReview ==
    [Review |-> Op("POST", {500}, {400, 403})]

\* sdkgen/sdkgen.go
SdkListing ==
    [List |-> Op("GET", {401, 403, 500}, {400, 429})]

SdkBuilds ==
    [Generate |-> WithoutBody(Op("POST", {401, 403, 500}, {400, 422, 429})),
     Status |-> Op("GET", {401, 403, 500}, {404, 429})]

SdkArtifacts ==
    [Delete |-> WithoutBody(Op("DELETE", {401, 403, 500}, {404, 409, 429})),
     Download |-> Op("GET", {401, 403, 500}, {404, 409, 429})]

SdkGitConnections ==
    [GitConnections |-> Op("GET", {401, 403, 500}, {400, 429}),
     ConnectGit |-> Op("POST", {401, 403, 500}, {400, 409, 429}),
     GitConnection |-> Op("GET", {401, 403, 500}, {404, 429})]

SdkGitUpdates ==
    [UpdateGitConnection |-> Op("PUT", {401, 403, 500}, {400, 404, 422, 429}),
     GitConnectionPullRequests |-> Op("GET", {401, 403, 500}, {404, 429})]

\* search/search.go
Search ==
    [Query |-> Op("POST", {500}, {400})]

\* secretscanner/secretscanner.go
SecretQueries ==
    [Query |-> Op("POST", {400, 403}, {401, 500})]

SecretResolutions ==
    [UpdateResolution |-> Op("PUT", {403}, {400, 401, 500})]

SecretLocations ==
    [Locations |-> Op("GET", {403}, {400, 401, 500}),
     SecretTypes |-> Op("GET", {403}, {401, 500})]

\* serviceaccounts/serviceaccounts.go
ServiceAccounts ==
    [GenerateToken |-> Op("POST", {400, 500}, {401, 429})]

\* specs/specs.go
SpecCreation ==
    [List |-> Op("GET", {403, 500}, {400, 401}),
     Create |-> Op("POST", {403, 500}, {400, 401, 404})]

SpecChanges ==
    [Get |-> Op("GET", {403, 500}, {401, 404}),
     UpdateProperties |-> Op("PATCH", {403, 500}, {400, 401, 404}),
     Delete |-> WithoutBody(Op("DELETE", {403, 500}, {401, 404}))]

SpecFiles ==
    [Definition |-> WithoutBody(Op("GET", {403, 500}, {400, 401, 404})),
     Files |-> Op("GET", {403, 500}, {401, 404}),
     CreateFile |-> Op("POST", {403, 500}, {400, 401, 404})]

SpecFileChanges ==
    [File |-> Op("GET", {403, 500}, {400, 401, 404}),
     UpdateFile |-> Op("PATCH", {403, 500}, {400, 401, 404}),
     DeleteFile |-> WithoutBody(Op("DELETE", {403, 500}, {400, 401, 404}))]

SpecCollections ==
    [Collections |-> Op("GET", {403, 500}, {401, 404}),
     GenerateCollection |-> Op("POST", {403, 500}, {401, 404, 423})]

SpecSync ==
    [SyncWithCollection |-> Op("PUT", {403, 500}, {401, 404}),
     UpdateSyncOptions |-> Op("PATCH", {403, 500}, {400, 401, 404}),
     CollectionSpecs |-> Op("GET", {403, 500}, {404})]

SpecGeneration ==
    [GenerateFromCollection |-> Op("POST", {403, 500}, {404, 423}),
     SyncCollectionWithSpec |-> Op("PUT", {403, 500}, {404}),
     TaskStatus |-> Op("GET", {403, 500}, {401, 404})]

SpecVersionTags ==
    [VersionTag |-> Op("GET", {403, 500}, {401, 404}),
     VersionTags |-> Op("GET", {403, 500}, {401, 404})]

SpecVersionTagCreation ==
    [CreateVersionTag |-> Op("POST", {403, 500}, {400, 401, 404, 409})]

\* tags/tags.go
TagAssignments ==
    [Collection |-> Op("GET", {}, {401, 403, 500}),
     UpdateCollection |-> Op("PUT", {}, {400, 401, 403, 404, 500}),
     Workspace |-> Op("GET", {}, {401, 403, 404, 500}),
     UpdateWorkspace |-> Op("PUT", {}, {400, 401, 403, 404, 500})]

TaggedEntities ==
    [Entities |-> Op("GET", {}, {400, 401, 403, 404, 500})]

\* teams/teams.go
TeamDirectory ==
    [List |-> Op("GET", {400}, {401, 500}),
     Create |-> Op("POST", {400}, {401, 403, 500}),
     Get |-> Op("GET", {400}, {401, 500})]

TeamAccessRequests ==
    [AccessRequests |-> Op("GET", {400}, {401, 403, 500}),
     RequestAccess |-> Op("POST", {400}, {401, 500})]

TeamDecisions ==
    [DecideAccessRequest |-> Op("POST", {400}, {401, 403, 404, 500}),
     ManageMemberRoles |-> Op("POST", {400}, {401, 500})]

TeamSettings ==
    [RemoveMembers |-> WithoutBody(Op("DELETE", {400}, {401, 403, 500})),
     Settings |-> Op("GET", {400}, {401, 500}),
     UpdateSettings |-> Op("PUT", {400}, {401, 500})]

\* users/users.go
Users ==
    [Me |-> Op("GET", {401, 500}, {}),
     List |-> Op("GET", {401, 403, 500}, {}),
     Get |-> Op("GET", {400, 401, 403, 500}, {404})]

\* webhooks/webhooks.go
Webhooks ==
    [Create |-> Op("POST", {401, 500}, {400})]

\* workspaces/workspaces.go
WorkspacePartners ==
    [ManagePartnerInvites |-> Op("POST", {500}, {400, 401, 403, 404}),
     List |-> Op("GET", {400, 401, 500}, {})]

WorkspaceCreation ==
    [Create |-> Op("POST", {401, 500}, {400, 403}),
     AllRoles |-> Op("GET", {401, 403, 500}, {})]

WorkspaceChanges ==
    [Get |-> Op("GET", {401, 500}, {404}),
     Update |-> Op("PUT", {500}, {400, 403, 404})]

WorkspaceActivity ==
    [Delete |-> Op("DELETE", {401, 500}, {400}),
     ActivityFeed |-> Op("GET", {401, 403, 500}, {400, 404})]

WorkspaceGlobals ==
    [TransferElement |-> Op("POST", {500}, {400, 403, 404}),
     GlobalVariables |-> Op("GET", {}, {500}),
     UpdateGlobalVariables |-> Op("PUT", {}, {500})]

WorkspaceRoles ==
    [Roles |-> Op("GET", {401, 403, 500}, {404}),
     UpdateRoles |-> Op("PATCH", {401, 403, 500}, {400, 404, 422})]

WorkspaceTransfer ==
    [TransferToTeam |-> Op("PATCH", {}, {400, 401, 403, 404, 500}),
     Updates |-> Op("GET", {500}, {400, 401, 403, 404})]

WorkspaceUpdates ==
    [CreateUpdate |-> Op("POST", {500}, {400, 401, 403, 404, 422}),
     GetUpdate |-> Op("GET", {500}, {401, 403, 404})]

WorkspaceUpdateChanges ==
    [PatchUpdate |-> Op("PATCH", {500}, {400, 401, 403, 404, 422}),
     DeleteUpdate |-> WithoutBody(Op("DELETE", {500}, {401, 403, 404}))]

Catalog ==
    [analytics |-> Analytics,
     apisecurity |-> ApiSecurity,
     auditlogs |-> AuditLogs,
     billing |-> Billing,
     collectionaccesskeys |-> CollectionAccessKeys,
     collectionfolders |-> FolderComments @@ FolderCommentDelete,
     collectionitems |-> ItemFolders @@ ItemFolderChanges @@
                         ItemRequests @@ ItemRequestChanges @@
                        ItemResponses @@ ItemResponseChanges,
     collectionrequests |-> RequestComments @@ RequestCommentDelete,
     collectionresponses |-> ResponseComments @@ ResponseCommentDelete,
     collections |-> CollectionCreation @@ CollectionForking @@
                     CollectionAsyncMerge @@ CollectionChanges @@
                        CollectionComments @@ CollectionDuplication @@
                        CollectionDocs @@ CollectionPullRequests @@
                        CollectionRolesAndSource @@ CollectionTransfers,
     comments |-> Comments,
     components |-> ComponentCreation @@ ComponentReading @@
                    ComponentVersions @@ ComponentVersion,
     environments |-> EnvironmentCreation @@ EnvironmentReplacement @@
                      EnvironmentPatching @@ EnvironmentForking @@
                        EnvironmentPulling,
     groups |-> Groups,
     imports |-> Imports,
     mocks |-> MockCreation @@ MockChanges @@ MockPublication @@
               MockServerResponses @@ MockServerResponseChanges,
     monitors |-> MonitorListing @@ MonitorCreation @@ MonitorChanges @@
                  MonitorRunners,
     oauth2 |-> OAuth2,
     postbot |-> Postbot,
     privateapinetwork |-> NetworkWorkspaces @@ NetworkRemoval @@
                           NetworkAddRequests,
     pullrequests |-> PullRequestEditing @@ PullRequestReview,
     sdkgen |-> SdkListing @@ SdkBuilds @@ SdkArtifacts @@
                SdkGitConnections @@ SdkGitUpdates,
     search |-> Search,
     secretscanner |-> SecretQueries @@ SecretResolutions @@ SecretLocations,
     serviceaccounts |-> ServiceAccounts,
     specs |-> SpecCreation @@ SpecChanges @@ SpecFiles @@
               SpecFileChanges @@ SpecCollections @@ SpecSync @@
                        SpecGeneration @@ SpecVersionTags @@
                        SpecVersionTagCreation,
     tags |-> TagAssignments @@ TaggedEntities,
     teams |-> TeamDirectory @@ TeamAccessRequests @@ TeamDecisions @@
               TeamSettings,
     users |-> Users,
     webhooks |-> Webhooks,
     workspaces |-> WorkspacePartners @@ WorkspaceCreation @@
                    WorkspaceChanges @@ WorkspaceActivity @@
                        WorkspaceGlobals @@ WorkspaceRoles @@
                        WorkspaceTransfer @@ WorkspaceUpdates @@
                        WorkspaceUpdateChanges]

\* An operation is named by its service and its method.
OperationNames ==
    UNION {{<<service, method>> : method \in DOMAIN Catalog[service]} :
               service \in DOMAIN Catalog}

Row(name) == Catalog[name[1]][name[2]]

=============================================================================
