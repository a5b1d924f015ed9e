-------------------------- MODULE MCServerHandlers ---------------------------
(* Three requests: one with parameters and a body, whose encoder writes the *)
(* most statuses, one with neither, one whose success has no body.          *)
EXTENDS ServerHandlers, GeneratedServer

CONSTANTS rPatch, rMe, rDelete

MCRequests == {rPatch, rMe, rDelete}

MCHandles ==
    (rPatch :> handlePatchEnvironmentRequest) @@
    (rMe :> handleGetAuthenticatedUserRequest) @@
    (rDelete :> handleUnpublishDocumentationRequest)

\* The statuses of the document, and those of ErrorCode.
MCStatuses == {200, 400, 401, 403, 404, 409, 411, 413, 415, 422, 423, 429,
               500, 501}

\* Every generated handler is one that ServerHandlers is about: what its
\* encoder writes is among the statuses.
ASSUME GeneratedHandlersWrite ==
    \A op \in DOMAIN Server :
        \A type \in DOMAIN Server[op].encode.status :
            Server[op].encode.status[type] \in MCStatuses

=============================================================================
