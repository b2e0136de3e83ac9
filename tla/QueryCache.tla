----------------------------- MODULE QueryCache -----------------------------
(***************************************************************************)
(* The cache of server data in a tab of the browser (React Query), as the  *)
(* hooks of the front end use it: what every query reads and under which   *)
(* key, what every mutation writes and which keys it invalidates, patches  *)
(* or restores, and the workspace that requests are made for.              *)
(*                                                                         *)
(* The hooks and the functions they call are tables.  A behaviour is about *)
(* one query and one mutation that writes what the query reads.  Contents  *)
(* are abstracted to the set of the writes they reflect.                   *)
(***************************************************************************)
EXTENDS Naturals, FiniteSets, Sequences, SequencesExt

CONSTANTS
    Home, Other,    \* the workspace at first, and another one
    Jobs,           \* the mutations the user may start, by their number
    MaxActs,        \* bound on what the user does
    MaxTabs         \* bound on what the user does in another tab

ASSUME WorkspaceAssumption == Home # Other
ASSUME JobAssumption == Jobs \subseteq Nat \ {0} /\ IsFiniteSet(Jobs)
ASSUME BoundAssumption == MaxActs \in Nat /\ MaxTabs \in Nat

Workspaces == {Home, Other}

-----------------------------------------------------------------------------
(* The requests, by the function that makes them.                          *)
(*   scope   where the server finds the workspace: in the header, which    *)
(*           holds the stored one, in the path, or nowhere                 *)
(*   row     whether the request names a row of a workspace                *)
(*   facts   what a GET reads and what other methods write                 *)

Request(scope, row, facts) == [scope |-> scope, row |-> row, facts |-> facts]
InHeader(facts) == Request("header", FALSE, facts)
OnRow(facts)    == Request("header", TRUE, facts)
InPath(facts)   == Request("path", FALSE, facts)
OfUser(facts)   == Request("user", FALSE, facts)

\* Discovery is only queued, and finds packages later.
PackagesApi ==
    [getPackages           |-> InHeader({"packages"}),
     getPackage            |-> OnRow({"packages"}),
     createPackage         |-> InHeader({"packages"}),
     deletePackage         |-> OnRow({"packages"}),
     blockPackage          |-> OnRow({"packages"}),
     unblockPackage        |-> OnRow({"packages"}),
     getPackageReleases    |-> OnRow({"releases"}),
     discoverPackages      |-> InHeader({}),
     bulkImportPackages    |-> InHeader({"packages"}),
     getAnalysisHistory    |-> OnRow({"releases"}),
     getPackageSuggestions |-> InHeader({"suggestions"}),
     approvePackage        |-> OnRow({"packages", "suggestions"}),
     rejectPackage         |-> OnRow({"suggestions"}),
     bulkApprovePackages   |-> InHeader({"packages", "suggestions"}),
     getStalePackages      |-> InHeader({"packages"})]

AlertsApi ==
    [getAlerts         |-> InHeader({"alerts"}),
     getAlert          |-> OnRow({"alerts"}),
     updateAlertStatus |-> OnRow({"alerts"}),
     getAlertNotes     |-> OnRow({"notes"}),
     createAlertNote   |-> OnRow({"notes"}),
     updateAlertNote   |-> OnRow({"notes"}),
     deleteAlertNote   |-> OnRow({"notes"})]

\* To analyse a release anew is to set its status back at once.
ReleasesApi ==
    [getRelease        |-> OnRow({"releases"}),
     reanalyzeRelease  |-> OnRow({"releases", "queue"}),
     getPipelineStatus |-> InHeader({"releases"}),
     getReleaseHashes  |-> OnRow({"hashes"})]

DashboardApi ==
    [getDashboardStats |-> InHeader({"packages", "releases", "alerts"}),
     getChartData      |-> InHeader({"releases", "alerts"}),
     getRecentReleases |-> InHeader({"releases"})]

SettingsApi ==
    [getSettings    |-> InHeader({"settings"}),
     updateSettings |-> InHeader({"settings"}),
     reanalyzeAll   |-> InHeader({"queue"})]

\* The queue is the same for all workspaces.
QueueApi ==
    [getQueueStats |-> OfUser({"queue"}),
     getQueueJobs  |-> OfUser({"queue"}),
     retryDeadJobs |-> OfUser({"queue"}),
     retryDeadJob  |-> OfUser({"queue"})]

\* The rules of a channel are deleted with it.
NotificationsApi ==
    [apiGetUnreadCount           |-> InHeader({"notifications"}),
     apiListNotifications        |-> InHeader({"notifications"}),
     apiMarkNotificationRead     |-> OnRow({"notifications"}),
     apiMarkAllNotificationsRead |-> InHeader({"notifications"}),
     apiListChannels             |-> InPath({"channels"}),
     apiCreateChannel            |-> InPath({"channels"}),
     apiUpdateChannel            |-> InPath({"channels"}),
     apiDeleteChannel            |-> InPath({"channels", "rules"}),
     apiListRules                |-> InPath({"rules"}),
     apiCreateRule               |-> InPath({"rules"}),
     apiDeleteNotification       |-> OnRow({"notifications"}),
     apiDeleteAllNotifications   |-> InHeader({"notifications"}),
     apiDeleteBatchNotifications |-> OnRow({"notifications"}),
     apiDeleteRule               |-> InPath({"rules"})]

AdminApi ==
    [apiGetWorkspaces            |-> OfUser({"workspaces"}),
     apiGetWorkspace             |-> InPath({"workspaces"}),
     apiUpdateWorkspace          |-> InPath({"workspaces"}),
     apiDeleteWorkspace          |-> InPath({"workspaces"}),
     apiGetWorkspaceMembers      |-> InPath({"members"}),
     apiInviteMember             |-> InPath({"invitations"}),
     apiRemoveMember             |-> InPath({"members"}),
     apiUpdateMemberRole         |-> InPath({"members"}),
     apiGetWorkspaceRoles        |-> InPath({"roles"}),
     apiGetPendingInvitations    |-> InPath({"invitations"}),
     apiRevokeInvitation         |-> InPath({"invitations"}),
     apiGetAuditLogs             |-> InPath({"audit"}),
     apiGetInvitationByToken     |-> OfUser({"invitation"}),
     apiResendInvitation         |-> InPath({"invitations"}),
     apiAddMember                |-> InPath({"members"}),
     apiGetMyInvitations         |-> OfUser({"mine"}),
     apiAcceptInvitationById     |-> OfUser({"mine", "workspaces"}),
     apiDeclineInvitationById    |-> OfUser({"mine"}),
     apiAcceptInvitation         |-> OfUser({"mine", "workspaces", "invitation"}),
     apiDeclineInvitationByToken |-> OfUser({"mine", "invitation"})]

\* Whether accounts may register is part of the public configuration.
PlatformAdminApi ==
    [apiGetAuthSettings      |-> OfUser({"registration"}),
     apiUpdateAuthSettings   |-> OfUser({"registration"}),
     apiGetPlatformUsers     |-> OfUser({"users"}),
     apiGetPlatformUser      |-> OfUser({"users"}),
     apiUpdatePlatformUser   |-> OfUser({"users"}),
     apiGetPlatformAuditLogs |-> OfUser({"audit"})]

SSOApi ==
    [apiGetSSOProviders         |-> OfUser({"sso"}),
     apiGetLinkedIdentities     |-> OfUser({"identities"}),
     apiUnlinkIdentity          |-> OfUser({"identities"}),
     apiGetPlatformSSOConfigs   |-> OfUser({"sso"}),
     apiGetPlatformSSOConfig    |-> OfUser({"sso"}),
     apiCreatePlatformSSOConfig |-> OfUser({"sso"}),
     apiUpdatePlatformSSOConfig |-> OfUser({"sso"}),
     apiDeletePlatformSSOConfig |-> OfUser({"sso", "identities"})]

AccountApi ==
    [apiGetApiKeys   |-> InHeader({"keys"}),
     apiCreateApiKey |-> InHeader({"keys"}),
     apiDeleteApiKey |-> OnRow({"keys"})]

SessionsApi ==
    [apiGetSessions   |-> OfUser({"sessions"}),
     apiRevokeSession |-> OfUser({"sessions"})]

-----------------------------------------------------------------------------
(* The hooks that read.                                                    *)
(*   key     the key without the workspace that keys of path requests end  *)
(*           with                                                          *)
(*   polls   whether it is requested again at intervals, whoever asks for  *)
(*           it                                                            *)

Reads(request, key) == [request |-> request, key |-> key, polls |-> FALSE]
Polls(request, key) == [request |-> request, key |-> key, polls |-> TRUE]

PackageQueries ==
    [packages    |-> Reads(PackagesApi.getPackages, <<"packages", "list", "params">>),
     package     |-> Reads(PackagesApi.getPackage, <<"packages", "detail", "id">>),
     packageReleases |-> Reads(PackagesApi.getPackageReleases, <<"packages", "releases", "id", "page">>)]

AnalysisQueries ==
    [analysisHistory |-> Reads(PackagesApi.getAnalysisHistory, <<"packages", "analysis-history", "id">>),
     suggestions     |-> Reads(PackagesApi.getPackageSuggestions, <<"packages", "suggestions", "params">>)]

StaleQueries ==
    [stalePackages   |-> Reads(PackagesApi.getStalePackages, <<"packages", "stale", "params">>),
     suggestionCount |-> Reads(PackagesApi.getPackageSuggestions, <<"packages", "suggestion-count">>)]

\* Polled only while an answer shows active releases.
PipelineQueries ==
    [pipelineStatus |-> Reads(ReleasesApi.getPipelineStatus, <<"pipeline-status">>)]

AlertQueries ==
    [alert  |-> Reads(AlertsApi.getAlert, <<"alerts", "detail", "id">>),
     alerts |-> Reads(AlertsApi.getAlerts, <<"alerts", "list", "params">>)]

NoteQueries == [notes |-> Reads(AlertsApi.getAlertNotes, <<"alerts", "notes", "id">>)]

ReleaseQueries ==
    [releases      |-> Reads(DashboardApi.getRecentReleases, <<"releases", "list", "params">>),
     release       |-> Reads(ReleasesApi.getRelease, <<"releases", "detail", "id">>),
     releaseHashes |-> Reads(ReleasesApi.getReleaseHashes, <<"releases", "hashes", "id">>)]

\* The dashboard polls unless that is switched off.
DashboardQueries ==
    [dashboardStats    |-> Polls(DashboardApi.getDashboardStats, <<"dashboard", "stats">>),
     dashboardCharts   |-> Polls(DashboardApi.getChartData, <<"dashboard", "charts", "params">>),
     dashboardReleases |-> Polls(DashboardApi.getRecentReleases, <<"dashboard", "recent-releases", "params">>),
     dashboardStale    |-> Polls(PackagesApi.getStalePackages, <<"dashboard", "stale-packages", "months">>),
     dashboardSettings |-> Polls(SettingsApi.getSettings, <<"settings">>)]

PendingQueries ==
    [pendingSuggestions |->
        Reads(PackagesApi.getPackageSuggestions, <<"dashboard", "pending-suggestions-count">>)]

ShellQueries == [shellStats |-> Polls(DashboardApi.getDashboardStats, <<"shell", "stats">>)]

\* packageSummary asks for packages and suggestions at once.
SettingsQueries ==
    [settings       |-> Reads(SettingsApi.getSettings, <<"settings">>),
     packageSummary |-> Reads(InHeader({"packages", "suggestions"}), <<"settings", "package-summary">>)]

QueueQueries ==
    [queueStats |-> Polls(QueueApi.getQueueStats, <<"queue", "stats">>),
     queueJobs  |-> Polls(QueueApi.getQueueJobs, <<"queue", "jobs", "params">>)]

NotificationQueries ==
    [unreadCount   |-> Polls(NotificationsApi.apiGetUnreadCount, <<"notifications", "unread-count">>),
     notifications |-> Reads(NotificationsApi.apiListNotifications, <<"notifications", "list", "params">>)]

ChannelQueries == [channels |-> Reads(NotificationsApi.apiListChannels, <<"channels", "list">>)]
RuleQueries    == [rules |-> Reads(NotificationsApi.apiListRules, <<"rules", "list">>)]

WorkspaceQueries ==
    [workspaces |-> Reads(AdminApi.apiGetWorkspaces, <<"workspaces", "list", "params">>),
     workspace  |-> Reads(AdminApi.apiGetWorkspace, <<"workspaces", "detail">>)]

MemberQueries ==
    [members |-> Reads(AdminApi.apiGetWorkspaceMembers, <<"workspaces", "members">>),
     roles   |-> Reads(AdminApi.apiGetWorkspaceRoles, <<"workspaces", "roles">>)]

InvitationQueries == [invitations |-> Reads(AdminApi.apiGetPendingInvitations, <<"workspaces", "invitations">>)]
AuditQueries      == [auditLogs |-> Reads(AdminApi.apiGetAuditLogs, <<"workspaces", "audit-logs">>)]
RoleQueries       == [currentRole |-> Reads(InPath({"members"}), <<"workspace-role", "current">>)]
MyInvitationQueries == [myInvitations |-> Reads(AdminApi.apiGetMyInvitations, <<"my-invitations">>)]
InvitationByToken   == [invitation |-> Reads(AdminApi.apiGetInvitationByToken, <<"invitation", "token">>)]
OnboardingQueries   == [onboardingCheck |-> Reads(AdminApi.apiGetMyInvitations, <<"onboarding", "check">>)]
ConfigQueries       == [publicConfig |-> Reads(OfUser({"registration"}), <<"public-config">>)]

AccountQueries == [apiKeys |-> Reads(AccountApi.apiGetApiKeys, <<"api-keys", "list">>)]
SessionQueries == [sessions |-> Reads(SessionsApi.apiGetSessions, <<"sessions", "list">>)]

PlatformQueries ==
    [platformUsers |-> Reads(PlatformAdminApi.apiGetPlatformUsers, <<"platform-admin", "users", "params">>),
     platformUser  |-> Reads(PlatformAdminApi.apiGetPlatformUser, <<"platform-admin", "user", "id">>)]

AuthSettingsQueries ==
    [authSettings |-> Reads(PlatformAdminApi.apiGetAuthSettings, <<"platform-admin", "auth-settings">>)]

SSOQueries ==
    [ssoConfigs |-> Reads(SSOApi.apiGetPlatformSSOConfigs, <<"sso", "configs">>),
     ssoConfig  |-> Reads(SSOApi.apiGetPlatformSSOConfig, <<"sso", "config", "id">>)]

IdentityQueries == [identities |-> Reads(SSOApi.apiGetLinkedIdentities, <<"sso", "identities">>)]
ProviderQueries == [ssoProviders |-> Reads(SSOApi.apiGetSSOProviders, <<"sso", "providers">>)]

-----------------------------------------------------------------------------
(* The hooks that write.                                                   *)
(*   hits      prefixes of the keys invalidated after success, or, if      *)
(*             settles, after success and failure                          *)
(*   cancels   prefixes of the keys whose requests are given up at first   *)
(*   saves     prefixes of the keys whose data is put back after a failure *)
(*   patches   prefixes of the keys whose data is changed at once          *)
(*   sets      the keys whose data is replaced by the answer               *)

Writes(request, hits) ==
    [request |-> request, hits |-> hits, settles |-> FALSE,
     cancels |-> {}, saves |-> {}, patches |-> {}, sets |-> {}]

PackageLists == <<"packages", "list">>

PackageWrites ==
    [createPackage      |-> Writes(PackagesApi.createPackage, {PackageLists}),
     deletePackage      |-> Writes(PackagesApi.deletePackage, {PackageLists}),
     blockPackage       |-> Writes(PackagesApi.blockPackage, {PackageLists}),
     unblockPackage     |-> Writes(PackagesApi.unblockPackage, {PackageLists}),
     discoverPackages   |-> Writes(PackagesApi.discoverPackages, {PackageLists}),
     bulkImportPackages |-> Writes(PackagesApi.bulkImportPackages, {PackageLists})]

\* Mutant: as for the other packages, only the lists are invalidated.
SuggestionWrites_ListsOnly ==
    [approvePackage      |-> Writes(PackagesApi.approvePackage, {PackageLists}),
     rejectPackage       |-> Writes(PackagesApi.rejectPackage, {PackageLists}),
     bulkApprovePackages |-> Writes(PackagesApi.bulkApprovePackages, {PackageLists})]

SuggestionWrites ==
    [approvePackage      |-> Writes(PackagesApi.approvePackage, {<<"packages">>}),
     rejectPackage       |-> Writes(PackagesApi.rejectPackage, {<<"packages">>}),
     bulkApprovePackages |-> Writes(PackagesApi.bulkApprovePackages, {<<"packages">>})]

AlertLists == {<<"alerts", "list">>}

AlertWrites ==
    [updateAlert |-> [Writes(AlertsApi.updateAlertStatus, AlertLists) EXCEPT
                        !.settles = TRUE, !.cancels = AlertLists, !.saves = AlertLists, !.patches = AlertLists]]

NoteWrites ==
    LET notes == {<<"alerts", "notes", "id">>}
    IN  [createNote |-> Writes(AlertsApi.createAlertNote, notes),
         updateNote |-> Writes(AlertsApi.updateAlertNote, notes),
         deleteNote |-> Writes(AlertsApi.deleteAlertNote, notes)]

ReleaseWrites ==
    [reanalyzeRelease |-> Writes(ReleasesApi.reanalyzeRelease, {<<"releases", "detail", "id">>})]

SettingsWrites ==
    [updateSettings |-> [Writes(SettingsApi.updateSettings, {}) EXCEPT !.sets = {<<"settings">>}],
     reanalyzeAll   |-> Writes(SettingsApi.reanalyzeAll, {}),
     discoverNow    |-> Writes(PackagesApi.discoverPackages,
                               {<<"packages">>, <<"settings", "package-summary">>})]

QueueWrites ==
    [retryDeadJobs |-> Writes(QueueApi.retryDeadJobs, {<<"queue">>}),
     retryDeadJob  |-> Writes(QueueApi.retryDeadJob, {<<"queue">>})]

\* notificationKeys.list() is a key that ends with undefined: it is the prefix
\* of no key of a list, and of the key of the unread count neither.
NotificationLists == <<"notifications", "list", "undefined">>
UnreadCount       == <<"notifications", "unread-count">>

Optimistic(request, saves) ==
    [Writes(request, {<<"notifications">>}) EXCEPT
       !.settles = TRUE, !.cancels = {<<"notifications">>},
       !.saves = saves \cup {UnreadCount}, !.patches = {NotificationLists, UnreadCount}]

MarkRead ==
    [markNotificationRead |-> Optimistic(NotificationsApi.apiMarkNotificationRead, {<<"notifications">>})]

MarkAllRead ==
    [markAllNotificationsRead |-> Optimistic(NotificationsApi.apiMarkAllNotificationsRead, {<<"notifications">>})]

DeleteOne ==
    [deleteNotification |-> Optimistic(NotificationsApi.apiDeleteNotification, {NotificationLists})]

DeleteAll ==
    [deleteAllNotifications |-> Optimistic(NotificationsApi.apiDeleteAllNotifications, {NotificationLists})]

\* The unread ones among the deleted are counted in the lists that match, so
\* that the count is never changed.
DeleteBatch ==
    [deleteBatchNotifications |->
       [Optimistic(NotificationsApi.apiDeleteBatchNotifications, {NotificationLists}) EXCEPT
          !.patches = {NotificationLists}]]

ChannelWrites ==
    LET lists == {<<"channels", "list">>}
    IN  [createChannel |-> Writes(NotificationsApi.apiCreateChannel, lists),
         updateChannel |-> Writes(NotificationsApi.apiUpdateChannel, lists),
         deleteChannel |-> Writes(NotificationsApi.apiDeleteChannel, lists)]

RuleWrites ==
    [createRule |-> Writes(NotificationsApi.apiCreateRule, {<<"rules", "list">>}),
     deleteRule |-> Writes(NotificationsApi.apiDeleteRule, {<<"rules", "list">>})]

WorkspaceWrites ==
    LET lists == <<"workspaces", "list">>
    IN  [updateWorkspace |-> Writes(AdminApi.apiUpdateWorkspace, {<<"workspaces", "detail">>, lists}),
         deleteWorkspace |-> Writes(AdminApi.apiDeleteWorkspace, {lists})]

InvitationWrites ==
    LET invitations == <<"workspaces", "invitations">>
    IN  [inviteMember     |-> Writes(AdminApi.apiInviteMember, {<<"workspaces", "members">>, invitations}),
         revokeInvitation |-> Writes(AdminApi.apiRevokeInvitation, {invitations}),
         resendInvitation |-> Writes(AdminApi.apiResendInvitation, {invitations})]

MemberWrites ==
    LET members == {<<"workspaces", "members">>}
    IN  [removeMember     |-> Writes(AdminApi.apiRemoveMember, members),
         updateMemberRole |-> Writes(AdminApi.apiUpdateMemberRole, members)]

AddMemberWrites == [addMember |-> Writes(AdminApi.apiAddMember, {<<"workspaces", "members">>})]

MyInvitationWrites ==
    [acceptInvitation  |-> Writes(AdminApi.apiAcceptInvitationById, {<<"my-invitations">>}),
     declineInvitation |-> Writes(AdminApi.apiDeclineInvitationById, {<<"my-invitations">>})]

TokenWrites ==
    [acceptByToken  |-> Writes(AdminApi.apiAcceptInvitation, {}),
     declineByToken |-> Writes(AdminApi.apiDeclineInvitationByToken, {})]

AccountWrites ==
    [createApiKey |-> Writes(AccountApi.apiCreateApiKey, {<<"api-keys", "list">>}),
     deleteApiKey |-> Writes(AccountApi.apiDeleteApiKey, {<<"api-keys", "list">>})]

SessionWrites == [revokeSession |-> Writes(SessionsApi.apiRevokeSession, {<<"sessions", "list">>})]

PlatformWrites ==
    [updatePlatformUser |-> Writes(PlatformAdminApi.apiUpdatePlatformUser, {<<"platform-admin">>})]

AuthSettingsWrites ==
    [updateAuthSettings |-> Writes(PlatformAdminApi.apiUpdateAuthSettings, {<<"platform-admin", "auth-settings">>})]

SSOWrites ==
    LET shown == {<<"sso", "configs">>, <<"sso", "providers">>}
    IN  [createSSOConfig |-> Writes(SSOApi.apiCreatePlatformSSOConfig, shown),
         updateSSOConfig |-> Writes(SSOApi.apiUpdatePlatformSSOConfig, shown \cup {<<"sso", "config", "id">>}),
         deleteSSOConfig |-> Writes(SSOApi.apiDeletePlatformSSOConfig, shown \cup {<<"sso", "identities">>})]

IdentityWrites == [unlinkIdentity |-> Writes(SSOApi.apiUnlinkIdentity, {<<"sso", "identities">>})]

-----------------------------------------------------------------------------
Merged(tables) ==
    LET names == UNION {DOMAIN t : t \in tables}
    IN  [n \in names |-> (CHOOSE t \in tables : n \in DOMAIN t)[n]]

Queries ==
    Merged({PackageQueries, AnalysisQueries, StaleQueries, PipelineQueries, AlertQueries, NoteQueries,
            ReleaseQueries, DashboardQueries, PendingQueries, ShellQueries, SettingsQueries, QueueQueries,
            NotificationQueries, ChannelQueries, RuleQueries, WorkspaceQueries, MemberQueries,
            InvitationQueries, AuditQueries, RoleQueries, MyInvitationQueries, InvitationByToken,
            OnboardingQueries, ConfigQueries, AccountQueries, SessionQueries, PlatformQueries,
            AuthSettingsQueries, SSOQueries, IdentityQueries, ProviderQueries})

Mutations ==
    Merged({PackageWrites, SuggestionWrites, AlertWrites, NoteWrites, ReleaseWrites, SettingsWrites,
            QueueWrites, MarkRead, MarkAllRead, DeleteOne, DeleteAll, DeleteBatch, ChannelWrites,
            RuleWrites, WorkspaceWrites, InvitationWrites, MemberWrites, AddMemberWrites,
            MyInvitationWrites, TokenWrites, AccountWrites, SessionWrites, PlatformWrites,
            AuthSettingsWrites, SSOWrites, IdentityWrites})

-----------------------------------------------------------------------------
(* The pages: the queries whose data a page shows and the mutations it     *)
(* offers.                                                                 *)

On(mounts, offers) == [mounts |-> mounts, offers |-> offers]

PackagesPage ==
    On({"packages", "suggestionCount", "pipelineStatus", "currentRole"},
       {"createPackage", "deletePackage", "blockPackage", "unblockPackage", "discoverPackages"})
SuggestionsPage   == On({"suggestions", "currentRole"}, {"approvePackage", "rejectPackage", "bulkApprovePackages"})
AlertsPage        == On({"alerts", "currentRole"}, {"updateAlert"})
AlertPage         == On({"alert", "notes", "currentRole"}, {"updateAlert", "createNote", "updateNote", "deleteNote"})
ReleasePage       == On({"release", "releaseHashes", "currentRole"}, {"reanalyzeRelease"})
SettingsPage      == On({"settings", "packageSummary", "currentRole"}, {"updateSettings", "discoverNow"})
QueuePage         == On({"queueStats", "queueJobs", "currentRole"}, {"reanalyzeAll", "retryDeadJobs", "retryDeadJob"})
NotificationsPage == On({"notifications", "unreadCount"},
                        DOMAIN MarkRead \cup DOMAIN MarkAllRead \cup DOMAIN DeleteOne \cup DOMAIN DeleteAll
                          \cup DOMAIN DeleteBatch)
ChannelsPage      == On({"channels", "rules"}, DOMAIN ChannelWrites \cup DOMAIN RuleWrites)
WorkspacePage     == On({"workspace", "members", "roles", "invitations"},
                        DOMAIN WorkspaceWrites \cup DOMAIN InvitationWrites \cup DOMAIN MemberWrites
                          \cup DOMAIN AddMemberWrites)
InvitationsPage   == On({"myInvitations"}, DOMAIN MyInvitationWrites)
ApiKeysPage       == On({"apiKeys"}, DOMAIN AccountWrites)
SessionsPage      == On({"sessions"}, DOMAIN SessionWrites)
UsersPage         == On({"platformUsers"}, DOMAIN PlatformWrites)
SecurityPage      == On({"ssoConfigs", "authSettings"}, DOMAIN SSOWrites \cup DOMAIN AuthSettingsWrites)
AccountPage       == On({"identities", "ssoProviders"}, DOMAIN IdentityWrites)

Pages == {PackagesPage, SuggestionsPage, AlertsPage, AlertPage, ReleasePage, SettingsPage, QueuePage,
          NotificationsPage, ChannelsPage, WorkspacePage, InvitationsPage, ApiKeysPage, SessionsPage,
          UsersPage, SecurityPage, AccountPage}

\* The mutations and queries of one page of which the mutation writes what the
\* query reads.
Together ==
    {p \in [mutation : DOMAIN Mutations, query : DOMAIN Queries] :
        /\ \E page \in Pages : p.mutation \in page.offers /\ p.query \in page.mounts
        /\ Mutations[p.mutation].request.facts \cap Queries[p.query].request.facts # {}}

-----------------------------------------------------------------------------
VARIABLES
    pair,      \* the mutation and the query the behaviour is about
    server,    \* the writes done in each workspace, and outside of any
    cache,     \* what the cache holds under each key of the query
    flight,    \* the request for each key
    jobs,      \* the mutations
    tab,       \* the workspace the tab shows
    stored,    \* the workspace stored in the browser, for all tabs
    mounted,   \* whether the page of the query is open
    acts, tabs \* how often the user acted, here and in other tabs

context == <<pair, tab, stored, mounted>>
bounds  == <<acts, tabs>>
vars    == <<server, cache, flight, jobs, context, bounds>>

q == Queries[pair.query]
m == Mutations[pair.mutation]
Scope == q.request.scope

\* Only the keys of path requests name the workspace.
Keys == IF Scope = "path" THEN Workspaces ELSE {"all"}
KeyOf(w) == IF Scope = "path" THEN w ELSE "all"
Key == KeyOf(tab)

Place(scope, header, path) ==
    CASE scope = "header" -> header [] scope = "path" -> path [] scope = "user" -> "user"

Matches(prefixes) == \E p \in prefixes : IsPrefix(p, q.key)

Absent  == [held |-> FALSE, ws |-> "user", data |-> {}, invalid |-> FALSE, early |-> FALSE]
NoFlight == [stage |-> "none", ws |-> "user", data |-> {}, retried |-> FALSE, overtaken |-> FALSE]
Idle    == [stage |-> "idle", ws |-> "user", row |-> "user", data |-> {}, saved |-> Absent, here |-> TRUE]

\* Mutant: the header of the workspace is left out.
Sent_NoHeader(k, w) == [NoFlight EXCEPT !.stage = "sent", !.ws = Place(Scope, "none", k)]

\* A request that is sent when w is the stored workspace.
Sent(k, w) == [NoFlight EXCEPT !.stage = "sent", !.ws = Place(Scope, w, k)]

-----------------------------------------------------------------------------
(* What the library does.                                                  *)

\* A component that shows the query asks for it; a request under way will do.
Fetch(k, w) == IF flight[k].stage = "none" THEN Sent(k, w) ELSE flight[k]

\* The keys ks are invalidated when the cache is c: their data is marked, and
\* the query that is shown is requested again.  A request under way is given up
\* only if there is data, and never if the query is not shown.
Invalidated(c, ks) ==
    [k \in Keys |-> IF k \in ks /\ c[k].held THEN [c[k] EXCEPT !.invalid = TRUE] ELSE c[k]]
Renewed(c, ks, w) ==
    [k \in Keys |->
        CASE k \notin ks -> flight[k]
          [] k \in ks /\ mounted /\ k = Key /\ (flight[k].stage = "none" \/ c[k].held) -> Sent(k, w)
          [] OTHER -> [flight[k] EXCEPT !.overtaken = flight[k].stage # "none"]]

-----------------------------------------------------------------------------
Init ==
    /\ pair \in Together
    /\ server = [p \in Workspaces \cup {"user"} |-> {}]
    /\ tab = Home /\ stored = Home /\ mounted = TRUE
    /\ cache \in {[k \in Keys |-> Absent],
                  [k \in Keys |-> IF k = Key THEN [Absent EXCEPT !.held = TRUE, !.ws = Place(Scope, Home, Home)]
                                             ELSE Absent]}
    /\ flight = [k \in Keys |-> IF k = Key THEN Sent(k, Home) ELSE NoFlight]
    /\ jobs = [i \in Jobs |-> Idle]
    /\ acts = 0 /\ tabs = 0

Act == acts < MaxActs /\ acts' = acts + 1 /\ UNCHANGED tabs

\* The mutations whose buttons stay enabled while one is under way; the others
\* wait for its end, unless the page is opened anew.
Overlapping == {"deletePackage", "blockPackage", "unblockPackage", "updateAlert", "removeMember",
                "updateMemberRole", "deleteApiKey", "deleteNote", "unlinkIdentity"}

UnderWay == {"sent", "applied", "refused"}

MayStart(i) ==
    /\ jobs[i].stage = "idle"
    /\ pair.mutation \in Overlapping \/ \A o \in Jobs : jobs[o].stage \in UnderWay => ~jobs[o].here

\* The user starts a mutation: onMutate gives up requests, keeps what it will put
\* back after a failure and changes the data, and the request is sent.
Start(i) ==
    /\ Act /\ mounted
    /\ MayStart(i)
    /\ LET e  == cache[Key]
           ws == Place(m.request.scope, stored, tab)
       IN  /\ jobs' = [jobs EXCEPT ![i] =
                [Idle EXCEPT !.stage = "sent", !.ws = ws,
                             !.row = IF ~m.request.row THEN ws ELSE IF e.held /\ Scope = "header" THEN e.ws ELSE Home,
                             !.saved = IF Matches(m.saves) THEN e ELSE Absent]]
           /\ cache' = [cache EXCEPT ![Key].data = IF e.held /\ Matches(m.patches) THEN @ \cup {i} ELSE @]
           /\ flight' = IF Matches(m.cancels) THEN [flight EXCEPT ![Key] = NoFlight] ELSE flight
    /\ UNCHANGED <<server, context>>

\* The server does what it is asked, or refuses; it refuses a row of another
\* workspace.
WrittenAt(w) ==
    CASE Scope = "user"       -> {"user"}
      [] w \in Workspaces     -> {w}
      [] OTHER                -> Workspaces

Perform(i) ==
    /\ jobs[i].stage = "sent" /\ jobs[i].ws = jobs[i].row
    /\ server' = [p \in DOMAIN server |-> IF p \in WrittenAt(jobs[i].ws) THEN server[p] \cup {i} ELSE server[p]]
    /\ jobs' = [jobs EXCEPT ![i].stage = "applied",
                            ![i].data = UNION {server'[p] : p \in WrittenAt(jobs[i].ws)}]
    /\ UNCHANGED <<cache, flight, context, bounds>>

Refuse(i) ==
    /\ jobs[i].stage = "sent"
    /\ jobs' = [jobs EXCEPT ![i].stage = "refused"]
    /\ UNCHANGED <<server, cache, flight, context, bounds>>

\* The keys that the hits of job i name: those of path requests name the workspace.
Hit(i) == IF ~Matches(m.hits) THEN {} ELSE IF Scope = "path" /\ m.request.scope = "path" THEN {jobs[i].ws} ELSE Keys

\* onSuccess and onSettled.
Succeed(i) ==
    /\ jobs[i].stage = "applied"
    /\ jobs' = [jobs EXCEPT ![i].stage = "done"]
    /\ IF q.key \in m.sets
         THEN /\ cache' = [cache EXCEPT ![Key] = [held |-> TRUE, ws |-> jobs[i].ws, data |-> jobs[i].data,
                                                  invalid |-> FALSE,
                                                  early |-> jobs[i].ws # tab \/ \E o \in Jobs : ~jobs[o].here]]
              /\ flight' = [flight EXCEPT ![Key].overtaken = @ \/ flight[Key].stage # "none"]
         ELSE /\ cache' = Invalidated(cache, Hit(i))
              /\ flight' = Renewed(cache, Hit(i), stored)
    /\ UNCHANGED <<server, context, bounds>>

\* Mutant: onSuccess instead of onSettled, and nothing is put back.
Fail_KeepsPatch(i) ==
    /\ jobs[i].stage \in {"applied", "refused"}
    /\ jobs' = [jobs EXCEPT ![i].stage = "failed"]
    /\ UNCHANGED <<server, cache, flight, context, bounds>>

\* onError and onSettled: the server refused, or its answer was lost.
Fail(i) ==
    /\ jobs[i].stage \in {"applied", "refused"}
    /\ jobs' = [jobs EXCEPT ![i].stage = "failed"]
    /\ LET back == IF jobs[i].saved.held
                     THEN [cache EXCEPT ![Key] = [jobs[i].saved EXCEPT !.invalid = FALSE]]
                     ELSE cache
           ks   == IF m.settles THEN Hit(i) ELSE {}
       IN  cache' = Invalidated(back, ks) /\ flight' = Renewed(back, ks, stored)
    /\ UNCHANGED <<server, context, bounds>>

-----------------------------------------------------------------------------
\* The server reads; a row of another workspace is not found.
Serve(k) ==
    /\ flight[k].stage = "sent"
    /\ q.request.row => flight[k].ws = Home
    /\ flight' = [flight EXCEPT ![k].stage = "served", ![k].data = server[flight[k].ws]]
    /\ UNCHANGED <<server, cache, jobs, context, bounds>>

Arrive(k) ==
    /\ flight[k].stage = "served"
    /\ cache' = [cache EXCEPT ![k] = [held |-> TRUE, ws |-> flight[k].ws, data |-> flight[k].data,
                                      invalid |-> FALSE, early |-> flight[k].overtaken]]
    /\ flight' = [flight EXCEPT ![k] = NoFlight]
    /\ UNCHANGED <<server, jobs, context, bounds>>

\* Mutant: failures are not counted.
Lose_Forever(k) ==
    /\ flight[k].stage # "none"
    /\ flight' = [flight EXCEPT ![k] = Sent(k, stored)]
    /\ UNCHANGED <<server, cache, jobs, context, bounds>>

\* A request fails and is sent once more, with the workspace stored by then.
Lose(k) ==
    /\ flight[k].stage # "none"
    /\ flight' = [flight EXCEPT ![k] = IF flight[k].retried THEN NoFlight
                                       ELSE [Sent(k, stored) EXCEPT !.retried = TRUE]]
    /\ UNCHANGED <<server, cache, jobs, context, bounds>>

Poll ==
    /\ q.polls /\ mounted /\ flight[Key].stage = "none"
    /\ flight' = [flight EXCEPT ![Key] = Sent(Key, stored)]
    /\ UNCHANGED <<server, cache, jobs, context, bounds>>

\* Another page is opened; requests and mutations go on.
Leave ==
    /\ Act /\ mounted
    /\ mounted' = FALSE
    /\ jobs' = [i \in Jobs |-> [jobs[i] EXCEPT !.here = @ /\ jobs[i].stage \notin UnderWay]]
    /\ UNCHANGED <<server, cache, flight, pair, tab, stored>>

\* The page is opened again: data that is marked, missing or a minute old is
\* requested.
Return ==
    /\ ~mounted
    /\ mounted' = TRUE
    /\ \E old \in BOOLEAN :
         flight' = IF old \/ cache[Key].invalid \/ ~cache[Key].held
                     THEN [flight EXCEPT ![Key] = Fetch(Key, stored)] ELSE flight
    /\ UNCHANGED <<server, cache, jobs, pair, tab, stored, bounds>>

\* Mutant: the switch is stored after the queries are invalidated.
Switch_StoredLate ==
    /\ Act
    /\ \E w \in Workspaces \ {tab} :
         LET marked  == Invalidated(cache, Keys)
             renewed == Renewed(cache, Keys, stored)
             new     == KeyOf(w)
         IN  /\ tab' = w /\ stored' = w
             /\ cache' = marked
             /\ flight' = IF mounted /\ new # Key /\ (marked[new].invalid \/ ~marked[new].held) /\ renewed[new].stage = "none"
                            THEN [renewed EXCEPT ![new] = Sent(new, w)] ELSE renewed
    /\ UNCHANGED <<server, jobs, pair, mounted>>

\* setCurrentWorkspace: the workspace is stored and every query is invalidated,
\* then the page shows the keys of the new workspace.
Switch ==
    /\ Act
    /\ \E w \in Workspaces \ {tab} :
         LET marked  == Invalidated(cache, Keys)
             renewed == Renewed(cache, Keys, w)
             new     == KeyOf(w)
         IN  /\ tab' = w /\ stored' = w
             /\ cache' = marked
             /\ flight' = IF mounted /\ new # Key /\ (marked[new].invalid \/ ~marked[new].held) /\ renewed[new].stage = "none"
                            THEN [renewed EXCEPT ![new] = Sent(new, w)] ELSE renewed
    /\ UNCHANGED <<server, jobs, pair, mounted>>

\* The user switches in another tab: this one goes on as before.
SwitchElsewhere ==
    /\ tabs < MaxTabs /\ tabs' = tabs + 1
    /\ \E w \in Workspaces \ {stored} : stored' = w
    /\ UNCHANGED <<server, cache, flight, jobs, pair, tab, mounted, acts>>

FetchStep(k) == Serve(k) \/ Arrive(k) \/ Lose(k)
JobStep(i)   == Perform(i) \/ Refuse(i) \/ Succeed(i) \/ Fail(i)

Next ==
    \/ \E k \in Keys : FetchStep(k)
    \/ \E i \in Jobs : JobStep(i)
    \/ \E i \in Jobs : Start(i)
    \/ Poll
    \/ Leave
    \/ Return
    \/ Switch
    \/ SwitchElsewhere

Spec == Init /\ [][Next]_vars

\* Every request is answered or fails.
FairSpec ==
    /\ Spec
    /\ WF_vars(\E k \in Keys : FetchStep(k))
    /\ \A i \in Jobs : WF_vars(JobStep(i))

-----------------------------------------------------------------------------
(* Properties.                                                             *)

Places  == Workspaces \cup {"user"}

\* Types of the variables of the cache.
TypeOK ==
    /\ pair \in Together
    /\ server \in [Places -> SUBSET Jobs]
    /\ \A k \in Keys :
         /\ cache[k] \in [held : BOOLEAN, ws : Places, data : SUBSET Jobs, invalid : BOOLEAN, early : BOOLEAN]
         /\ flight[k] \in [stage : {"none", "sent", "served"}, ws : Places, data : SUBSET Jobs,
                           retried : BOOLEAN, overtaken : BOOLEAN]
    /\ \A i \in Jobs : jobs[i].stage \in {"idle", "sent", "applied", "refused", "done", "failed"}
    /\ tab \in Workspaces /\ stored \in Workspaces /\ mounted \in BOOLEAN

\* No request is under way.
Quiet == /\ \A k \in Keys : flight[k].stage = "none"
         /\ \A i \in Jobs : jobs[i].stage \notin UnderWay

Shown == cache[Key]

\* What a page shows although it has just been changed there: the status of an
\* alert on its own page (useUpdateAlert invalidates the lists), the rules of a
\* channel that was deleted, and the figures of the queue, which are polled.
Gaps == {[mutation |-> "updateAlert", query |-> "alert"],
         [mutation |-> "deleteChannel", query |-> "rules"],
         [mutation |-> "deleteWorkspace", query |-> "workspace"],
         [mutation |-> "reanalyzeAll", query |-> "queueStats"],
         [mutation |-> "reanalyzeAll", query |-> "queueJobs"]}

\* When nothing is under way, a page shows every write that was made on it and
\* reported as done, or what it shows is marked to be requested again.  Left out
\* are the gaps above and answers to requests that an invalidation found under
\* way and left there, and answers that replace data (updateSettings) after a
\* switch, or once a mutation has outlived its page: then one may start before
\* the other has ended, and their answers may come out of order (early).
OwnWriteShown ==
    Quiet /\ Shown.held /\ pair \notin Gaps =>
        \/ Shown.invalid \/ Shown.early
        \/ \A i \in Jobs : jobs[i].stage = "done" /\ i \in server[Shown.ws] => i \in Shown.data

\* When nothing is under way, a page shows no write that did not happen: what a
\* mutation shows in advance is put back, or marked, when it fails, also when
\* mutations overlap.
NothingFalse == Quiet /\ Shown.held => Shown.invalid \/ Shown.data \subseteq server[Shown.ws]

\* As long as workspaces are switched in this tab only, it shows the data of its
\* workspace when nothing is under way, except for early answers.
TabShowsItsWorkspace ==
    Quiet /\ Shown.held /\ Scope # "user" /\ tabs = 0 => Shown.invalid \/ Shown.early \/ Shown.ws = tab

\* Requests come to an end: a query is not retried for ever.
RequestsEnd == []<>Quiet

\* "Invalidate all React Query caches when switching workspaces so stale
\* workspace-scoped data is refetched for the new workspace context"
\* (auth-provider.tsx:351).
SwitchRefetches ==
    Quiet /\ mounted /\ Shown.held /\ Scope # "user" => Shown.invalid \/ Shown.ws = tab

=============================================================================
