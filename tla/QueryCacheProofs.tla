---------------------------- MODULE QueryCacheProofs ----------------------------
(***************************************************************************)
(* Theorems about QueryCache, for every query and mutation of one page,    *)
(* every set of mutations and every number of acts.                        *)
(***************************************************************************)
EXTENDS QueryCache, TLAPS

-----------------------------------------------------------------------------
(* Reading the tables.                                                     *)

\* A name that one table has is looked up there.
LEMMA MergedAt ==
    ASSUME NEW tables, NEW t \in tables, NEW n \in DOMAIN t,
           \A u \in tables : n \in DOMAIN u => u = t
    PROVE  n \in DOMAIN Merged(tables) /\ Merged(tables)[n] = t[n]
<1> DEFINE names == UNION {DOMAIN u : u \in tables}
<1>1. n \in names  OBVIOUS
<1>2. (CHOOSE u \in tables : n \in DOMAIN u) = t  OBVIOUS
<1> QED  BY <1>1, <1>2 DEF Merged

LEMMA MutationNames ==
    /\ DOMAIN PackageWrites = {"createPackage", "deletePackage", "blockPackage", "unblockPackage",
                               "discoverPackages", "bulkImportPackages"}
    /\ DOMAIN SuggestionWrites = {"approvePackage", "rejectPackage", "bulkApprovePackages"}
    /\ DOMAIN AlertWrites = {"updateAlert"}
    /\ DOMAIN NoteWrites = {"createNote", "updateNote", "deleteNote"}
    /\ DOMAIN ReleaseWrites = {"reanalyzeRelease"}
    /\ DOMAIN SettingsWrites = {"updateSettings", "reanalyzeAll", "discoverNow"}
    /\ DOMAIN QueueWrites = {"retryDeadJobs", "retryDeadJob"}
    /\ DOMAIN MarkRead = {"markNotificationRead"}
    /\ DOMAIN MarkAllRead = {"markAllNotificationsRead"}
    /\ DOMAIN DeleteOne = {"deleteNotification"}
    /\ DOMAIN DeleteAll = {"deleteAllNotifications"}
    /\ DOMAIN DeleteBatch = {"deleteBatchNotifications"}
    /\ DOMAIN ChannelWrites = {"createChannel", "updateChannel", "deleteChannel"}
    /\ DOMAIN RuleWrites = {"createRule", "deleteRule"}
    /\ DOMAIN WorkspaceWrites = {"updateWorkspace", "deleteWorkspace"}
    /\ DOMAIN InvitationWrites = {"inviteMember", "revokeInvitation", "resendInvitation"}
    /\ DOMAIN MemberWrites = {"removeMember", "updateMemberRole"}
    /\ DOMAIN AddMemberWrites = {"addMember"}
    /\ DOMAIN MyInvitationWrites = {"acceptInvitation", "declineInvitation"}
    /\ DOMAIN TokenWrites = {"acceptByToken", "declineByToken"}
    /\ DOMAIN AccountWrites = {"createApiKey", "deleteApiKey"}
    /\ DOMAIN SessionWrites = {"revokeSession"}
    /\ DOMAIN PlatformWrites = {"updatePlatformUser"}
    /\ DOMAIN AuthSettingsWrites = {"updateAuthSettings"}
    /\ DOMAIN SSOWrites = {"createSSOConfig", "updateSSOConfig", "deleteSSOConfig"}
    /\ DOMAIN IdentityWrites = {"unlinkIdentity"}
BY DEF PackageWrites, SuggestionWrites, AlertWrites, NoteWrites, ReleaseWrites, SettingsWrites,
       QueueWrites, MarkRead, MarkAllRead, DeleteOne, DeleteAll, DeleteBatch, ChannelWrites,
       RuleWrites, WorkspaceWrites, InvitationWrites, MemberWrites, AddMemberWrites,
       MyInvitationWrites, TokenWrites, AccountWrites, SessionWrites, PlatformWrites,
       AuthSettingsWrites, SSOWrites, IdentityWrites

MutationTables ==
    {PackageWrites, SuggestionWrites, AlertWrites, NoteWrites, ReleaseWrites, SettingsWrites,
     QueueWrites, MarkRead, MarkAllRead, DeleteOne, DeleteAll, DeleteBatch, ChannelWrites,
     RuleWrites, WorkspaceWrites, InvitationWrites, MemberWrites, AddMemberWrites,
     MyInvitationWrites, TokenWrites, AccountWrites, SessionWrites, PlatformWrites,
     AuthSettingsWrites, SSOWrites, IdentityWrites}

\* No two hooks that write have one name.
LEMMA MutationsApart ==
    ASSUME NEW t \in MutationTables, NEW u \in MutationTables, NEW n, n \in DOMAIN t, n \in DOMAIN u
    PROVE  t = u
BY MutationNames, SMTT(60) DEF MutationTables

LEMMA MutationAt ==
    ASSUME NEW t \in MutationTables, NEW n \in DOMAIN t
    PROVE  n \in DOMAIN Mutations /\ Mutations[n] = t[n]
<1>1. Mutations = Merged(MutationTables)  BY DEF Mutations, MutationTables
<1>2. \A u \in MutationTables : n \in DOMAIN u => u = t  BY MutationsApart
<1> QED  BY <1>1, <1>2, MergedAt

LEMMA QueryNames ==
    /\ DOMAIN PackageQueries = {"packages", "package", "packageReleases"}
    /\ DOMAIN AnalysisQueries = {"analysisHistory", "suggestions"}
    /\ DOMAIN StaleQueries = {"stalePackages", "suggestionCount"}
    /\ DOMAIN PipelineQueries = {"pipelineStatus"}
    /\ DOMAIN AlertQueries = {"alert", "alerts"}
    /\ DOMAIN NoteQueries = {"notes"}
    /\ DOMAIN ReleaseQueries = {"releases", "release", "releaseHashes"}
    /\ DOMAIN DashboardQueries = {"dashboardStats", "dashboardCharts", "dashboardReleases",
                                  "dashboardStale", "dashboardSettings"}
    /\ DOMAIN PendingQueries = {"pendingSuggestions"}
    /\ DOMAIN ShellQueries = {"shellStats"}
    /\ DOMAIN SettingsQueries = {"settings", "packageSummary"}
    /\ DOMAIN QueueQueries = {"queueStats", "queueJobs"}
    /\ DOMAIN NotificationQueries = {"unreadCount", "notifications"}
    /\ DOMAIN ChannelQueries = {"channels"}
    /\ DOMAIN RuleQueries = {"rules"}
    /\ DOMAIN WorkspaceQueries = {"workspaces", "workspace"}
    /\ DOMAIN MemberQueries = {"members", "roles"}
    /\ DOMAIN InvitationQueries = {"invitations"}
    /\ DOMAIN AuditQueries = {"auditLogs"}
    /\ DOMAIN RoleQueries = {"currentRole"}
    /\ DOMAIN MyInvitationQueries = {"myInvitations"}
    /\ DOMAIN InvitationByToken = {"invitation"}
    /\ DOMAIN OnboardingQueries = {"onboardingCheck"}
    /\ DOMAIN ConfigQueries = {"publicConfig"}
    /\ DOMAIN AccountQueries = {"apiKeys"}
    /\ DOMAIN SessionQueries = {"sessions"}
    /\ DOMAIN PlatformQueries = {"platformUsers", "platformUser"}
    /\ DOMAIN AuthSettingsQueries = {"authSettings"}
    /\ DOMAIN SSOQueries = {"ssoConfigs", "ssoConfig"}
    /\ DOMAIN IdentityQueries = {"identities"}
    /\ DOMAIN ProviderQueries = {"ssoProviders"}
BY DEF PackageQueries, AnalysisQueries, StaleQueries, PipelineQueries, AlertQueries, NoteQueries,
       ReleaseQueries, DashboardQueries, PendingQueries, ShellQueries, SettingsQueries, QueueQueries,
       NotificationQueries, ChannelQueries, RuleQueries, WorkspaceQueries, MemberQueries,
       InvitationQueries, AuditQueries, RoleQueries, MyInvitationQueries, InvitationByToken,
       OnboardingQueries, ConfigQueries, AccountQueries, SessionQueries, PlatformQueries,
       AuthSettingsQueries, SSOQueries, IdentityQueries, ProviderQueries

QueryTables ==
    {PackageQueries, AnalysisQueries, StaleQueries, PipelineQueries, AlertQueries, NoteQueries,
     ReleaseQueries, DashboardQueries, PendingQueries, ShellQueries, SettingsQueries, QueueQueries,
     NotificationQueries, ChannelQueries, RuleQueries, WorkspaceQueries, MemberQueries,
     InvitationQueries, AuditQueries, RoleQueries, MyInvitationQueries, InvitationByToken,
     OnboardingQueries, ConfigQueries, AccountQueries, SessionQueries, PlatformQueries,
     AuthSettingsQueries, SSOQueries, IdentityQueries, ProviderQueries}

\* No two hooks that read have one name.
LEMMA QueriesApart ==
    ASSUME NEW t \in QueryTables, NEW u \in QueryTables, NEW n, n \in DOMAIN t, n \in DOMAIN u
    PROVE  t = u
BY QueryNames, SMTT(60) DEF QueryTables

LEMMA QueryAt ==
    ASSUME NEW t \in QueryTables, NEW n \in DOMAIN t
    PROVE  n \in DOMAIN Queries /\ Queries[n] = t[n]
<1>1. Queries = Merged(QueryTables)  BY DEF Queries, QueryTables
<1>2. \A u \in QueryTables : n \in DOMAIN u => u = t  BY QueriesApart
<1> QED  BY <1>1, <1>2, MergedAt

LEMMA PrefixFacts ==
    ASSUME NEW a, NEW b, NEW c
    PROVE  /\ IsPrefix(<<a>>, <<a>>) /\ IsPrefix(<<a>>, <<a, b>>) /\ IsPrefix(<<a>>, <<a, b, c>>)
           /\ IsPrefix(<<a, b>>, <<a, b>>) /\ IsPrefix(<<a, b>>, <<a, b, c>>)
           /\ IsPrefix(<<a, b, c>>, <<a, b, c>>)
BY DEF IsPrefix

\* What a query asks for, and its key.
Asks(r, scope, facts, key) == r.request.scope = scope /\ r.request.facts = facts /\ r.key = key

LEMMA ReadsAsks ==
    ASSUME NEW scope, NEW row, NEW facts, NEW key
    PROVE  /\ Asks(Reads(Request(scope, row, facts), key), scope, facts, key)
           /\ Asks(Polls(Request(scope, row, facts), key), scope, facts, key)
BY DEF Asks, Reads, Polls, Request

\* The queries that some page mounts.
LEMMA QueryValues ==
    /\ Asks(Queries["packages"], "header", {"packages"}, <<"packages", "list", "params">>)
    /\ Asks(Queries["suggestions"], "header", {"suggestions"}, <<"packages", "suggestions", "params">>)
    /\ Asks(Queries["suggestionCount"], "header", {"suggestions"}, <<"packages", "suggestion-count">>)
    /\ Asks(Queries["pipelineStatus"], "header", {"releases"}, <<"pipeline-status">>)
    /\ Asks(Queries["alert"], "header", {"alerts"}, <<"alerts", "detail", "id">>)
    /\ Asks(Queries["alerts"], "header", {"alerts"}, <<"alerts", "list", "params">>)
    /\ Asks(Queries["notes"], "header", {"notes"}, <<"alerts", "notes", "id">>)
    /\ Asks(Queries["release"], "header", {"releases"}, <<"releases", "detail", "id">>)
    /\ Asks(Queries["releaseHashes"], "header", {"hashes"}, <<"releases", "hashes", "id">>)
    /\ Asks(Queries["settings"], "header", {"settings"}, <<"settings">>)
    /\ Asks(Queries["packageSummary"], "header", {"packages", "suggestions"}, <<"settings", "package-summary">>)
    /\ Asks(Queries["queueStats"], "user", {"queue"}, <<"queue", "stats">>)
    /\ Asks(Queries["queueJobs"], "user", {"queue"}, <<"queue", "jobs", "params">>)
    /\ Asks(Queries["unreadCount"], "header", {"notifications"}, <<"notifications", "unread-count">>)
    /\ Asks(Queries["notifications"], "header", {"notifications"}, <<"notifications", "list", "params">>)
    /\ Asks(Queries["channels"], "path", {"channels"}, <<"channels", "list">>)
    /\ Asks(Queries["rules"], "path", {"rules"}, <<"rules", "list">>)
    /\ Asks(Queries["workspace"], "path", {"workspaces"}, <<"workspaces", "detail">>)
    /\ Asks(Queries["members"], "path", {"members"}, <<"workspaces", "members">>)
    /\ Asks(Queries["roles"], "path", {"roles"}, <<"workspaces", "roles">>)
    /\ Asks(Queries["invitations"], "path", {"invitations"}, <<"workspaces", "invitations">>)
    /\ Asks(Queries["currentRole"], "path", {"members"}, <<"workspace-role", "current">>)
    /\ Asks(Queries["myInvitations"], "user", {"mine"}, <<"my-invitations">>)
    /\ Asks(Queries["apiKeys"], "header", {"keys"}, <<"api-keys", "list">>)
    /\ Asks(Queries["sessions"], "user", {"sessions"}, <<"sessions", "list">>)
    /\ Asks(Queries["platformUsers"], "user", {"users"}, <<"platform-admin", "users", "params">>)
    /\ Asks(Queries["authSettings"], "user", {"registration"}, <<"platform-admin", "auth-settings">>)
    /\ Asks(Queries["ssoConfigs"], "user", {"sso"}, <<"sso", "configs">>)
    /\ Asks(Queries["identities"], "user", {"identities"}, <<"sso", "identities">>)
    /\ Asks(Queries["ssoProviders"], "user", {"sso"}, <<"sso", "providers">>)
<1>1. /\ Asks(PackageQueries["packages"], "header", {"packages"}, <<"packages", "list", "params">>)
      /\ Asks(AnalysisQueries["suggestions"], "header", {"suggestions"}, <<"packages", "suggestions", "params">>)
      /\ Asks(StaleQueries["suggestionCount"], "header", {"suggestions"}, <<"packages", "suggestion-count">>)
      /\ Asks(PipelineQueries["pipelineStatus"], "header", {"releases"}, <<"pipeline-status">>)
      /\ Asks(AlertQueries["alert"], "header", {"alerts"}, <<"alerts", "detail", "id">>)
      /\ Asks(AlertQueries["alerts"], "header", {"alerts"}, <<"alerts", "list", "params">>)
      /\ Asks(NoteQueries["notes"], "header", {"notes"}, <<"alerts", "notes", "id">>)
      /\ Asks(ReleaseQueries["release"], "header", {"releases"}, <<"releases", "detail", "id">>)
      /\ Asks(ReleaseQueries["releaseHashes"], "header", {"hashes"}, <<"releases", "hashes", "id">>)
      /\ Asks(SettingsQueries["settings"], "header", {"settings"}, <<"settings">>)
      /\ Asks(SettingsQueries["packageSummary"], "header", {"packages", "suggestions"}, <<"settings", "package-summary">>)
      /\ Asks(QueueQueries["queueStats"], "user", {"queue"}, <<"queue", "stats">>)
      /\ Asks(QueueQueries["queueJobs"], "user", {"queue"}, <<"queue", "jobs", "params">>)
      /\ Asks(NotificationQueries["unreadCount"], "header", {"notifications"}, <<"notifications", "unread-count">>)
      /\ Asks(NotificationQueries["notifications"], "header", {"notifications"}, <<"notifications", "list", "params">>)
      /\ Asks(ChannelQueries["channels"], "path", {"channels"}, <<"channels", "list">>)
      /\ Asks(RuleQueries["rules"], "path", {"rules"}, <<"rules", "list">>)
      /\ Asks(WorkspaceQueries["workspace"], "path", {"workspaces"}, <<"workspaces", "detail">>)
      /\ Asks(MemberQueries["members"], "path", {"members"}, <<"workspaces", "members">>)
      /\ Asks(MemberQueries["roles"], "path", {"roles"}, <<"workspaces", "roles">>)
      /\ Asks(InvitationQueries["invitations"], "path", {"invitations"}, <<"workspaces", "invitations">>)
      /\ Asks(RoleQueries["currentRole"], "path", {"members"}, <<"workspace-role", "current">>)
      /\ Asks(MyInvitationQueries["myInvitations"], "user", {"mine"}, <<"my-invitations">>)
      /\ Asks(AccountQueries["apiKeys"], "header", {"keys"}, <<"api-keys", "list">>)
      /\ Asks(SessionQueries["sessions"], "user", {"sessions"}, <<"sessions", "list">>)
      /\ Asks(PlatformQueries["platformUsers"], "user", {"users"}, <<"platform-admin", "users", "params">>)
      /\ Asks(AuthSettingsQueries["authSettings"], "user", {"registration"}, <<"platform-admin", "auth-settings">>)
      /\ Asks(SSOQueries["ssoConfigs"], "user", {"sso"}, <<"sso", "configs">>)
      /\ Asks(IdentityQueries["identities"], "user", {"identities"}, <<"sso", "identities">>)
      /\ Asks(ProviderQueries["ssoProviders"], "user", {"sso"}, <<"sso", "providers">>)
  BY ReadsAsks
  DEF PackageQueries, AnalysisQueries, StaleQueries, PipelineQueries, AlertQueries, NoteQueries,
      ReleaseQueries, SettingsQueries, QueueQueries, NotificationQueries, ChannelQueries,
      RuleQueries, WorkspaceQueries, MemberQueries, InvitationQueries, RoleQueries,
      MyInvitationQueries, AccountQueries, SessionQueries, PlatformQueries, AuthSettingsQueries,
      SSOQueries, IdentityQueries, ProviderQueries, AccountApi, AdminApi, AlertsApi,
      NotificationsApi, PackagesApi, PlatformAdminApi, QueueApi, ReleasesApi, SSOApi,
      SessionsApi, SettingsApi, InHeader, OnRow, InPath, OfUser
<1>2. {PackageQueries, AnalysisQueries, StaleQueries, PipelineQueries, AlertQueries, NoteQueries,
       ReleaseQueries, SettingsQueries, QueueQueries, NotificationQueries, ChannelQueries,
       RuleQueries, WorkspaceQueries, MemberQueries, InvitationQueries, RoleQueries,
       MyInvitationQueries, AccountQueries, SessionQueries, PlatformQueries, AuthSettingsQueries,
       SSOQueries, IdentityQueries, ProviderQueries} \subseteq QueryTables
  BY DEF QueryTables
<1>3. /\ Queries["packages"] = PackageQueries["packages"]
      /\ Queries["suggestions"] = AnalysisQueries["suggestions"]
      /\ Queries["suggestionCount"] = StaleQueries["suggestionCount"]
      /\ Queries["pipelineStatus"] = PipelineQueries["pipelineStatus"]
      /\ Queries["alert"] = AlertQueries["alert"]
      /\ Queries["alerts"] = AlertQueries["alerts"]
      /\ Queries["notes"] = NoteQueries["notes"]
      /\ Queries["release"] = ReleaseQueries["release"]
      /\ Queries["releaseHashes"] = ReleaseQueries["releaseHashes"]
      /\ Queries["settings"] = SettingsQueries["settings"]
      /\ Queries["packageSummary"] = SettingsQueries["packageSummary"]
      /\ Queries["queueStats"] = QueueQueries["queueStats"]
      /\ Queries["queueJobs"] = QueueQueries["queueJobs"]
      /\ Queries["unreadCount"] = NotificationQueries["unreadCount"]
      /\ Queries["notifications"] = NotificationQueries["notifications"]
      /\ Queries["channels"] = ChannelQueries["channels"]
      /\ Queries["rules"] = RuleQueries["rules"]
      /\ Queries["workspace"] = WorkspaceQueries["workspace"]
      /\ Queries["members"] = MemberQueries["members"]
      /\ Queries["roles"] = MemberQueries["roles"]
      /\ Queries["invitations"] = InvitationQueries["invitations"]
      /\ Queries["currentRole"] = RoleQueries["currentRole"]
      /\ Queries["myInvitations"] = MyInvitationQueries["myInvitations"]
      /\ Queries["apiKeys"] = AccountQueries["apiKeys"]
      /\ Queries["sessions"] = SessionQueries["sessions"]
      /\ Queries["platformUsers"] = PlatformQueries["platformUsers"]
      /\ Queries["authSettings"] = AuthSettingsQueries["authSettings"]
      /\ Queries["ssoConfigs"] = SSOQueries["ssoConfigs"]
      /\ Queries["identities"] = IdentityQueries["identities"]
      /\ Queries["ssoProviders"] = ProviderQueries["ssoProviders"]
  BY <1>2, QueryAt, QueryNames
<1> QED  BY <1>1, <1>3

\* What a mutation writes and what it invalidates, if it does nothing in advance.
Plain(w, scope, facts, hits) ==
    /\ w.request.scope = scope /\ w.request.facts = facts /\ w.hits = hits
    /\ w.saves = {} /\ w.patches = {} /\ w.sets = {}

LEMMA WritesPlain ==
    ASSUME NEW scope, NEW row, NEW facts, NEW hits
    PROVE  Plain(Writes(Request(scope, row, facts), hits), scope, facts, hits)
BY DEF Plain, Writes, Request

\* The plain mutations that some page offers.
LEMMA PlainMutations ==
    /\ Plain(Mutations["createPackage"], "header", {"packages"}, {<<"packages", "list">>})
    /\ Plain(Mutations["deletePackage"], "header", {"packages"}, {<<"packages", "list">>})
    /\ Plain(Mutations["blockPackage"], "header", {"packages"}, {<<"packages", "list">>})
    /\ Plain(Mutations["unblockPackage"], "header", {"packages"}, {<<"packages", "list">>})
    /\ Plain(Mutations["discoverPackages"], "header", {}, {<<"packages", "list">>})
    /\ Plain(Mutations["approvePackage"], "header", {"packages", "suggestions"}, {<<"packages">>})
    /\ Plain(Mutations["rejectPackage"], "header", {"suggestions"}, {<<"packages">>})
    /\ Plain(Mutations["bulkApprovePackages"], "header", {"packages", "suggestions"}, {<<"packages">>})
    /\ Plain(Mutations["createNote"], "header", {"notes"}, {<<"alerts", "notes", "id">>})
    /\ Plain(Mutations["updateNote"], "header", {"notes"}, {<<"alerts", "notes", "id">>})
    /\ Plain(Mutations["deleteNote"], "header", {"notes"}, {<<"alerts", "notes", "id">>})
    /\ Plain(Mutations["reanalyzeRelease"], "header", {"releases", "queue"}, {<<"releases", "detail", "id">>})
    /\ Plain(Mutations["reanalyzeAll"], "header", {"queue"}, {})
    /\ Plain(Mutations["discoverNow"], "header", {}, {<<"packages">>, <<"settings", "package-summary">>})
    /\ Plain(Mutations["retryDeadJobs"], "user", {"queue"}, {<<"queue">>})
    /\ Plain(Mutations["retryDeadJob"], "user", {"queue"}, {<<"queue">>})
    /\ Plain(Mutations["createChannel"], "path", {"channels"}, {<<"channels", "list">>})
    /\ Plain(Mutations["updateChannel"], "path", {"channels"}, {<<"channels", "list">>})
    /\ Plain(Mutations["deleteChannel"], "path", {"channels", "rules"}, {<<"channels", "list">>})
    /\ Plain(Mutations["createRule"], "path", {"rules"}, {<<"rules", "list">>})
    /\ Plain(Mutations["deleteRule"], "path", {"rules"}, {<<"rules", "list">>})
    /\ Plain(Mutations["updateWorkspace"], "path", {"workspaces"},
             {<<"workspaces", "detail">>, <<"workspaces", "list">>})
    /\ Plain(Mutations["deleteWorkspace"], "path", {"workspaces"}, {<<"workspaces", "list">>})
    /\ Plain(Mutations["inviteMember"], "path", {"invitations"},
             {<<"workspaces", "members">>, <<"workspaces", "invitations">>})
    /\ Plain(Mutations["revokeInvitation"], "path", {"invitations"}, {<<"workspaces", "invitations">>})
    /\ Plain(Mutations["resendInvitation"], "path", {"invitations"}, {<<"workspaces", "invitations">>})
    /\ Plain(Mutations["removeMember"], "path", {"members"}, {<<"workspaces", "members">>})
    /\ Plain(Mutations["updateMemberRole"], "path", {"members"}, {<<"workspaces", "members">>})
    /\ Plain(Mutations["addMember"], "path", {"members"}, {<<"workspaces", "members">>})
    /\ Plain(Mutations["acceptInvitation"], "user", {"mine", "workspaces"}, {<<"my-invitations">>})
    /\ Plain(Mutations["declineInvitation"], "user", {"mine"}, {<<"my-invitations">>})
    /\ Plain(Mutations["createApiKey"], "header", {"keys"}, {<<"api-keys", "list">>})
    /\ Plain(Mutations["deleteApiKey"], "header", {"keys"}, {<<"api-keys", "list">>})
    /\ Plain(Mutations["revokeSession"], "user", {"sessions"}, {<<"sessions", "list">>})
    /\ Plain(Mutations["updatePlatformUser"], "user", {"users"}, {<<"platform-admin">>})
    /\ Plain(Mutations["updateAuthSettings"], "user", {"registration"},
             {<<"platform-admin", "auth-settings">>})
    /\ Plain(Mutations["createSSOConfig"], "user", {"sso"}, {<<"sso", "configs">>, <<"sso", "providers">>})
    /\ Plain(Mutations["updateSSOConfig"], "user", {"sso"},
             {<<"sso", "configs">>, <<"sso", "providers">>, <<"sso", "config", "id">>})
    /\ Plain(Mutations["deleteSSOConfig"], "user", {"sso", "identities"},
             {<<"sso", "configs">>, <<"sso", "providers">>, <<"sso", "identities">>})
    /\ Plain(Mutations["unlinkIdentity"], "user", {"identities"}, {<<"sso", "identities">>})
<1>1. /\ Plain(PackageWrites["createPackage"], "header", {"packages"}, {<<"packages", "list">>})
      /\ Plain(PackageWrites["deletePackage"], "header", {"packages"}, {<<"packages", "list">>})
      /\ Plain(PackageWrites["blockPackage"], "header", {"packages"}, {<<"packages", "list">>})
      /\ Plain(PackageWrites["unblockPackage"], "header", {"packages"}, {<<"packages", "list">>})
      /\ Plain(PackageWrites["discoverPackages"], "header", {}, {<<"packages", "list">>})
      /\ Plain(SuggestionWrites["approvePackage"], "header", {"packages", "suggestions"}, {<<"packages">>})
      /\ Plain(SuggestionWrites["rejectPackage"], "header", {"suggestions"}, {<<"packages">>})
      /\ Plain(SuggestionWrites["bulkApprovePackages"], "header", {"packages", "suggestions"},
               {<<"packages">>})
      /\ Plain(NoteWrites["createNote"], "header", {"notes"}, {<<"alerts", "notes", "id">>})
      /\ Plain(NoteWrites["updateNote"], "header", {"notes"}, {<<"alerts", "notes", "id">>})
      /\ Plain(NoteWrites["deleteNote"], "header", {"notes"}, {<<"alerts", "notes", "id">>})
      /\ Plain(ReleaseWrites["reanalyzeRelease"], "header", {"releases", "queue"},
               {<<"releases", "detail", "id">>})
      /\ Plain(SettingsWrites["reanalyzeAll"], "header", {"queue"}, {})
      /\ Plain(SettingsWrites["discoverNow"], "header", {},
               {<<"packages">>, <<"settings", "package-summary">>})
      /\ Plain(QueueWrites["retryDeadJobs"], "user", {"queue"}, {<<"queue">>})
      /\ Plain(QueueWrites["retryDeadJob"], "user", {"queue"}, {<<"queue">>})
      /\ Plain(ChannelWrites["createChannel"], "path", {"channels"}, {<<"channels", "list">>})
      /\ Plain(ChannelWrites["updateChannel"], "path", {"channels"}, {<<"channels", "list">>})
      /\ Plain(ChannelWrites["deleteChannel"], "path", {"channels", "rules"}, {<<"channels", "list">>})
      /\ Plain(RuleWrites["createRule"], "path", {"rules"}, {<<"rules", "list">>})
      /\ Plain(RuleWrites["deleteRule"], "path", {"rules"}, {<<"rules", "list">>})
      /\ Plain(WorkspaceWrites["updateWorkspace"], "path", {"workspaces"},
               {<<"workspaces", "detail">>, <<"workspaces", "list">>})
      /\ Plain(WorkspaceWrites["deleteWorkspace"], "path", {"workspaces"}, {<<"workspaces", "list">>})
      /\ Plain(InvitationWrites["inviteMember"], "path", {"invitations"},
               {<<"workspaces", "members">>, <<"workspaces", "invitations">>})
      /\ Plain(InvitationWrites["revokeInvitation"], "path", {"invitations"},
               {<<"workspaces", "invitations">>})
      /\ Plain(InvitationWrites["resendInvitation"], "path", {"invitations"},
               {<<"workspaces", "invitations">>})
      /\ Plain(MemberWrites["removeMember"], "path", {"members"}, {<<"workspaces", "members">>})
      /\ Plain(MemberWrites["updateMemberRole"], "path", {"members"}, {<<"workspaces", "members">>})
      /\ Plain(AddMemberWrites["addMember"], "path", {"members"}, {<<"workspaces", "members">>})
      /\ Plain(MyInvitationWrites["acceptInvitation"], "user", {"mine", "workspaces"}, {<<"my-invitations">>})
      /\ Plain(MyInvitationWrites["declineInvitation"], "user", {"mine"}, {<<"my-invitations">>})
      /\ Plain(AccountWrites["createApiKey"], "header", {"keys"}, {<<"api-keys", "list">>})
      /\ Plain(AccountWrites["deleteApiKey"], "header", {"keys"}, {<<"api-keys", "list">>})
      /\ Plain(SessionWrites["revokeSession"], "user", {"sessions"}, {<<"sessions", "list">>})
      /\ Plain(PlatformWrites["updatePlatformUser"], "user", {"users"}, {<<"platform-admin">>})
      /\ Plain(AuthSettingsWrites["updateAuthSettings"], "user", {"registration"},
               {<<"platform-admin", "auth-settings">>})
      /\ Plain(SSOWrites["createSSOConfig"], "user", {"sso"}, {<<"sso", "configs">>, <<"sso", "providers">>})
      /\ Plain(SSOWrites["updateSSOConfig"], "user", {"sso"},
               {<<"sso", "configs">>, <<"sso", "providers">>, <<"sso", "config", "id">>})
      /\ Plain(SSOWrites["deleteSSOConfig"], "user", {"sso", "identities"},
               {<<"sso", "configs">>, <<"sso", "providers">>, <<"sso", "identities">>})
      /\ Plain(IdentityWrites["unlinkIdentity"], "user", {"identities"}, {<<"sso", "identities">>})
  BY WritesPlain
  DEF PackageWrites, SuggestionWrites, NoteWrites, ReleaseWrites, SettingsWrites, QueueWrites,
      ChannelWrites, RuleWrites, WorkspaceWrites, InvitationWrites, MemberWrites,
      AddMemberWrites, MyInvitationWrites, AccountWrites, SessionWrites, PlatformWrites,
      AuthSettingsWrites, SSOWrites, IdentityWrites, PackageLists, PackagesApi, AlertsApi,
      ReleasesApi, SettingsApi, QueueApi, NotificationsApi, AdminApi, PlatformAdminApi, SSOApi,
      AccountApi, SessionsApi, InHeader, OnRow, InPath, OfUser
<1>2. {PackageWrites, SuggestionWrites, NoteWrites, ReleaseWrites, SettingsWrites, QueueWrites,
       ChannelWrites, RuleWrites, WorkspaceWrites, InvitationWrites, MemberWrites,
       AddMemberWrites, MyInvitationWrites, AccountWrites, SessionWrites, PlatformWrites,
       AuthSettingsWrites, SSOWrites, IdentityWrites} \subseteq MutationTables
  BY DEF MutationTables
<1>3. /\ Mutations["createPackage"] = PackageWrites["createPackage"]
      /\ Mutations["deletePackage"] = PackageWrites["deletePackage"]
      /\ Mutations["blockPackage"] = PackageWrites["blockPackage"]
      /\ Mutations["unblockPackage"] = PackageWrites["unblockPackage"]
      /\ Mutations["discoverPackages"] = PackageWrites["discoverPackages"]
      /\ Mutations["approvePackage"] = SuggestionWrites["approvePackage"]
      /\ Mutations["rejectPackage"] = SuggestionWrites["rejectPackage"]
      /\ Mutations["bulkApprovePackages"] = SuggestionWrites["bulkApprovePackages"]
      /\ Mutations["createNote"] = NoteWrites["createNote"]
      /\ Mutations["updateNote"] = NoteWrites["updateNote"]
      /\ Mutations["deleteNote"] = NoteWrites["deleteNote"]
      /\ Mutations["reanalyzeRelease"] = ReleaseWrites["reanalyzeRelease"]
      /\ Mutations["reanalyzeAll"] = SettingsWrites["reanalyzeAll"]
      /\ Mutations["discoverNow"] = SettingsWrites["discoverNow"]
      /\ Mutations["retryDeadJobs"] = QueueWrites["retryDeadJobs"]
      /\ Mutations["retryDeadJob"] = QueueWrites["retryDeadJob"]
      /\ Mutations["createChannel"] = ChannelWrites["createChannel"]
      /\ Mutations["updateChannel"] = ChannelWrites["updateChannel"]
      /\ Mutations["deleteChannel"] = ChannelWrites["deleteChannel"]
      /\ Mutations["createRule"] = RuleWrites["createRule"]
      /\ Mutations["deleteRule"] = RuleWrites["deleteRule"]
      /\ Mutations["updateWorkspace"] = WorkspaceWrites["updateWorkspace"]
      /\ Mutations["deleteWorkspace"] = WorkspaceWrites["deleteWorkspace"]
      /\ Mutations["inviteMember"] = InvitationWrites["inviteMember"]
      /\ Mutations["revokeInvitation"] = InvitationWrites["revokeInvitation"]
      /\ Mutations["resendInvitation"] = InvitationWrites["resendInvitation"]
      /\ Mutations["removeMember"] = MemberWrites["removeMember"]
      /\ Mutations["updateMemberRole"] = MemberWrites["updateMemberRole"]
      /\ Mutations["addMember"] = AddMemberWrites["addMember"]
      /\ Mutations["acceptInvitation"] = MyInvitationWrites["acceptInvitation"]
      /\ Mutations["declineInvitation"] = MyInvitationWrites["declineInvitation"]
      /\ Mutations["createApiKey"] = AccountWrites["createApiKey"]
      /\ Mutations["deleteApiKey"] = AccountWrites["deleteApiKey"]
      /\ Mutations["revokeSession"] = SessionWrites["revokeSession"]
      /\ Mutations["updatePlatformUser"] = PlatformWrites["updatePlatformUser"]
      /\ Mutations["updateAuthSettings"] = AuthSettingsWrites["updateAuthSettings"]
      /\ Mutations["createSSOConfig"] = SSOWrites["createSSOConfig"]
      /\ Mutations["updateSSOConfig"] = SSOWrites["updateSSOConfig"]
      /\ Mutations["deleteSSOConfig"] = SSOWrites["deleteSSOConfig"]
      /\ Mutations["unlinkIdentity"] = IdentityWrites["unlinkIdentity"]
  BY <1>2, MutationAt, MutationNames
<1> QED  BY <1>1, <1>3

\* The prefixes that those with something to show in advance, or to replace, name.
SomePrefixes == {<<"alerts", "list">>, <<"notifications">>, NotificationLists, UnreadCount, <<"settings">>}

Table(w) == [request : {w}, hits : SUBSET SomePrefixes, settles : BOOLEAN, cancels : SUBSET SomePrefixes,
             saves : SUBSET SomePrefixes, patches : SUBSET SomePrefixes, sets : SUBSET SomePrefixes]

LEMMA WritesTable ==
    ASSUME NEW r, NEW hits \in SUBSET SomePrefixes
    PROVE  Writes(r, hits) \in Table(r) /\ Writes(r, hits).hits = hits /\ Writes(r, hits).sets = {}
           /\ Writes(r, hits).saves = {} /\ Writes(r, hits).patches = {}
BY DEF Writes, Table

\* A mutation that shows in advance what it writes: what it invalidates at its end.
Advance(w, facts, hits) ==
    /\ w.request.scope = "header" /\ w.request.facts = facts /\ w.hits = hits
    /\ w.settles /\ w.sets = {}

LEMMA OptimisticAdvance ==
    ASSUME NEW row, NEW facts, NEW saves \in SUBSET SomePrefixes
    PROVE  /\ Advance(Optimistic(Request("header", row, facts), saves), facts, {<<"notifications">>})
           /\ Advance([Optimistic(Request("header", row, facts), saves) EXCEPT !.patches = {NotificationLists}],
                      facts, {<<"notifications">>})
<1> DEFINE r == Request("header", row, facts)
           w == Writes(r, {<<"notifications">>})
<1>0. {<<"notifications">>} \in SUBSET SomePrefixes  BY DEF SomePrefixes
<1>1. w \in Table(r) /\ w.hits = {<<"notifications">>} /\ w.sets = {}  BY <1>0, WritesTable
<1>2. /\ saves \cup {UnreadCount} \in SUBSET SomePrefixes
      /\ {NotificationLists, UnreadCount} \in SUBSET SomePrefixes
      /\ {NotificationLists} \in SUBSET SomePrefixes /\ {<<"notifications">>} \in SUBSET SomePrefixes
  BY DEF SomePrefixes
<1>3. r.scope = "header" /\ r.facts = facts  BY DEF Request
<1> HIDE DEF r, w
<1>4. Optimistic(r, saves) =
        [w EXCEPT !.settles = TRUE, !.cancels = {<<"notifications">>},
                  !.saves = saves \cup {UnreadCount}, !.patches = {NotificationLists, UnreadCount}]
  BY DEF Optimistic, w
<1>5. /\ Optimistic(r, saves).request = r /\ Optimistic(r, saves).hits = {<<"notifications">>}
      /\ Optimistic(r, saves).settles /\ Optimistic(r, saves).sets = {} /\ Optimistic(r, saves) \in Table(r)
  BY <1>1, <1>2, <1>4 DEF Table
<1>6. Advance(Optimistic(r, saves), facts, {<<"notifications">>})
  BY <1>3, <1>5 DEF Advance
<1>7. Advance([Optimistic(r, saves) EXCEPT !.patches = {NotificationLists}], facts, {<<"notifications">>})
  BY <1>2, <1>3, <1>5 DEF Advance, Table
<1> QED  BY <1>6, <1>7 DEF r

LEMMA OtherMutations ==
    /\ Advance(Mutations["markNotificationRead"], {"notifications"}, {<<"notifications">>})
    /\ Advance(Mutations["markAllNotificationsRead"], {"notifications"}, {<<"notifications">>})
    /\ Advance(Mutations["deleteNotification"], {"notifications"}, {<<"notifications">>})
    /\ Advance(Mutations["deleteAllNotifications"], {"notifications"}, {<<"notifications">>})
    /\ Advance(Mutations["deleteBatchNotifications"], {"notifications"}, {<<"notifications">>})
    /\ Advance(Mutations["updateAlert"], {"alerts"}, AlertLists)
    /\ Mutations["updateAlert"].saves = AlertLists /\ Mutations["updateAlert"].patches = AlertLists
    /\ LET w == Mutations["updateSettings"]
       IN  /\ w.request.scope = "header" /\ w.request.facts = {"settings"}
           /\ w.hits = {} /\ w.saves = {} /\ w.patches = {} /\ w.sets = {<<"settings">>}
<1>1. /\ Advance(MarkRead["markNotificationRead"], {"notifications"}, {<<"notifications">>})
      /\ Advance(MarkAllRead["markAllNotificationsRead"], {"notifications"}, {<<"notifications">>})
      /\ Advance(DeleteOne["deleteNotification"], {"notifications"}, {<<"notifications">>})
      /\ Advance(DeleteAll["deleteAllNotifications"], {"notifications"}, {<<"notifications">>})
      /\ Advance(DeleteBatch["deleteBatchNotifications"], {"notifications"}, {<<"notifications">>})
  <2>1. {<<"notifications">>} \in SUBSET SomePrefixes /\ {NotificationLists} \in SUBSET SomePrefixes
    BY DEF SomePrefixes
  <2> QED
    BY <2>1, OptimisticAdvance
    DEF MarkRead, MarkAllRead, DeleteOne, DeleteAll, DeleteBatch, NotificationsApi, InHeader, OnRow
<1>2. /\ Advance(AlertWrites["updateAlert"], {"alerts"}, AlertLists)
      /\ AlertWrites["updateAlert"].saves = AlertLists /\ AlertWrites["updateAlert"].patches = AlertLists
  <2> DEFINE r == Request("header", TRUE, {"alerts"})
             w == Writes(r, AlertLists)
  <2>1. AlertLists \in SUBSET SomePrefixes  BY DEF AlertLists, SomePrefixes
  <2>2. w \in Table(r) /\ w.hits = AlertLists /\ w.sets = {}  BY <2>1, WritesTable
  <2>3. r.scope = "header" /\ r.facts = {"alerts"}  BY DEF Request
  <2>4. AlertsApi.updateAlertStatus = r  BY DEF AlertsApi, OnRow
  <2> HIDE DEF r
  <2>5. AlertWrites["updateAlert"] =
          [w EXCEPT !.settles = TRUE, !.cancels = AlertLists, !.saves = AlertLists, !.patches = AlertLists]
    BY <2>4 DEF AlertWrites
  <2> HIDE DEF w
  <2> DEFINE v == AlertWrites["updateAlert"]
  <2>6. v.request = r /\ v.hits = AlertLists /\ v.settles /\ v.sets = {} /\ v.saves = AlertLists /\ v.patches = AlertLists
    BY <2>1, <2>2, <2>5 DEF Table
  <2> QED  BY <2>3, <2>6 DEF Advance
<1>3. LET w == SettingsWrites["updateSettings"]
      IN  /\ w.request.scope = "header" /\ w.request.facts = {"settings"}
          /\ w.hits = {} /\ w.saves = {} /\ w.patches = {} /\ w.sets = {<<"settings">>}
  <2> DEFINE r == Request("header", FALSE, {"settings"})
             w == Writes(r, {})
  <2>0. {} \in SUBSET SomePrefixes  OBVIOUS
  <2>1. w \in Table(r) /\ w.hits = {} /\ w.saves = {} /\ w.patches = {}
    <3> HIDE DEF r
    <3> QED  BY <2>0, WritesTable
  <2>2. r.scope = "header" /\ r.facts = {"settings"}  BY DEF Request
  <2>3. {<<"settings">>} \in SUBSET SomePrefixes  BY DEF SomePrefixes
  <2>4. SettingsApi.updateSettings = r  BY DEF SettingsApi, InHeader
  <2> HIDE DEF r
  <2>5. SettingsWrites["updateSettings"] = [w EXCEPT !.sets = {<<"settings">>}]
    BY <2>4 DEF SettingsWrites
  <2> HIDE DEF w
  <2> DEFINE v == SettingsWrites["updateSettings"]
  <2>6. v.request = r /\ v.hits = {} /\ v.saves = {} /\ v.patches = {} /\ v.sets = {<<"settings">>}
    BY <2>1, <2>3, <2>5 DEF Table
  <2> QED  BY <2>2, <2>6
<1>4. {MarkRead, MarkAllRead, DeleteOne, DeleteAll, DeleteBatch, AlertWrites, SettingsWrites}
        \subseteq MutationTables
  BY DEF MutationTables
<1>5. /\ Mutations["markNotificationRead"] = MarkRead["markNotificationRead"]
      /\ Mutations["markAllNotificationsRead"] = MarkAllRead["markAllNotificationsRead"]
      /\ Mutations["deleteNotification"] = DeleteOne["deleteNotification"]
      /\ Mutations["deleteAllNotifications"] = DeleteAll["deleteAllNotifications"]
      /\ Mutations["deleteBatchNotifications"] = DeleteBatch["deleteBatchNotifications"]
      /\ Mutations["updateAlert"] = AlertWrites["updateAlert"]
      /\ Mutations["updateSettings"] = SettingsWrites["updateSettings"]
  BY <1>4, MutationAt, MutationNames
<1> QED  BY <1>1, <1>2, <1>3, <1>5

Names(prefixes, key) == \E p \in prefixes : IsPrefix(p, key)

\* What the proofs use of the tables, of a mutation w and a query r: what w shows
\* or puts back is invalidated in all its entries when w ends, and what it replaces is that of
\* one workspace.
Restores(w, r) ==
    /\ w.request.scope \in {"header", "path", "user"} /\ r.request.scope \in {"header", "path", "user"}
    /\ Names(w.saves \cup w.patches, r.key) =>
          w.settles /\ w.request.scope # "path" /\ Names(w.hits, r.key)
    /\ r.key \in w.sets => w.request.scope = "header" /\ r.request.scope = "header"

Apart(a, b) == \A x \in a : x \notin b

\* What w writes of what r shows is invalidated or replaced.
Renews(w, r) ==
    \/ Apart(w.request.facts, r.request.facts)
    \/ Names(w.hits, r.key)
    \/ r.key \in w.sets

Gap(n, k) == [mutation |-> n, query |-> k] \in Gaps

SoundPair(n, k) ==
    LET w == Mutations[n]
        r == Queries[k]
    IN  /\ Restores(w, r)
        /\ Gap(n, k) \/ Renews(w, r)
        /\ r.key \in w.sets => n \notin Overlapping

LEMMA PlainPair ==
    ASSUME NEW n, NEW scope \in {"header", "path", "user"}, NEW facts, NEW hits,
           Plain(Mutations[n], scope, facts, hits),
           NEW k, NEW about \in {"header", "path", "user"}, NEW reads, NEW key,
           Asks(Queries[k], about, reads, key),
           \/ Apart(facts, reads)
           \/ Names(hits, key)
           \/ Gap(n, k)
    PROVE  SoundPair(n, k)
BY DEF Plain, Asks, Names, Restores, Renews, SoundPair

LEMMA PlainPairs ==
    ASSUME NEW page \in Pages \ {SettingsPage, NotificationsPage, AlertsPage, AlertPage},
           NEW n \in page.offers, NEW k \in page.mounts
    PROVE  SoundPair(n, k)
<1>1. CASE page = PackagesPage
  <2>1. page.offers = {"createPackage", "deletePackage", "blockPackage", "unblockPackage", "discoverPackages"} /\ page.mounts = {"packages", "suggestionCount", "pipelineStatus", "currentRole"}
    BY <1>1 DEF On, PackagesPage
  <2>2. /\ Asks(Queries["packages"], "header", {"packages"}, <<"packages", "list", "params">>)
        /\ Asks(Queries["suggestionCount"], "header", {"suggestions"}, <<"packages", "suggestion-count">>)
        /\ Asks(Queries["pipelineStatus"], "header", {"releases"}, <<"pipeline-status">>)
        /\ Asks(Queries["currentRole"], "path", {"members"}, <<"workspace-role", "current">>)
    BY QueryValues
  <2>3. /\ Plain(Mutations["createPackage"], "header", {"packages"}, {<<"packages", "list">>})
        /\ Plain(Mutations["deletePackage"], "header", {"packages"}, {<<"packages", "list">>})
        /\ Plain(Mutations["blockPackage"], "header", {"packages"}, {<<"packages", "list">>})
        /\ Plain(Mutations["unblockPackage"], "header", {"packages"}, {<<"packages", "list">>})
        /\ Plain(Mutations["discoverPackages"], "header", {}, {<<"packages", "list">>})
    BY PlainMutations
  <2>4. /\ Names({<<"packages", "list">>}, <<"packages", "list", "params">>)
        /\ Apart({"packages"}, {"suggestions"})
        /\ Apart({"packages"}, {"releases"})
        /\ Apart({"packages"}, {"members"})
        /\ Apart({}, {"packages"})
        /\ Apart({}, {"suggestions"})
        /\ Apart({}, {"releases"})
        /\ Apart({}, {"members"})
    BY PrefixFacts DEF Names, Apart
  <2>5. PICK facts \in {{"packages"}, {}} : Plain(Mutations[n], "header", facts, {<<"packages", "list">>})
    BY <2>1, <2>3
  <2>6. Apart(facts, {"suggestions"}) /\ Apart(facts, {"releases"}) /\ Apart(facts, {"members"})
    BY <2>4
  <2>7. SoundPair(n, "packages")  BY <2>2, <2>4, <2>5, PlainPair
  <2>8. SoundPair(n, "suggestionCount")  BY <2>2, <2>5, <2>6, PlainPair
  <2>9. SoundPair(n, "pipelineStatus")  BY <2>2, <2>5, <2>6, PlainPair
  <2>10. SoundPair(n, "currentRole")  BY <2>2, <2>5, <2>6, PlainPair
  <2> QED  BY <2>1, <2>7, <2>8, <2>9, <2>10
<1>2. CASE page = SuggestionsPage
  <2>1. page.offers = {"approvePackage", "rejectPackage", "bulkApprovePackages"} /\ page.mounts = {"suggestions", "currentRole"}
    BY <1>2 DEF On, SuggestionsPage
  <2>2. /\ Asks(Queries["suggestions"], "header", {"suggestions"}, <<"packages", "suggestions", "params">>)
        /\ Asks(Queries["currentRole"], "path", {"members"}, <<"workspace-role", "current">>)
    BY QueryValues
  <2>3. /\ Plain(Mutations["approvePackage"], "header", {"packages", "suggestions"}, {<<"packages">>})
        /\ Plain(Mutations["rejectPackage"], "header", {"suggestions"}, {<<"packages">>})
        /\ Plain(Mutations["bulkApprovePackages"], "header", {"packages", "suggestions"}, {<<"packages">>})
    BY PlainMutations
  <2>4. /\ Names({<<"packages">>}, <<"packages", "suggestions", "params">>)
        /\ Apart({"packages", "suggestions"}, {"members"})
        /\ Apart({"suggestions"}, {"members"})
    BY PrefixFacts DEF Names, Apart
  <2> QED  BY <2>1, <2>2, <2>3, <2>4, PlainPair
<1>5. CASE page = ReleasePage
  <2>1. page.offers = {"reanalyzeRelease"} /\ page.mounts = {"release", "releaseHashes", "currentRole"}
    BY <1>5 DEF On, ReleasePage
  <2>2. /\ Asks(Queries["release"], "header", {"releases"}, <<"releases", "detail", "id">>)
        /\ Asks(Queries["releaseHashes"], "header", {"hashes"}, <<"releases", "hashes", "id">>)
        /\ Asks(Queries["currentRole"], "path", {"members"}, <<"workspace-role", "current">>)
    BY QueryValues
  <2>3. /\ Plain(Mutations["reanalyzeRelease"], "header", {"releases", "queue"}, {<<"releases", "detail", "id">>})
    BY PlainMutations
  <2>4. /\ Names({<<"releases", "detail", "id">>}, <<"releases", "detail", "id">>)
        /\ Apart({"releases", "queue"}, {"hashes"})
        /\ Apart({"releases", "queue"}, {"members"})
    BY PrefixFacts DEF Names, Apart
  <2> QED  BY <2>1, <2>2, <2>3, <2>4, PlainPair
<1>7. CASE page = QueuePage
  <2>1. page.offers = {"reanalyzeAll", "retryDeadJobs", "retryDeadJob"} /\ page.mounts = {"queueStats", "queueJobs", "currentRole"}
    BY <1>7 DEF On, QueuePage
  <2>2. /\ Asks(Queries["queueStats"], "user", {"queue"}, <<"queue", "stats">>)
        /\ Asks(Queries["queueJobs"], "user", {"queue"}, <<"queue", "jobs", "params">>)
        /\ Asks(Queries["currentRole"], "path", {"members"}, <<"workspace-role", "current">>)
    BY QueryValues
  <2>3. /\ Plain(Mutations["reanalyzeAll"], "header", {"queue"}, {})
        /\ Plain(Mutations["retryDeadJobs"], "user", {"queue"}, {<<"queue">>})
        /\ Plain(Mutations["retryDeadJob"], "user", {"queue"}, {<<"queue">>})
    BY PlainMutations
  <2>4. /\ Gap("reanalyzeAll", "queueStats")
        /\ Gap("reanalyzeAll", "queueJobs")
        /\ Apart({"queue"}, {"members"})
        /\ Names({<<"queue">>}, <<"queue", "stats">>)
        /\ Names({<<"queue">>}, <<"queue", "jobs", "params">>)
    BY PrefixFacts DEF Names, Apart, Gap, Gaps
  <2> QED  BY <2>1, <2>2, <2>3, <2>4, PlainPair
<1>9. CASE page = ChannelsPage
  <2>1. page.offers = {"createChannel", "updateChannel", "deleteChannel", "createRule", "deleteRule"} /\ page.mounts = {"channels", "rules"}
    BY <1>9, MutationNames DEF On, ChannelsPage
  <2>2. /\ Asks(Queries["channels"], "path", {"channels"}, <<"channels", "list">>)
        /\ Asks(Queries["rules"], "path", {"rules"}, <<"rules", "list">>)
    BY QueryValues
  <2>3. /\ Plain(Mutations["createChannel"], "path", {"channels"}, {<<"channels", "list">>})
        /\ Plain(Mutations["updateChannel"], "path", {"channels"}, {<<"channels", "list">>})
        /\ Plain(Mutations["deleteChannel"], "path", {"channels", "rules"}, {<<"channels", "list">>})
        /\ Plain(Mutations["createRule"], "path", {"rules"}, {<<"rules", "list">>})
        /\ Plain(Mutations["deleteRule"], "path", {"rules"}, {<<"rules", "list">>})
    BY PlainMutations
  <2>4. /\ Names({<<"channels", "list">>}, <<"channels", "list">>)
        /\ Apart({"channels"}, {"rules"})
        /\ Gap("deleteChannel", "rules")
        /\ Apart({"rules"}, {"channels"})
        /\ Names({<<"rules", "list">>}, <<"rules", "list">>)
    BY PrefixFacts DEF Names, Apart, Gap, Gaps
  <2>5. CASE k = "channels"
    <3>1. SoundPair("createChannel", k)  BY <2>2, <2>3, <2>4, <2>5, PlainPair
    <3>2. SoundPair("updateChannel", k)  BY <2>2, <2>3, <2>4, <2>5, PlainPair
    <3>3. SoundPair("deleteChannel", k)  BY <2>2, <2>3, <2>4, <2>5, PlainPair
    <3>4. SoundPair("createRule", k)  BY <2>2, <2>3, <2>4, <2>5, PlainPair
    <3>5. SoundPair("deleteRule", k)  BY <2>2, <2>3, <2>4, <2>5, PlainPair
    <3> QED  BY <2>1, <3>1, <3>2, <3>3, <3>4, <3>5
  <2>6. CASE k = "rules"
    <3>1. SoundPair("createChannel", k)  BY <2>2, <2>3, <2>4, <2>6, PlainPair
    <3>2. SoundPair("updateChannel", k)  BY <2>2, <2>3, <2>4, <2>6, PlainPair
    <3>3. SoundPair("deleteChannel", k)  BY <2>2, <2>3, <2>4, <2>6, PlainPair
    <3>4. SoundPair("createRule", k)  BY <2>2, <2>3, <2>4, <2>6, PlainPair
    <3>5. SoundPair("deleteRule", k)  BY <2>2, <2>3, <2>4, <2>6, PlainPair
    <3> QED  BY <2>1, <3>1, <3>2, <3>3, <3>4, <3>5
  <2> QED  BY <2>1, <2>5, <2>6
<1>10. CASE page = WorkspacePage
  <2>1. page.offers = {"updateWorkspace", "deleteWorkspace", "inviteMember", "revokeInvitation", "resendInvitation", "removeMember", "updateMemberRole", "addMember"} /\ page.mounts = {"workspace", "members", "roles", "invitations"}
    BY <1>10, MutationNames DEF On, WorkspacePage
  <2>2. /\ Asks(Queries["workspace"], "path", {"workspaces"}, <<"workspaces", "detail">>)
        /\ Asks(Queries["members"], "path", {"members"}, <<"workspaces", "members">>)
        /\ Asks(Queries["roles"], "path", {"roles"}, <<"workspaces", "roles">>)
        /\ Asks(Queries["invitations"], "path", {"invitations"}, <<"workspaces", "invitations">>)
    BY QueryValues
  <2>3. /\ Plain(Mutations["updateWorkspace"], "path", {"workspaces"}, {<<"workspaces", "detail">>, <<"workspaces", "list">>})
        /\ Plain(Mutations["deleteWorkspace"], "path", {"workspaces"}, {<<"workspaces", "list">>})
        /\ Plain(Mutations["inviteMember"], "path", {"invitations"}, {<<"workspaces", "members">>, <<"workspaces", "invitations">>})
        /\ Plain(Mutations["revokeInvitation"], "path", {"invitations"}, {<<"workspaces", "invitations">>})
        /\ Plain(Mutations["resendInvitation"], "path", {"invitations"}, {<<"workspaces", "invitations">>})
        /\ Plain(Mutations["removeMember"], "path", {"members"}, {<<"workspaces", "members">>})
        /\ Plain(Mutations["updateMemberRole"], "path", {"members"}, {<<"workspaces", "members">>})
        /\ Plain(Mutations["addMember"], "path", {"members"}, {<<"workspaces", "members">>})
    BY PlainMutations
  <2>4. /\ Names({<<"workspaces", "detail">>, <<"workspaces", "list">>}, <<"workspaces", "detail">>)
        /\ Apart({"workspaces"}, {"members"})
        /\ Apart({"workspaces"}, {"roles"})
        /\ Apart({"workspaces"}, {"invitations"})
        /\ Gap("deleteWorkspace", "workspace")
        /\ Apart({"invitations"}, {"workspaces"})
        /\ Apart({"invitations"}, {"members"})
        /\ Apart({"invitations"}, {"roles"})
        /\ Names({<<"workspaces", "members">>, <<"workspaces", "invitations">>}, <<"workspaces", "invitations">>)
        /\ Names({<<"workspaces", "invitations">>}, <<"workspaces", "invitations">>)
        /\ Apart({"members"}, {"workspaces"})
        /\ Names({<<"workspaces", "members">>}, <<"workspaces", "members">>)
        /\ Apart({"members"}, {"roles"})
        /\ Apart({"members"}, {"invitations"})
    BY PrefixFacts DEF Names, Apart, Gap, Gaps
  <2>5. CASE k = "workspace"
    <3>1. SoundPair("updateWorkspace", k)  BY <2>2, <2>3, <2>4, <2>5, PlainPair
    <3>2. SoundPair("deleteWorkspace", k)  BY <2>2, <2>3, <2>4, <2>5, PlainPair
    <3>3. SoundPair("inviteMember", k)  BY <2>2, <2>3, <2>4, <2>5, PlainPair
    <3>4. SoundPair("revokeInvitation", k)  BY <2>2, <2>3, <2>4, <2>5, PlainPair
    <3>5. SoundPair("resendInvitation", k)  BY <2>2, <2>3, <2>4, <2>5, PlainPair
    <3>6. SoundPair("removeMember", k)  BY <2>2, <2>3, <2>4, <2>5, PlainPair
    <3>7. SoundPair("updateMemberRole", k)  BY <2>2, <2>3, <2>4, <2>5, PlainPair
    <3>8. SoundPair("addMember", k)  BY <2>2, <2>3, <2>4, <2>5, PlainPair
    <3> QED  BY <2>1, <3>1, <3>2, <3>3, <3>4, <3>5, <3>6, <3>7, <3>8
  <2>6. CASE k = "members"
    <3>1. SoundPair("updateWorkspace", k)  BY <2>2, <2>3, <2>4, <2>6, PlainPair
    <3>2. SoundPair("deleteWorkspace", k)  BY <2>2, <2>3, <2>4, <2>6, PlainPair
    <3>3. SoundPair("inviteMember", k)  BY <2>2, <2>3, <2>4, <2>6, PlainPair
    <3>4. SoundPair("revokeInvitation", k)  BY <2>2, <2>3, <2>4, <2>6, PlainPair
    <3>5. SoundPair("resendInvitation", k)  BY <2>2, <2>3, <2>4, <2>6, PlainPair
    <3>6. SoundPair("removeMember", k)  BY <2>2, <2>3, <2>4, <2>6, PlainPair
    <3>7. SoundPair("updateMemberRole", k)  BY <2>2, <2>3, <2>4, <2>6, PlainPair
    <3>8. SoundPair("addMember", k)  BY <2>2, <2>3, <2>4, <2>6, PlainPair
    <3> QED  BY <2>1, <3>1, <3>2, <3>3, <3>4, <3>5, <3>6, <3>7, <3>8
  <2>7. CASE k = "roles"
    <3>1. SoundPair("updateWorkspace", k)  BY <2>2, <2>3, <2>4, <2>7, PlainPair
    <3>2. SoundPair("deleteWorkspace", k)  BY <2>2, <2>3, <2>4, <2>7, PlainPair
    <3>3. SoundPair("inviteMember", k)  BY <2>2, <2>3, <2>4, <2>7, PlainPair
    <3>4. SoundPair("revokeInvitation", k)  BY <2>2, <2>3, <2>4, <2>7, PlainPair
    <3>5. SoundPair("resendInvitation", k)  BY <2>2, <2>3, <2>4, <2>7, PlainPair
    <3>6. SoundPair("removeMember", k)  BY <2>2, <2>3, <2>4, <2>7, PlainPair
    <3>7. SoundPair("updateMemberRole", k)  BY <2>2, <2>3, <2>4, <2>7, PlainPair
    <3>8. SoundPair("addMember", k)  BY <2>2, <2>3, <2>4, <2>7, PlainPair
    <3> QED  BY <2>1, <3>1, <3>2, <3>3, <3>4, <3>5, <3>6, <3>7, <3>8
  <2>8. CASE k = "invitations"
    <3>1. SoundPair("updateWorkspace", k)  BY <2>2, <2>3, <2>4, <2>8, PlainPair
    <3>2. SoundPair("deleteWorkspace", k)  BY <2>2, <2>3, <2>4, <2>8, PlainPair
    <3>3. SoundPair("inviteMember", k)  BY <2>2, <2>3, <2>4, <2>8, PlainPair
    <3>4. SoundPair("revokeInvitation", k)  BY <2>2, <2>3, <2>4, <2>8, PlainPair
    <3>5. SoundPair("resendInvitation", k)  BY <2>2, <2>3, <2>4, <2>8, PlainPair
    <3>6. SoundPair("removeMember", k)  BY <2>2, <2>3, <2>4, <2>8, PlainPair
    <3>7. SoundPair("updateMemberRole", k)  BY <2>2, <2>3, <2>4, <2>8, PlainPair
    <3>8. SoundPair("addMember", k)  BY <2>2, <2>3, <2>4, <2>8, PlainPair
    <3> QED  BY <2>1, <3>1, <3>2, <3>3, <3>4, <3>5, <3>6, <3>7, <3>8
  <2> QED  BY <2>1, <2>5, <2>6, <2>7, <2>8
<1>11. CASE page = InvitationsPage
  <2>1. page.offers = {"acceptInvitation", "declineInvitation"} /\ page.mounts = {"myInvitations"}
    BY <1>11, MutationNames DEF On, InvitationsPage
  <2>2. /\ Asks(Queries["myInvitations"], "user", {"mine"}, <<"my-invitations">>)
    BY QueryValues
  <2>3. /\ Plain(Mutations["acceptInvitation"], "user", {"mine", "workspaces"}, {<<"my-invitations">>})
        /\ Plain(Mutations["declineInvitation"], "user", {"mine"}, {<<"my-invitations">>})
    BY PlainMutations
  <2>4. Names({<<"my-invitations">>}, <<"my-invitations">>)
    BY PrefixFacts DEF Names, Apart
  <2> QED  BY <2>1, <2>2, <2>3, <2>4, PlainPair
<1>12. CASE page = ApiKeysPage
  <2>1. page.offers = {"createApiKey", "deleteApiKey"} /\ page.mounts = {"apiKeys"}
    BY <1>12, MutationNames DEF On, ApiKeysPage
  <2>2. /\ Asks(Queries["apiKeys"], "header", {"keys"}, <<"api-keys", "list">>)
    BY QueryValues
  <2>3. /\ Plain(Mutations["createApiKey"], "header", {"keys"}, {<<"api-keys", "list">>})
        /\ Plain(Mutations["deleteApiKey"], "header", {"keys"}, {<<"api-keys", "list">>})
    BY PlainMutations
  <2>4. Names({<<"api-keys", "list">>}, <<"api-keys", "list">>)
    BY PrefixFacts DEF Names, Apart
  <2> QED  BY <2>1, <2>2, <2>3, <2>4, PlainPair
<1>13. CASE page = SessionsPage
  <2>1. page.offers = {"revokeSession"} /\ page.mounts = {"sessions"}
    BY <1>13, MutationNames DEF On, SessionsPage
  <2>2. /\ Asks(Queries["sessions"], "user", {"sessions"}, <<"sessions", "list">>)
    BY QueryValues
  <2>3. /\ Plain(Mutations["revokeSession"], "user", {"sessions"}, {<<"sessions", "list">>})
    BY PlainMutations
  <2>4. Names({<<"sessions", "list">>}, <<"sessions", "list">>)
    BY PrefixFacts DEF Names, Apart
  <2> QED  BY <2>1, <2>2, <2>3, <2>4, PlainPair
<1>14. CASE page = UsersPage
  <2>1. page.offers = {"updatePlatformUser"} /\ page.mounts = {"platformUsers"}
    BY <1>14, MutationNames DEF On, UsersPage
  <2>2. /\ Asks(Queries["platformUsers"], "user", {"users"}, <<"platform-admin", "users", "params">>)
    BY QueryValues
  <2>3. /\ Plain(Mutations["updatePlatformUser"], "user", {"users"}, {<<"platform-admin">>})
    BY PlainMutations
  <2>4. Names({<<"platform-admin">>}, <<"platform-admin", "users", "params">>)
    BY PrefixFacts DEF Names, Apart
  <2> QED  BY <2>1, <2>2, <2>3, <2>4, PlainPair
<1>15. CASE page = SecurityPage
  <2>1. page.offers = {"createSSOConfig", "updateSSOConfig", "deleteSSOConfig", "updateAuthSettings"} /\ page.mounts = {"ssoConfigs", "authSettings"}
    BY <1>15, MutationNames DEF On, SecurityPage
  <2>2. /\ Asks(Queries["ssoConfigs"], "user", {"sso"}, <<"sso", "configs">>)
        /\ Asks(Queries["authSettings"], "user", {"registration"}, <<"platform-admin", "auth-settings">>)
    BY QueryValues
  <2>3. /\ Plain(Mutations["createSSOConfig"], "user", {"sso"}, {<<"sso", "configs">>, <<"sso", "providers">>})
        /\ Plain(Mutations["updateSSOConfig"], "user", {"sso"}, {<<"sso", "configs">>, <<"sso", "providers">>, <<"sso", "config", "id">>})
        /\ Plain(Mutations["deleteSSOConfig"], "user", {"sso", "identities"}, {<<"sso", "configs">>, <<"sso", "providers">>, <<"sso", "identities">>})
        /\ Plain(Mutations["updateAuthSettings"], "user", {"registration"}, {<<"platform-admin", "auth-settings">>})
    BY PlainMutations
  <2>4. /\ Names({<<"sso", "configs">>, <<"sso", "providers">>}, <<"sso", "configs">>)
        /\ Apart({"sso"}, {"registration"})
        /\ Names({<<"sso", "configs">>, <<"sso", "providers">>, <<"sso", "config", "id">>}, <<"sso", "configs">>)
        /\ Names({<<"sso", "configs">>, <<"sso", "providers">>, <<"sso", "identities">>}, <<"sso", "configs">>)
        /\ Apart({"sso", "identities"}, {"registration"})
        /\ Apart({"registration"}, {"sso"})
        /\ Names({<<"platform-admin", "auth-settings">>}, <<"platform-admin", "auth-settings">>)
    BY PrefixFacts DEF Names, Apart
  <2>5. CASE k = "ssoConfigs"  BY <2>1, <2>2, <2>3, <2>4, <2>5, PlainPair
  <2>6. CASE k = "authSettings"
    <3>1. SoundPair("createSSOConfig", k)  BY <2>2, <2>3, <2>4, <2>6, PlainPair
    <3>2. SoundPair("updateSSOConfig", k)  BY <2>2, <2>3, <2>4, <2>6, PlainPair
    <3>3. SoundPair("deleteSSOConfig", k)  BY <2>2, <2>3, <2>4, <2>6, PlainPair
    <3>4. SoundPair("updateAuthSettings", k)  BY <2>2, <2>3, <2>4, <2>6, PlainPair
    <3> QED  BY <2>1, <3>1, <3>2, <3>3, <3>4
  <2> QED  BY <2>1, <2>5, <2>6
<1>16. CASE page = AccountPage
  <2>1. page.offers = {"unlinkIdentity"} /\ page.mounts = {"identities", "ssoProviders"}
    BY <1>16, MutationNames DEF On, AccountPage
  <2>2. /\ Asks(Queries["identities"], "user", {"identities"}, <<"sso", "identities">>)
        /\ Asks(Queries["ssoProviders"], "user", {"sso"}, <<"sso", "providers">>)
    BY QueryValues
  <2>3. /\ Plain(Mutations["unlinkIdentity"], "user", {"identities"}, {<<"sso", "identities">>})
    BY PlainMutations
  <2>4. /\ Names({<<"sso", "identities">>}, <<"sso", "identities">>)
        /\ Apart({"identities"}, {"sso"})
    BY PrefixFacts DEF Names, Apart
  <2> QED  BY <2>1, <2>2, <2>3, <2>4, PlainPair
<1> QED  BY <1>1, <1>2, <1>5, <1>7, <1>9, <1>10, <1>11, <1>12, <1>13, <1>14, <1>15, <1>16 DEF Pages

LEMMA AdvancePair ==
    ASSUME NEW n, NEW facts, NEW hits, Advance(Mutations[n], facts, hits),
           NEW k, NEW about \in {"header", "path", "user"}, NEW reads, NEW key,
           Asks(Queries[k], about, reads, key),
           \/ Names(hits, key)
           \/ Mutations[n].saves = hits /\ Mutations[n].patches = hits /\ (Apart(facts, reads) \/ Gap(n, k))
    PROVE  SoundPair(n, k)
BY DEF Advance, Asks, Names, Restores, Renews, SoundPair

LEMMA OtherPairs ==
    ASSUME NEW page \in {SettingsPage, NotificationsPage, AlertsPage, AlertPage},
           NEW n \in page.offers, NEW k \in page.mounts
    PROVE  SoundPair(n, k)
<1>1. CASE page = SettingsPage
  <2>1. page.offers = {"updateSettings", "discoverNow"} /\ page.mounts = {"settings", "packageSummary", "currentRole"}
    BY <1>1 DEF On, SettingsPage
  <2>2. /\ Asks(Queries["settings"], "header", {"settings"}, <<"settings">>)
        /\ Asks(Queries["packageSummary"], "header", {"packages", "suggestions"}, <<"settings", "package-summary">>)
        /\ Asks(Queries["currentRole"], "path", {"members"}, <<"workspace-role", "current">>)
    BY QueryValues
  <2>3. Plain(Mutations["discoverNow"], "header", {}, {<<"packages">>, <<"settings", "package-summary">>})
    BY PlainMutations
  <2>4. Apart({}, {"settings"}) /\ Apart({}, {"packages", "suggestions"}) /\ Apart({}, {"members"})
    BY DEF Apart
  <2>5. CASE n = "discoverNow"
    <3>1. SoundPair(n, "settings")  BY <2>2, <2>3, <2>4, <2>5, PlainPair
    <3>2. SoundPair(n, "packageSummary")  BY <2>2, <2>3, <2>4, <2>5, PlainPair
    <3>3. SoundPair(n, "currentRole")  BY <2>2, <2>3, <2>4, <2>5, PlainPair
    <3> QED  BY <2>1, <3>1, <3>2, <3>3
  <2>6. CASE n = "updateSettings"
    <3> DEFINE w == Mutations["updateSettings"]
    <3>1. /\ w.request.scope = "header" /\ w.request.facts = {"settings"}
          /\ w.saves \cup w.patches = {} /\ w.sets = {<<"settings">>}
      BY OtherMutations
    <3>2. \A key : ~Names({}, key)  BY DEF Names
    <3>3. "updateSettings" \notin Overlapping  BY DEF Overlapping
    <3>4. SoundPair("updateSettings", "settings")
      BY <2>2, <3>1, <3>2, <3>3 DEF SoundPair, Restores, Renews, Asks
    <3>5. <<"settings", "package-summary">> # <<"settings">> /\ <<"workspace-role", "current">> # <<"settings">>
      OBVIOUS
    <3>6. Apart({"settings"}, {"packages", "suggestions"}) /\ Apart({"settings"}, {"members"})
      BY DEF Apart
    <3>7. ASSUME NEW o, NEW about \in {"header", "path"}, NEW reads, NEW key,
                 Asks(Queries[o], about, reads, key), key # <<"settings">>, Apart({"settings"}, reads)
          PROVE  SoundPair("updateSettings", o)
      BY <3>1, <3>2, <3>7 DEF SoundPair, Restores, Renews, Asks
    <3>8. SoundPair("updateSettings", "packageSummary")  BY <2>2, <3>5, <3>6, <3>7
    <3>9. SoundPair("updateSettings", "currentRole")  BY <2>2, <3>5, <3>6, <3>7
    <3> QED  BY <2>1, <2>6, <3>4, <3>8, <3>9
  <2> QED  BY <2>1, <2>5, <2>6
<1>2. CASE page = NotificationsPage
  <2>1. /\ page.offers = {"markNotificationRead", "markAllNotificationsRead", "deleteNotification",
                          "deleteAllNotifications", "deleteBatchNotifications"}
        /\ page.mounts = {"notifications", "unreadCount"}
    BY <1>2, MutationNames DEF On, NotificationsPage
  <2>2. \A name \in page.offers : Advance(Mutations[name], {"notifications"}, {<<"notifications">>})
    BY <2>1, OtherMutations
  <2>3. /\ Asks(Queries["unreadCount"], "header", {"notifications"}, <<"notifications", "unread-count">>)
        /\ Asks(Queries["notifications"], "header", {"notifications"}, <<"notifications", "list", "params">>)
    BY QueryValues
  <2>4. /\ Names({<<"notifications">>}, <<"notifications", "unread-count">>)
        /\ Names({<<"notifications">>}, <<"notifications", "list", "params">>)
    BY PrefixFacts DEF Names
  <2> QED  BY <2>1, <2>2, <2>3, <2>4, AdvancePair
<1>3. CASE page \in {AlertsPage, AlertPage}
  <2>1. /\ page.offers \subseteq {"updateAlert", "createNote", "updateNote", "deleteNote"}
        /\ page.mounts \subseteq {"alerts", "alert", "notes", "currentRole"}
    BY <1>3 DEF On, AlertsPage, AlertPage
  <2>2. /\ Advance(Mutations["updateAlert"], {"alerts"}, AlertLists)
        /\ Mutations["updateAlert"].saves = AlertLists /\ Mutations["updateAlert"].patches = AlertLists
    BY OtherMutations
  <2>3. /\ Plain(Mutations["createNote"], "header", {"notes"}, {<<"alerts", "notes", "id">>})
        /\ Plain(Mutations["updateNote"], "header", {"notes"}, {<<"alerts", "notes", "id">>})
        /\ Plain(Mutations["deleteNote"], "header", {"notes"}, {<<"alerts", "notes", "id">>})
    BY PlainMutations
  <2>4. /\ Asks(Queries["alerts"], "header", {"alerts"}, <<"alerts", "list", "params">>)
        /\ Asks(Queries["alert"], "header", {"alerts"}, <<"alerts", "detail", "id">>)
        /\ Asks(Queries["notes"], "header", {"notes"}, <<"alerts", "notes", "id">>)
        /\ Asks(Queries["currentRole"], "path", {"members"}, <<"workspace-role", "current">>)
    BY QueryValues
  <2>5. /\ Names(AlertLists, <<"alerts", "list", "params">>)
        /\ Names({<<"alerts", "notes", "id">>}, <<"alerts", "notes", "id">>)
        /\ Gap("updateAlert", "alert")
        /\ Apart({"alerts"}, {"notes"}) /\ Apart({"alerts"}, {"members"})
        /\ Apart({"notes"}, {"alerts"}) /\ Apart({"notes"}, {"members"})
    BY PrefixFacts DEF Names, AlertLists, Gap, Gaps, Apart
  <2>6. CASE n = "updateAlert"
    <3>1. SoundPair(n, "alerts")  BY <2>2, <2>4, <2>5, <2>6, AdvancePair
    <3>2. SoundPair(n, "alert")  BY <2>2, <2>4, <2>5, <2>6, AdvancePair
    <3>3. SoundPair(n, "notes")  BY <2>2, <2>4, <2>5, <2>6, AdvancePair
    <3>4. SoundPair(n, "currentRole")  BY <2>2, <2>4, <2>5, <2>6, AdvancePair
    <3> QED  BY <2>1, <3>1, <3>2, <3>3, <3>4
  <2>7. CASE n \in {"createNote", "updateNote", "deleteNote"}
    <3>1. Plain(Mutations[n], "header", {"notes"}, {<<"alerts", "notes", "id">>})  BY <2>3, <2>7
    <3>2. SoundPair(n, "alerts")  BY <2>4, <2>5, <3>1, PlainPair
    <3>3. SoundPair(n, "alert")  BY <2>4, <2>5, <3>1, PlainPair
    <3>4. SoundPair(n, "notes")  BY <2>4, <2>5, <3>1, PlainPair
    <3>5. SoundPair(n, "currentRole")  BY <2>4, <2>5, <3>1, PlainPair
    <3> QED  BY <2>1, <3>2, <3>3, <3>4, <3>5
  <2> QED  BY <2>1, <2>6, <2>7
<1> QED  BY <1>1, <1>2, <1>3

LEMMA EveryPair ==
    ASSUME NEW p \in Together
    PROVE  /\ Restores(Mutations[p.mutation], Queries[p.query])
           /\ p \in Gaps \/ \/ Names(Mutations[p.mutation].hits, Queries[p.query].key)
                            \/ Queries[p.query].key \in Mutations[p.mutation].sets
           /\ Queries[p.query].key \in Mutations[p.mutation].sets => p.mutation \notin Overlapping
<1>1. p = [mutation |-> p.mutation, query |-> p.query]  BY DEF Together
<1>2. PICK page \in Pages : p.mutation \in page.offers /\ p.query \in page.mounts
  BY DEF Together
<1>3. SoundPair(p.mutation, p.query)
  BY <1>2, PlainPairs, OtherPairs
<1>4. ~Apart(Mutations[p.mutation].request.facts, Queries[p.query].request.facts)
  BY DEF Together, Apart
<1> QED  BY <1>1, <1>3, <1>4 DEF SoundPair, Renews, Gap

-----------------------------------------------------------------------------
(* The inductive invariant.                                                *)

Entry == [held : BOOLEAN, ws : Places, data : SUBSET Jobs, invalid : BOOLEAN, early : BOOLEAN]

Flight == [stage : {"none", "sent", "served"}, ws : Places, data : SUBSET Jobs,
           retried : BOOLEAN, overtaken : BOOLEAN]

Job == [stage : {"idle", "sent", "applied", "refused", "done", "failed"}, ws : Places, row : Places,
        data : SUBSET Jobs, saved : Entry, here : BOOLEAN]

Types ==
    /\ pair \in Together
    /\ server \in [Places -> SUBSET Jobs]
    /\ cache \in [Keys -> Entry]
    /\ flight \in [Keys -> Flight]
    /\ jobs \in [Jobs -> Job]
    /\ tab \in Workspaces /\ stored \in Workspaces /\ mounted \in BOOLEAN
    /\ tabs \in Nat

\* What the mutation does to the query, by the tables.
Hits == Matches(m.hits)
Shows == Matches(m.patches)
PutsBack == Matches(m.saves)
Replaces == q.key \in m.sets

Busy(i) == jobs[i].stage \in UnderWay
Done(i) == jobs[i].stage = "done"

\* What a mutation has done before and after it is started.
JobInv ==
    \A i \in Jobs :
        /\ jobs[i].saved.held => PutsBack
        /\ jobs[i].stage = "idle" => jobs[i].here
        /\ jobs[i].stage # "idle" /\ m.request.scope = "path" => jobs[i].ws \in Workspaces
        /\ jobs[i].stage # "idle" /\ Replaces => jobs[i].ws \in Workspaces
        /\ \A p \in Places : i \in server[p] =>
               jobs[i].stage \in {"applied", "done", "failed"} /\ p \in WrittenAt(jobs[i].ws)

\* The writes that are shown before the server has made them.
Pending == {i \in Jobs : Busy(i) /\ Shows}

TrueInv ==
    /\ \A k \in Keys : cache[k].held => cache[k].invalid \/ cache[k].data \subseteq server[cache[k].ws] \cup Pending
    /\ \A k \in Keys : flight[k].stage = "served" => flight[k].data \subseteq server[flight[k].ws]
    /\ \A i \in Jobs : jobs[i].stage = "applied" /\ Replaces => jobs[i].data \subseteq server[jobs[i].ws]

\* Where a request goes and what an entry is about: the workspace of the key, if it
\* names one; else, while no other tab switches, that of the tab.
PlaceInv ==
    /\ Scope = "path" =>
         \A k \in Keys : /\ flight[k].stage # "none" => flight[k].ws = k
                         /\ cache[k].held => cache[k].invalid \/ cache[k].ws = k
    /\ tabs = 0 => stored = tab
    /\ tabs = 0 /\ Scope = "header" =>
         \A k \in Keys : /\ flight[k].stage # "none" => flight[k].overtaken \/ flight[k].ws = tab
                         /\ cache[k].held => cache[k].invalid \/ cache[k].early \/ cache[k].ws = tab

\* The writes that were reported as done and that the server has at w are in d.
Includes(d, w) == \A i \in Jobs : Done(i) /\ i \in server[w] => i \in d

AllHere == \A i \in Jobs : jobs[i].here

OwnInv ==
    pair \notin Gaps =>
        /\ \A k \in Keys : cache[k].held => \/ cache[k].invalid \/ cache[k].early
                                            \/ Includes(cache[k].data, cache[k].ws)
        /\ \A k \in Keys : flight[k].stage = "served" => flight[k].overtaken \/ Includes(flight[k].data, flight[k].ws)
        /\ \A i \in Jobs : jobs[i].stage = "applied" /\ Replaces =>
              /\ i \in jobs[i].data
              /\ AllHere => Includes(jobs[i].data, jobs[i].ws)

\* Of the mutations whose button waits, one at a time belongs to the open page.
OneHere ==
    pair.mutation \notin Overlapping =>
        \A i, o \in Jobs : Busy(i) /\ jobs[i].here /\ Busy(o) /\ jobs[o].here => i = o

CacheInv == Types /\ JobInv /\ TrueInv /\ PlaceInv /\ OwnInv /\ OneHere

-----------------------------------------------------------------------------
(* What the steps use of the tables and of the helpers.                    *)

LEMMA PairFacts ==
    ASSUME pair \in Together
    PROVE  /\ Scope \in {"header", "path", "user"} /\ m.request.scope \in {"header", "path", "user"}
           /\ Shows \/ PutsBack => m.settles /\ Hits /\ m.request.scope # "path"
           /\ Replaces => m.request.scope = "header" /\ Scope = "header" /\ pair.mutation \notin Overlapping
           /\ pair \notin Gaps => Hits \/ Replaces
<1>1. /\ Hits <=> Names(m.hits, q.key)
      /\ Shows \/ PutsBack => Names(m.saves \cup m.patches, q.key)
  BY DEF Hits, Shows, PutsBack, Matches, Names
<1>2. /\ Restores(m, q)
      /\ pair \in Gaps \/ Names(m.hits, q.key) \/ q.key \in m.sets
      /\ q.key \in m.sets => pair.mutation \notin Overlapping
  BY EveryPair DEF m, q
<1> QED  BY <1>1, <1>2 DEF Restores, Replaces, Scope

LEMMA SamePair ==
    ASSUME pair' = pair
    PROVE  /\ q' = q /\ m' = m /\ Scope' = Scope /\ Keys' = Keys
           /\ Hits' <=> Hits
           /\ Shows' <=> Shows
           /\ PutsBack' <=> PutsBack
           /\ Replaces' <=> Replaces
           /\ \A w : WrittenAt(w)' = WrittenAt(w)
BY DEF q, m, Scope, Keys, Hits, Shows, PutsBack, Replaces, Matches, WrittenAt

LEMMA KeyFacts ==
    ASSUME NEW w \in Workspaces
    PROVE  KeyOf(w) \in Keys /\ (Scope # "path" => Keys = {"all"})
BY DEF KeyOf, Keys

LEMMA BlankTypes ==
    /\ Absent \in Entry /\ ~Absent.held
    /\ NoFlight \in Flight /\ NoFlight.stage = "none" /\ ~NoFlight.overtaken /\ ~NoFlight.retried
    /\ Idle \in Job /\ Idle.stage = "idle" /\ Idle.here /\ Idle.saved = Absent
<1>1. Absent \in Entry /\ ~Absent.held  BY DEF Absent, Entry, Places
<1>2. NoFlight \in Flight /\ NoFlight.stage = "none" /\ ~NoFlight.overtaken /\ ~NoFlight.retried
  BY DEF NoFlight, Flight, Places
<1>3. Idle \in Job /\ Idle.stage = "idle" /\ Idle.here /\ Idle.saved = Absent
  BY <1>1 DEF Idle, Job, Places
<1> QED  BY <1>1, <1>2, <1>3

LEMMA SentFacts ==
    ASSUME pair \in Together, NEW k \in Keys, NEW w \in Workspaces
    PROVE  /\ Sent(k, w) \in Flight /\ Sent(k, w).stage = "sent" /\ ~Sent(k, w).overtaken
           /\ Scope = "path" => Sent(k, w).ws = k
           /\ Scope = "header" => Sent(k, w).ws = w
<1>1. /\ Place(Scope, w, k) \in Places
      /\ Scope = "path" => Place(Scope, w, k) = k
      /\ Scope = "header" => Place(Scope, w, k) = w
  BY PairFacts DEF Place, Places, Keys
<1>2. Sent(k, w) = [NoFlight EXCEPT !.stage = "sent", !.ws = Place(Scope, w, k)]  BY DEF Sent
<1> QED  BY <1>1, <1>2, BlankTypes DEF Flight

LEMMA InvalidatedFacts ==
    ASSUME NEW c \in [Keys -> Entry], NEW ks
    PROVE  /\ Invalidated(c, ks) \in [Keys -> Entry]
           /\ \A k \in Keys : LET e == Invalidated(c, ks)[k] IN
                /\ (e.held <=> c[k].held) /\ e.ws = c[k].ws /\ e.data = c[k].data /\ (e.early <=> c[k].early)
                /\ c[k].invalid => e.invalid
                /\ e.held /\ k \in ks => e.invalid
BY DEF Invalidated, Entry

\* A key is requested anew, or its request is left there and known to be overtaken.
LEMMA RenewedFacts ==
    ASSUME Types, NEW c \in [Keys -> Entry], NEW ks, NEW w \in Workspaces
    PROVE  /\ Renewed(c, ks, w) \in [Keys -> Flight]
           /\ \A k \in Keys : LET f == Renewed(c, ks, w)[k] IN
                \/ k \notin ks /\ f = flight[k]
                \/ k \in ks /\ f = Sent(k, w)
                \/ /\ k \in ks /\ f.stage = flight[k].stage /\ f.ws = flight[k].ws /\ f.data = flight[k].data
                   /\ f.overtaken <=> f.stage # "none"
<1>1. flight \in [Keys -> Flight] /\ \A k \in Keys : Sent(k, w) \in Flight
  BY SentFacts DEF Types
<1>2. ASSUME NEW k \in Keys
      PROVE  LET f == Renewed(c, ks, w)[k] IN
             /\ f \in Flight
             /\ \/ k \notin ks /\ f = flight[k]
                \/ k \in ks /\ f = Sent(k, w)
                \/ /\ k \in ks /\ f.stage = flight[k].stage /\ f.ws = flight[k].ws /\ f.data = flight[k].data
                   /\ f.overtaken <=> f.stage # "none"
  <2> DEFINE o == [flight[k] EXCEPT !.overtaken = flight[k].stage # "none"]
  <2>1. Renewed(c, ks, w)[k] \in {flight[k], Sent(k, w), o}
        /\ (k \notin ks <=> Renewed(c, ks, w)[k] = flight[k] /\ k \notin ks)
        /\ (Renewed(c, ks, w)[k] # flight[k] => k \in ks)
    BY DEF Renewed
  <2>2. k \in ks => Renewed(c, ks, w)[k] \in {Sent(k, w), o}
    BY DEF Renewed
  <2>3. o \in Flight /\ o.stage = flight[k].stage /\ o.ws = flight[k].ws /\ o.data = flight[k].data
        /\ (o.overtaken <=> o.stage # "none")
    BY <1>1 DEF Flight
  <2> QED  BY <1>1, <2>1, <2>2, <2>3
<1>3. Renewed(c, ks, w) = [k \in Keys |-> Renewed(c, ks, w)[k]]  BY DEF Renewed
<1> QED  BY <1>2, <1>3

-----------------------------------------------------------------------------
(* The initial states, and what changes one request only.                  *)

LEMMA CacheInit == Init => CacheInv
<1> SUFFICES ASSUME Init PROVE CacheInv  OBVIOUS
<1>1. /\ pair \in Together /\ server = [p \in Places |-> {}]
      /\ tab = Home /\ stored = Home /\ mounted = TRUE /\ jobs = [i \in Jobs |-> Idle] /\ tabs = 0
      /\ flight = [k \in Keys |-> IF k = Key THEN Sent(k, Home) ELSE NoFlight]
  BY DEF Init, Places
<1>2. Home \in Workspaces  BY DEF Workspaces
<1>3. \A k \in Keys : /\ Sent(k, Home) \in Flight /\ Sent(k, Home).stage = "sent"
                      /\ Scope = "path" => Sent(k, Home).ws = k
                      /\ Scope = "header" => Sent(k, Home).ws = Home
  BY <1>1, <1>2, SentFacts
<1> DEFINE first == [Absent EXCEPT !.held = TRUE, !.ws = Place(Scope, Home, Home)]
<1>4. /\ first \in Entry /\ first.data = {}
      /\ Scope \in {"path", "header"} => first.ws = Home
  <2>1. /\ Place(Scope, Home, Home) \in Places
        /\ Scope \in {"path", "header"} => Place(Scope, Home, Home) = Home
    BY <1>1, PairFacts DEF Place, Places, Workspaces
  <2>2. Absent.data = {}  BY DEF Absent
  <2> QED  BY <2>1, <2>2, BlankTypes DEF Entry
<1>5. cache \in {[k \in Keys |-> Absent], [k \in Keys |-> IF k = Key THEN first ELSE Absent]}
  BY DEF Init
<1> HIDE DEF first
<1>6. /\ cache \in [Keys -> Entry]
      /\ \A k \in Keys : cache[k].held => k = Key /\ cache[k] = first
  BY <1>4, <1>5, BlankTypes
<1>7. /\ flight \in [Keys -> Flight]
      /\ \A k \in Keys : /\ flight[k].stage # "served"
                         /\ flight[k].stage # "none" => k = Key /\ flight[k] = Sent(k, Home)
  BY <1>1, <1>3, BlankTypes
<1>8. jobs \in [Jobs -> Job] /\ \A i \in Jobs : jobs[i] = Idle  BY <1>1, BlankTypes
<1>9. Types
  BY <1>1, <1>2, <1>6, <1>7, <1>8 DEF Types
<1>10. JobInv /\ OneHere
  BY <1>1, <1>8, BlankTypes DEF JobInv, OneHere, Busy, UnderWay
<1>11. TrueInv
  BY <1>4, <1>6, <1>7, <1>8, BlankTypes DEF TrueInv
<1>12. PlaceInv
  BY <1>1, <1>3, <1>4, <1>6, <1>7 DEF PlaceInv, Key, KeyOf
<1>13. OwnInv
  BY <1>7, <1>8, BlankTypes DEF OwnInv, Includes, Done
<1> QED  BY <1>9, <1>10, <1>11, <1>12, <1>13 DEF CacheInv

\* A step that changes the request for one key, and perhaps opens the page.
LEMMA FlightStep ==
    ASSUME CacheInv, NEW k \in Keys, NEW f \in Flight, flight' = [flight EXCEPT ![k] = f],
           UNCHANGED <<server, cache, jobs, pair, tab, stored, tabs>>, mounted' \in BOOLEAN,
           f.stage = "served" => /\ f.data \subseteq server[f.ws]
                                 /\ f.overtaken \/ Includes(f.data, f.ws),
           Scope = "path" /\ f.stage # "none" => f.ws = k,
           tabs = 0 /\ Scope = "header" /\ f.stage # "none" => f.overtaken \/ f.ws = tab
    PROVE  CacheInv'
<1> USE DEF CacheInv
<1>1. flight' \in [Keys -> Flight] /\ \A o \in Keys : flight'[o] = IF o = k THEN f ELSE flight[o]
  BY DEF Types
<1>2. Types'  BY <1>1, SamePair DEF Types
<1>3. JobInv' /\ OneHere'  BY SamePair DEF JobInv, OneHere, Busy
<1>4. Pending' = Pending  BY SamePair DEF Pending, Busy
<1>5. TrueInv'  BY <1>1, <1>4, SamePair DEF TrueInv
<1>6. PlaceInv'  BY <1>1, SamePair DEF PlaceInv
<1>7. \A d, w : Includes(d, w)' <=> Includes(d, w)  BY DEF Includes, Done
<1>8. OwnInv'  BY <1>1, <1>7, SamePair DEF OwnInv, AllHere
<1> QED  BY <1>2, <1>3, <1>5, <1>6, <1>8

LEMMA ServeKeeps ==
    ASSUME CacheInv, NEW k \in Keys, Serve(k) PROVE CacheInv'
<1> DEFINE f == [flight[k] EXCEPT !.stage = "served", !.data = server[flight[k].ws]]
<1>1. flight[k] \in Flight /\ flight[k].stage = "sent" /\ flight' = [flight EXCEPT ![k] = f]
  BY DEF Serve, CacheInv, Types
<1>2. server[flight[k].ws] \in SUBSET Jobs  BY <1>1 DEF CacheInv, Types, Flight
<1>3. /\ f \in Flight /\ f.data = server[f.ws] /\ f.ws = flight[k].ws
      /\ (f.overtaken <=> flight[k].overtaken)
  BY <1>1, <1>2 DEF Flight
<1>4. UNCHANGED <<server, cache, jobs, pair, tab, stored, tabs, mounted>>
  BY DEF Serve, context, bounds
<1>5. mounted' \in BOOLEAN  BY <1>4 DEF CacheInv, Types
<1> HIDE DEF f
<1>6. Includes(f.data, f.ws)  BY <1>3 DEF Includes
<1> QED  BY <1>1, <1>3, <1>4, <1>5, <1>6, FlightStep DEF CacheInv, PlaceInv

LEMMA SentKeeps ==
    ASSUME CacheInv, NEW k \in Keys, NEW f \in {NoFlight, Sent(k, stored), [Sent(k, stored) EXCEPT !.retried = TRUE]},
           flight' = [flight EXCEPT ![k] = f],
           UNCHANGED <<server, cache, jobs, pair, tab, stored, tabs>>, mounted' \in BOOLEAN
    PROVE  CacheInv'
<1>1. /\ Sent(k, stored) \in Flight /\ Sent(k, stored).stage = "sent" /\ ~Sent(k, stored).overtaken
      /\ Scope = "path" => Sent(k, stored).ws = k
      /\ Scope = "header" => Sent(k, stored).ws = stored
  BY SentFacts DEF CacheInv, Types
<1>2. /\ f \in Flight /\ f.stage # "served"
      /\ f.stage # "none" => f.ws = Sent(k, stored).ws
  BY <1>1, BlankTypes DEF Flight
<1>3. tabs = 0 => stored = tab  BY DEF CacheInv, PlaceInv
<1> QED  BY <1>1, <1>2, <1>3, FlightStep

LEMMA LoseKeeps ==
    ASSUME CacheInv, NEW k \in Keys, Lose(k) PROVE CacheInv'
<1>1. UNCHANGED <<server, cache, jobs, pair, tab, stored, tabs, mounted>>
  BY DEF Lose, context, bounds
<1>2. mounted' \in BOOLEAN  BY <1>1 DEF CacheInv, Types
<1>3. CASE flight[k].retried  BY <1>1, <1>2, <1>3, SentKeeps DEF Lose
<1>4. CASE ~flight[k].retried  BY <1>1, <1>2, <1>4, SentKeeps DEF Lose
<1> QED  BY <1>3, <1>4

LEMMA ThisKey == ASSUME CacheInv PROVE Key \in Keys /\ (Scope # "path" => Keys = {Key}) /\ (Scope = "path" => Key = tab)
BY KeyFacts DEF Key, CacheInv, Types, Keys, KeyOf

LEMMA PollKeeps ==
    ASSUME CacheInv, Poll PROVE CacheInv'
<1>1. UNCHANGED <<server, cache, jobs, pair, tab, stored, tabs, mounted>>
  BY DEF Poll, context, bounds
<1>2. mounted' \in BOOLEAN  BY <1>1 DEF CacheInv, Types
<1> QED  BY <1>1, <1>2, ThisKey, SentKeeps DEF Poll

LEMMA ReturnKeeps ==
    ASSUME CacheInv, Return PROVE CacheInv'
<1>1. UNCHANGED <<server, cache, jobs, pair, tab, stored, tabs>> /\ mounted' \in BOOLEAN
  BY DEF Return, bounds
<1>2. Key \in Keys /\ flight \in [Keys -> Flight]  BY ThisKey DEF CacheInv, Types
<1>3. flight' \in {flight, [flight EXCEPT ![Key] = Sent(Key, stored)]}
  BY <1>2 DEF Return, Fetch
<1>4. CASE flight' = [flight EXCEPT ![Key] = Sent(Key, stored)]
  BY <1>1, <1>2, <1>4, SentKeeps
<1>5. CASE flight' = flight
  BY <1>1, <1>2, <1>5, SamePair
     DEF CacheInv, Types, JobInv, OneHere, Busy, TrueInv, Pending, PlaceInv, OwnInv, AllHere, Includes, Done
<1> QED  BY <1>3, <1>4, <1>5

LEMMA ArriveKeeps ==
    ASSUME CacheInv, NEW k \in Keys, Arrive(k) PROVE CacheInv'
<1> USE DEF CacheInv
<1> DEFINE e == [held |-> TRUE, ws |-> flight[k].ws, data |-> flight[k].data,
                 invalid |-> FALSE, early |-> flight[k].overtaken]
<1>1. /\ flight[k] \in Flight /\ flight[k].stage = "served"
      /\ cache' = [cache EXCEPT ![k] = e] /\ flight' = [flight EXCEPT ![k] = NoFlight]
      /\ UNCHANGED <<server, jobs, pair, tab, stored, tabs, mounted>>
  BY DEF Arrive, context, bounds, Types
<1>2. /\ e \in Entry /\ e.ws = flight[k].ws /\ e.data = flight[k].data /\ ~e.invalid
      /\ e.early <=> flight[k].overtaken
  BY <1>1 DEF Entry, Flight
<1> HIDE DEF e
<1>3. /\ cache' \in [Keys -> Entry] /\ flight' \in [Keys -> Flight]
      /\ \A o \in Keys : cache'[o] = IF o = k THEN e ELSE cache[o]
      /\ \A o \in Keys : flight'[o] = IF o = k THEN NoFlight ELSE flight[o]
  BY <1>1, <1>2, BlankTypes DEF Types
<1>4. Types'  BY <1>1, <1>3, SamePair DEF Types
<1>5. JobInv' /\ OneHere'  BY <1>1, SamePair DEF JobInv, OneHere, Busy
<1>6. Pending' = Pending  BY <1>1, SamePair DEF Pending, Busy
<1>7. TrueInv'  BY <1>1, <1>2, <1>3, <1>6, BlankTypes, SamePair DEF TrueInv
<1>8. PlaceInv'  BY <1>1, <1>2, <1>3, BlankTypes, SamePair DEF PlaceInv
<1>9. \A d, w : Includes(d, w)' <=> Includes(d, w)  BY <1>1 DEF Includes, Done
<1>10. OwnInv'  BY <1>1, <1>2, <1>3, <1>9, BlankTypes, SamePair DEF OwnInv, AllHere
<1> QED  BY <1>4, <1>5, <1>7, <1>8, <1>10

-----------------------------------------------------------------------------
(* The mutations.                                                          *)

LEMMA RefuseKeeps ==
    ASSUME CacheInv, NEW i \in Jobs, Refuse(i) PROVE CacheInv'
<1> USE DEF CacheInv
<1>1. /\ jobs[i].stage = "sent" /\ jobs' = [jobs EXCEPT ![i].stage = "refused"]
      /\ UNCHANGED <<server, cache, flight, pair, tab, stored, tabs, mounted>>
  BY DEF Refuse, context, bounds
<1>2. /\ jobs' \in [Jobs -> Job]
      /\ \A o \in Jobs : /\ jobs'[o].stage = IF o = i THEN "refused" ELSE jobs[o].stage
                         /\ jobs'[o].ws = jobs[o].ws /\ jobs'[o].data = jobs[o].data
                         /\ jobs'[o].saved = jobs[o].saved /\ (jobs'[o].here <=> jobs[o].here)
  BY <1>1 DEF Types, Job
<1>3. \A o \in Jobs : (Busy(o)' <=> Busy(o)) /\ (Done(o)' <=> Done(o))
  BY <1>1, <1>2 DEF Busy, Done, UnderWay
<1>4. Types'  BY <1>1, <1>2, SamePair DEF Types
<1>5. JobInv' /\ OneHere'  BY <1>1, <1>2, <1>3, SamePair DEF JobInv, OneHere
<1>6. Pending' = Pending  BY <1>1, <1>3, SamePair DEF Pending
<1>7. TrueInv'  BY <1>1, <1>2, <1>6, SamePair DEF TrueInv
<1>8. PlaceInv'  BY <1>1, SamePair DEF PlaceInv
<1>9. \A d, w : Includes(d, w)' <=> Includes(d, w)  BY <1>1, <1>3 DEF Includes
<1>10. AllHere' <=> AllHere  BY <1>2 DEF AllHere
<1>11. OwnInv'  BY <1>1, <1>2, <1>9, <1>10, SamePair DEF OwnInv
<1> QED  BY <1>4, <1>5, <1>7, <1>8, <1>11

LEMMA PerformKeeps ==
    ASSUME CacheInv, NEW i \in Jobs, Perform(i) PROVE CacheInv'
<1> USE DEF CacheInv
<1> DEFINE at   == WrittenAt(jobs[i].ws)
           read == UNION {server'[p] : p \in at}
<1>1. /\ jobs[i].stage = "sent" /\ jobs' = [jobs EXCEPT ![i].stage = "applied", ![i].data = read]
      /\ server' = [p \in DOMAIN server |-> IF p \in at THEN server[p] \cup {i} ELSE server[p]]
      /\ UNCHANGED <<cache, flight, pair, tab, stored, tabs, mounted>>
  BY DEF Perform, context, bounds
<1>2. at \subseteq Places /\ (Replaces => at = {jobs[i].ws})
  <2>1. jobs[i].ws \in Places /\ (Replaces => Scope = "header" /\ jobs[i].ws \in Workspaces)
    BY <1>1, PairFacts DEF Types, Job, JobInv
  <2> QED  BY <2>1 DEF WrittenAt, Places
<1> HIDE DEF at
<1>3. /\ server' \in [Places -> SUBSET Jobs]
      /\ \A p \in Places : server'[p] = IF p \in at THEN server[p] \cup {i} ELSE server[p]
  BY <1>1 DEF Types
<1>4. read \in SUBSET Jobs /\ (Replaces => read = server'[jobs[i].ws] /\ i \in read)
  BY <1>2, <1>3
<1> HIDE DEF read
<1>5. /\ jobs' \in [Jobs -> Job]
      /\ \A o \in Jobs : /\ jobs'[o].stage = IF o = i THEN "applied" ELSE jobs[o].stage
                         /\ jobs'[o].data = IF o = i THEN read ELSE jobs[o].data
                         /\ jobs'[o].ws = jobs[o].ws
                         /\ jobs'[o].saved = jobs[o].saved /\ (jobs'[o].here <=> jobs[o].here)
  BY <1>1, <1>4 DEF Types, Job
<1>6. \A o \in Jobs : (Busy(o)' <=> Busy(o)) /\ (Done(o)' <=> Done(o)) /\ (Done(o) => o # i)
  BY <1>1, <1>5 DEF Busy, Done, UnderWay
<1>7. Types'  BY <1>1, <1>3, <1>5, SamePair DEF Types
<1>8. OneHere'  BY <1>1, <1>5, <1>6, SamePair DEF OneHere
<1>9. JobInv'
  <2> SUFFICES ASSUME NEW o \in Jobs
               PROVE  /\ jobs'[o].saved.held => PutsBack
                      /\ jobs'[o].stage = "idle" => jobs'[o].here
                      /\ jobs'[o].stage # "idle" /\ m.request.scope = "path" => jobs'[o].ws \in Workspaces
                      /\ jobs'[o].stage # "idle" /\ Replaces => jobs'[o].ws \in Workspaces
                      /\ \A p \in Places : o \in server'[p] =>
                             jobs'[o].stage \in {"applied", "done", "failed"} /\ p \in WrittenAt(jobs'[o].ws)
    BY <1>1, SamePair DEF JobInv
  <2>1. CASE o = i  BY <1>1, <1>3, <1>5, <2>1 DEF JobInv, at
  <2>2. CASE o # i
    <3>1. \A p \in Places : o \in server'[p] <=> o \in server[p]  BY <1>3, <2>2
    <3> QED  BY <1>5, <2>2, <3>1 DEF JobInv
  <2> QED  BY <2>1, <2>2
<1>10. Pending' = Pending  BY <1>1, <1>6, SamePair DEF Pending
<1>11. \A p \in Places : server[p] \subseteq server'[p]  BY <1>3
<1>12. TrueInv'
  <2>1. /\ \A k \in Keys : cache[k].ws \in Places /\ flight[k].ws \in Places
        /\ \A o \in Jobs : jobs[o].ws \in Places
    BY DEF Types, Entry, Flight, Job
  <2>2. \A k \in Keys :
           /\ cache[k].held => cache[k].invalid \/ cache[k].data \subseteq server'[cache[k].ws] \cup Pending
           /\ flight[k].stage = "served" => flight[k].data \subseteq server'[flight[k].ws]
    BY <1>11, <2>1 DEF TrueInv
  <2>3. \A o \in Jobs : jobs'[o].stage = "applied" /\ Replaces => jobs'[o].data \subseteq server'[jobs'[o].ws]
    BY <1>4, <1>5, <1>11, <2>1 DEF TrueInv
  <2> QED  BY <1>1, <1>10, <2>2, <2>3, SamePair DEF TrueInv
<1>13. PlaceInv'  BY <1>1, SamePair DEF PlaceInv
<1>14. \A d : \A w \in Places : Includes(d, w)' <=> Includes(d, w)
  BY <1>3, <1>6 DEF Includes
<1>15. AllHere' <=> AllHere  BY <1>5 DEF AllHere
<1>16. OwnInv'
  <2>1. /\ \A k \in Keys : cache[k].ws \in Places /\ flight[k].ws \in Places
        /\ \A o \in Jobs : jobs[o].ws \in Places
    BY DEF Types, Entry, Flight, Job
  <2>2. \A o \in Jobs : (jobs[o].stage = "applied")' /\ Replaces /\ pair \notin Gaps =>
              /\ (o \in jobs[o].data)'
              /\ AllHere => Includes(jobs[o].data, jobs[o].ws)'
    <3> TAKE o \in Jobs
    <3>1. CASE o = i
      <4>1. Replaces => \A j \in Jobs : j \in server'[jobs'[o].ws] => j \in jobs'[o].data
        BY <1>4, <1>5, <3>1
      <4> QED  BY <1>4, <1>5, <3>1, <4>1 DEF Includes
    <3>2. CASE o # i
      <4>1. \A j \in Jobs : Done(j)' /\ j \in server'[jobs[o].ws] => Done(j) /\ j \in server[jobs[o].ws]
        BY <1>3, <1>6, <2>1
      <4> QED  BY <1>5, <3>2, <4>1 DEF OwnInv, Includes
    <3> QED  BY <3>1, <3>2
  <2> QED  BY <1>1, <1>14, <1>15, <2>1, <2>2, SamePair DEF OwnInv
<1> QED  BY <1>7, <1>8, <1>9, <1>12, <1>13, <1>16

\* What an invalidation leaves of the requests.
LEMMA RenewedKeeps ==
    ASSUME CacheInv, NEW c \in [Keys -> Entry], NEW ks, NEW w \in Workspaces, flight' = Renewed(c, ks, w)
    PROVE  /\ flight' \in [Keys -> Flight]
           /\ \A k \in Keys :
                /\ flight'[k].stage = "served" =>
                      /\ flight[k].stage = "served" /\ flight'[k].ws = flight[k].ws /\ flight'[k].data = flight[k].data
                      /\ flight'[k].overtaken \/ (k \notin ks /\ (flight'[k].overtaken <=> flight[k].overtaken))
                /\ flight'[k].stage # "none" /\ Scope = "path" => flight'[k].ws = k
                /\ flight'[k].stage # "none" /\ Scope = "header" =>
                      flight'[k].overtaken \/ flight'[k].ws = w \/ (k \notin ks /\ flight'[k] = flight[k])
<1>1. Types /\ pair \in Together  BY DEF CacheInv, Types
<1>2. flight' \in [Keys -> Flight]
  BY <1>1, RenewedFacts
<1>3. ASSUME NEW k \in Keys
      PROVE  \/ k \notin ks /\ flight'[k] = flight[k]
             \/ k \in ks /\ flight'[k] = Sent(k, w)
             \/ /\ k \in ks /\ flight'[k].stage = flight[k].stage /\ flight'[k].ws = flight[k].ws
                /\ flight'[k].data = flight[k].data /\ (flight'[k].overtaken <=> flight'[k].stage # "none")
  BY <1>1, RenewedFacts
<1>4. \A k \in Keys : /\ Sent(k, w).stage = "sent"
                      /\ Scope = "path" => Sent(k, w).ws = k
                      /\ Scope = "header" => Sent(k, w).ws = w
  BY <1>1, SentFacts
<1>5. Scope = "path" => \A k \in Keys : flight[k].stage # "none" => flight[k].ws = k
  BY DEF CacheInv, PlaceInv
<1>6. ASSUME NEW k \in Keys
      PROVE  /\ flight'[k].stage = "served" =>
                   /\ flight[k].stage = "served" /\ flight'[k].ws = flight[k].ws /\ flight'[k].data = flight[k].data
                   /\ flight'[k].overtaken \/ (k \notin ks /\ (flight'[k].overtaken <=> flight[k].overtaken))
             /\ flight'[k].stage # "none" /\ Scope = "path" => flight'[k].ws = k
             /\ flight'[k].stage # "none" /\ Scope = "header" =>
                   flight'[k].overtaken \/ flight'[k].ws = w \/ (k \notin ks /\ flight'[k] = flight[k])
  <2>1. CASE k \notin ks /\ flight'[k] = flight[k]  BY <1>5, <2>1
  <2>2. CASE k \in ks /\ flight'[k] = Sent(k, w)  BY <1>4, <2>2
  <2>3. CASE /\ k \in ks /\ flight'[k].stage = flight[k].stage /\ flight'[k].ws = flight[k].ws
             /\ flight'[k].data = flight[k].data /\ (flight'[k].overtaken <=> flight'[k].stage # "none")
    BY <1>5, <2>3
  <2> QED  BY <1>3, <2>1, <2>2, <2>3
<1> QED  BY <1>2, <1>6

\* The keys that the hits of a job leave alone are those of another workspace.
LEMMA HitFacts ==
    ASSUME CacheInv, NEW i \in Jobs, jobs[i].stage # "idle"
    PROVE  /\ Shows \/ PutsBack => m.settles /\ Hit(i) = Keys
           /\ pair \notin Gaps => Replaces \/ \A k \in Keys \ Hit(i) : Scope = "path" /\ i \notin server[k]
<1>1. pair \in Together  BY DEF CacheInv, Types
<1>2. ~Hits \/ Hit(i) = IF Scope = "path" /\ m.request.scope = "path" THEN {jobs[i].ws} ELSE Keys
  BY DEF Hit, Hits
<1>3. ASSUME Hits, NEW k \in Keys \ Hit(i)
      PROVE  Scope = "path" /\ i \notin server[k]
  <2>1. Scope = "path" /\ m.request.scope = "path" /\ k # jobs[i].ws /\ k \in Workspaces
    BY <1>2, <1>3 DEF Keys
  <2>2. WrittenAt(jobs[i].ws) = {jobs[i].ws}
    BY <2>1 DEF CacheInv, JobInv, WrittenAt
  <2>3. k \in Places /\ k \notin WrittenAt(jobs[i].ws)
    BY <2>1, <2>2 DEF Places
  <2> QED  BY <2>1, <2>3 DEF CacheInv, JobInv
<1> QED  BY <1>1, <1>2, <1>3, PairFacts

\* An answer that replaces data.
LEMMA ReplaceKeeps ==
    ASSUME CacheInv, NEW i \in Jobs, Succeed(i), Replaces PROVE CacheInv'
<1> USE DEF CacheInv
<1>1. pair \in Together  BY DEF Types
<1>2. Scope = "header" /\ pair.mutation \notin Overlapping /\ Key \in Keys /\ Keys = {Key}
  BY <1>1, PairFacts, ThisKey
<1> DEFINE e == [held |-> TRUE, ws |-> jobs[i].ws, data |-> jobs[i].data, invalid |-> FALSE,
                 early |-> jobs[i].ws # tab \/ \E o \in Jobs : ~jobs[o].here]
           f == [flight[Key] EXCEPT !.overtaken = @ \/ flight[Key].stage # "none"]
<1>3. /\ jobs[i].stage = "applied" /\ jobs' = [jobs EXCEPT ![i].stage = "done"]
      /\ cache' = [cache EXCEPT ![Key] = e]
      /\ UNCHANGED <<server, pair, tab, stored, tabs, mounted>>
  BY DEF Succeed, context, bounds, Replaces
<1>4. flight' = [flight EXCEPT ![Key] = f]
  BY <1>2 DEF Succeed, Replaces, Types
<1>5. jobs[i] \in Job /\ flight[Key] \in Flight  BY <1>2 DEF Types
<1>6. /\ e \in Entry /\ e.ws = jobs[i].ws /\ e.data = jobs[i].data /\ ~e.invalid
      /\ ~e.early => e.ws = tab /\ AllHere
  BY <1>5 DEF Entry, Job, AllHere
<1>7. /\ f \in Flight /\ f.stage = flight[Key].stage /\ f.ws = flight[Key].ws /\ f.data = flight[Key].data
      /\ f.overtaken <=> flight[Key].overtaken \/ f.stage # "none"
  BY <1>5 DEF Flight
<1> HIDE DEF e, f
<1>8. /\ cache' \in [Keys -> Entry] /\ flight' \in [Keys -> Flight]
      /\ \A k \in Keys : cache'[k] = e /\ flight'[k] = f
  BY <1>2, <1>3, <1>4, <1>6, <1>7 DEF Types
<1>9. /\ jobs' \in [Jobs -> Job]
      /\ \A o \in Jobs : /\ jobs'[o].stage = IF o = i THEN "done" ELSE jobs[o].stage
                         /\ jobs'[o].ws = jobs[o].ws /\ jobs'[o].data = jobs[o].data
                         /\ jobs'[o].saved = jobs[o].saved /\ (jobs'[o].here <=> jobs[o].here)
  BY <1>3 DEF Types, Job
<1>10. \A o \in Jobs : (Busy(o)' <=> Busy(o) /\ o # i) /\ (Done(o)' <=> Done(o) \/ o = i)
  BY <1>9 DEF Busy, Done, UnderWay
<1>11. AllHere' <=> AllHere  BY <1>9 DEF AllHere
<1>12. Types'  BY <1>3, <1>8, <1>9, SamePair DEF Types
<1>13. JobInv' /\ OneHere'  BY <1>3, <1>9, <1>10, SamePair DEF JobInv, OneHere
<1>14. TrueInv'
  <2>1. e.data \subseteq server[e.ws]  BY <1>3, <1>6 DEF TrueInv
  <2> QED  BY <1>2, <1>3, <1>6, <1>7, <1>8, <1>9, <2>1, SamePair DEF TrueInv
<1>15. PlaceInv'  BY <1>2, <1>3, <1>6, <1>7, <1>8, SamePair DEF PlaceInv
<1>16. OwnInv'
  <2> SUFFICES ASSUME pair \notin Gaps PROVE OwnInv'  BY <1>3 DEF OwnInv
  <2>1. AllHere => \A o \in Jobs : Done(o)' /\ o \in server[jobs[i].ws] => o \in jobs[i].data
    BY <1>3, <1>10 DEF OwnInv, Includes
  <2>2. AllHere => \A o \in Jobs : jobs'[o].stage # "applied"
    BY <1>2, <1>3, <1>9 DEF OneHere, AllHere, Busy, UnderWay
  <2>3. \A o \in Jobs : jobs'[o].stage = "applied" => o \in jobs'[o].data
    BY <1>9 DEF OwnInv
  <2> QED  BY <1>3, <1>6, <1>7, <1>8, <1>11, <2>1, <2>2, <2>3, SamePair DEF OwnInv, Includes
<1> QED  BY <1>12, <1>13, <1>14, <1>15, <1>16

\* Mutation i ends at stage s; the keys ks are invalidated when the cache is c.
Ends(i, s, c, ks) ==
    /\ jobs[i].stage \in {"applied", "refused"} /\ jobs' = [jobs EXCEPT ![i].stage = s]
    /\ cache' = Invalidated(c, ks) /\ flight' = Renewed(c, ks, stored)
    /\ UNCHANGED <<server, pair, tab, stored, tabs, mounted>>
    /\ ks = Keys \/ (c = cache /\ ~Shows)
    /\ s = "done" => ks = Hit(i) /\ ~Replaces

LEMMA EndKeeps ==
    ASSUME CacheInv, NEW i \in Jobs, NEW s \in {"done", "failed"}, NEW c \in [Keys -> Entry], NEW ks,
           Ends(i, s, c, ks)
    PROVE  CacheInv'
<1> USE DEF CacheInv
<1>0. /\ jobs[i].stage \in {"applied", "refused"} /\ jobs' = [jobs EXCEPT ![i].stage = s]
      /\ cache' = Invalidated(c, ks) /\ flight' = Renewed(c, ks, stored)
      /\ UNCHANGED <<server, pair, tab, stored, tabs, mounted>>
      /\ ks = Keys \/ (c = cache /\ ~Shows)
      /\ s = "done" => ks = Hit(i) /\ ~Replaces
  BY DEF Ends
<1>1. /\ cache' \in [Keys -> Entry]
      /\ \A k \in Keys : /\ (cache'[k].held <=> c[k].held) /\ cache'[k].ws = c[k].ws /\ cache'[k].data = c[k].data
                         /\ (cache'[k].early <=> c[k].early) /\ (c[k].invalid => cache'[k].invalid)
                         /\ cache'[k].held /\ k \in ks => cache'[k].invalid
  BY <1>0, InvalidatedFacts
<1>2. stored \in Workspaces  BY DEF Types
<1>3. /\ flight' \in [Keys -> Flight]
      /\ \A k \in Keys :
           /\ flight'[k].stage = "served" =>
                 /\ flight[k].stage = "served" /\ flight'[k].ws = flight[k].ws /\ flight'[k].data = flight[k].data
                 /\ flight'[k].overtaken \/ (k \notin ks /\ (flight'[k].overtaken <=> flight[k].overtaken))
           /\ flight'[k].stage # "none" /\ Scope = "path" => flight'[k].ws = k
           /\ flight'[k].stage # "none" /\ Scope = "header" =>
                 flight'[k].overtaken \/ flight'[k].ws = stored \/ (k \notin ks /\ flight'[k] = flight[k])
  BY <1>0, <1>2, RenewedKeeps
<1>4. /\ jobs' \in [Jobs -> Job]
      /\ \A o \in Jobs : /\ jobs'[o].stage = IF o = i THEN s ELSE jobs[o].stage
                         /\ jobs'[o].ws = jobs[o].ws /\ jobs'[o].data = jobs[o].data
                         /\ jobs'[o].saved = jobs[o].saved /\ (jobs'[o].here <=> jobs[o].here)
  BY <1>0 DEF Types, Job
<1>5. \A o \in Jobs : /\ Busy(o)' <=> Busy(o) /\ o # i
                      /\ Done(o)' <=> Done(o) \/ (o = i /\ s = "done")
  BY <1>0, <1>4 DEF Busy, Done, UnderWay
<1>6. \A k \in Keys \ ks : c = cache /\ ~Shows
  BY <1>0
<1>7. Types'  BY <1>0, <1>1, <1>3, <1>4, SamePair DEF Types
<1>8. JobInv' /\ OneHere'  BY <1>0, <1>4, <1>5, SamePair DEF JobInv, OneHere
<1>9. TrueInv'
  <2>1. ~Shows => Pending = {} /\ Pending' = {}  BY <1>0, SamePair DEF Pending
  <2>2. \A k \in Keys :
          cache'[k].held => cache'[k].invalid \/ cache'[k].data \subseteq server[cache'[k].ws] \cup Pending'
    BY <1>1, <1>6, <2>1 DEF TrueInv
  <2>3. \A k \in Keys : flight'[k].stage = "served" => flight'[k].data \subseteq server[flight'[k].ws]
    BY <1>3 DEF TrueInv
  <2>4. \A o \in Jobs : jobs'[o].stage = "applied" /\ Replaces => jobs'[o].data \subseteq server[jobs'[o].ws]
    BY <1>4 DEF TrueInv
  <2> QED  BY <1>0, <2>2, <2>3, <2>4, SamePair DEF TrueInv
<1>10. PlaceInv'
  <2>1. ASSUME Scope = "path", NEW k \in Keys
        PROVE  cache'[k].held => cache'[k].invalid \/ cache'[k].ws = k
    BY <1>1, <1>6, <2>1 DEF PlaceInv
  <2>2. ASSUME tabs = 0, Scope = "header", NEW k \in Keys
        PROVE  /\ flight'[k].stage # "none" => flight'[k].overtaken \/ flight'[k].ws = tab
               /\ cache'[k].held => cache'[k].invalid \/ cache'[k].early \/ cache'[k].ws = tab
    BY <1>1, <1>3, <1>6, <2>2 DEF PlaceInv
  <2> QED  BY <1>0, <1>3, <2>1, <2>2, SamePair DEF PlaceInv
<1>11. OwnInv'
  <2> SUFFICES ASSUME pair \notin Gaps PROVE OwnInv'  BY <1>0 DEF OwnInv
  <2>1. ASSUME NEW k \in Keys \ ks, NEW d, NEW w, Scope = "path" => w = k, Includes(d, w)
        PROVE  \A o \in Jobs : Done(o)' /\ o \in server[w] => o \in d
    <3>1. s = "done" => w = k /\ i \notin server[k]  BY <1>0, <2>1, HitFacts
    <3> QED  BY <1>5, <2>1, <3>1 DEF Includes
  <2>2. \A k \in Keys : cache'[k].held =>
          \/ cache'[k].invalid \/ cache'[k].early
          \/ \A o \in Jobs : Done(o)' /\ o \in server[cache'[k].ws] => o \in cache'[k].data
    <3> SUFFICES ASSUME NEW k \in Keys \ ks, cache'[k].held, ~cache'[k].invalid, ~cache'[k].early
                 PROVE  \A o \in Jobs : Done(o)' /\ o \in server[cache'[k].ws] => o \in cache'[k].data
      BY <1>1
    <3>1. c = cache /\ cache[k].held /\ ~cache[k].invalid /\ ~cache[k].early  BY <1>1, <1>6
    <3>2. Includes(cache[k].data, cache[k].ws) /\ (Scope = "path" => cache[k].ws = k)
      BY <3>1 DEF OwnInv, PlaceInv
    <3> QED  BY <1>1, <2>1, <3>1, <3>2
  <2>3. \A k \in Keys : flight'[k].stage = "served" =>
          \/ flight'[k].overtaken
          \/ \A o \in Jobs : Done(o)' /\ o \in server[flight'[k].ws] => o \in flight'[k].data
    <3> SUFFICES ASSUME NEW k \in Keys, flight'[k].stage = "served", ~flight'[k].overtaken
                 PROVE  \A o \in Jobs : Done(o)' /\ o \in server[flight'[k].ws] => o \in flight'[k].data
      OBVIOUS
    <3>1. /\ k \notin ks /\ flight[k].stage = "served" /\ ~flight[k].overtaken
          /\ flight'[k].ws = flight[k].ws /\ flight'[k].data = flight[k].data
      BY <1>3
    <3>2. Includes(flight[k].data, flight[k].ws) /\ (Scope = "path" => flight[k].ws = k)
      BY <3>1 DEF OwnInv, PlaceInv
    <3> QED  BY <2>1, <3>1, <3>2
  <2>4. \A o \in Jobs : jobs'[o].stage = "applied" /\ Replaces =>
          /\ o \in jobs'[o].data
          /\ AllHere => \A j \in Jobs : Done(j)' /\ j \in server[jobs'[o].ws] => j \in jobs'[o].data
    <3>1. Replaces => \A j \in Jobs : Done(j)' <=> Done(j)  BY <1>0, <1>5
    <3> QED  BY <1>4, <3>1 DEF OwnInv, Includes
  <2>5. AllHere' <=> AllHere  BY <1>4 DEF AllHere
  <2> QED  BY <1>0, <2>2, <2>3, <2>4, <2>5, SamePair DEF OwnInv, Includes
<1> QED  BY <1>7, <1>8, <1>9, <1>10, <1>11

LEMMA SucceedKeeps ==
    ASSUME CacheInv, NEW i \in Jobs, Succeed(i) PROVE CacheInv'
<1>1. CASE Replaces  BY <1>1, ReplaceKeeps
<1>2. CASE ~Replaces
  <2>1. /\ jobs[i].stage = "applied" /\ jobs' = [jobs EXCEPT ![i].stage = "done"]
        /\ cache' = Invalidated(cache, Hit(i)) /\ flight' = Renewed(cache, Hit(i), stored)
        /\ UNCHANGED <<server, pair, tab, stored, tabs, mounted>>
    BY <1>2 DEF Succeed, Replaces, context, bounds
  <2>2. cache \in [Keys -> Entry]  BY DEF CacheInv, Types
  <2>3. Hit(i) = Keys \/ ~Shows  BY <2>1, HitFacts
  <2>4. Ends(i, "done", cache, Hit(i))  BY <1>2, <2>1, <2>3 DEF Ends
  <2> QED  BY <2>2, <2>4, EndKeeps
<1> QED  BY <1>1, <1>2

LEMMA FailKeeps ==
    ASSUME CacheInv, NEW i \in Jobs, Fail(i) PROVE CacheInv'
<1> DEFINE saved == [jobs[i].saved EXCEPT !.invalid = FALSE]
           back  == IF jobs[i].saved.held THEN [cache EXCEPT ![Key] = saved] ELSE cache
           ks    == IF m.settles THEN Hit(i) ELSE {}
<1>1. /\ jobs[i].stage \in {"applied", "refused"} /\ jobs' = [jobs EXCEPT ![i].stage = "failed"]
      /\ cache' = Invalidated(back, ks) /\ flight' = Renewed(back, ks, stored)
      /\ UNCHANGED <<server, pair, tab, stored, tabs, mounted>>
  BY DEF Fail, context, bounds
<1>2. cache \in [Keys -> Entry] /\ jobs[i].saved \in Entry  BY DEF CacheInv, Types, Job
<1>3. saved \in Entry  BY <1>2 DEF Entry
<1>4. back \in [Keys -> Entry] /\ (jobs[i].saved.held \/ back = cache)  BY <1>2, <1>3
<1>5. /\ Shows \/ PutsBack => m.settles /\ Hit(i) = Keys
      /\ jobs[i].saved.held => PutsBack
  BY <1>1, HitFacts DEF CacheInv, JobInv
<1>6. ks = Keys \/ (back = cache /\ ~Shows)  BY <1>4, <1>5
<1> HIDE DEF saved, back, ks
<1>7. Ends(i, "failed", back, ks)  BY <1>1, <1>6 DEF Ends
<1> QED  BY <1>4, <1>7, EndKeeps

LEMMA StartKeeps ==
    ASSUME CacheInv, NEW i \in Jobs, Start(i) PROVE CacheInv'
<1> USE DEF CacheInv
<1> DEFINE e   == cache[Key]
           ws  == Place(m.request.scope, stored, tab)
           row == IF ~m.request.row THEN ws ELSE IF e.held /\ Scope = "header" THEN e.ws ELSE Home
           kept == IF PutsBack THEN e ELSE Absent
           new == [Idle EXCEPT !.stage = "sent", !.ws = ws, !.row = row, !.saved = kept]
           d   == IF e.held /\ Shows THEN e.data \cup {i} ELSE e.data
<1>1. pair \in Together /\ Key \in Keys /\ e \in Entry /\ flight[Key] \in Flight
  BY ThisKey DEF Types
<1>2. /\ MayStart(i) /\ jobs[i].stage = "idle" /\ jobs' = [jobs EXCEPT ![i] = new]
      /\ cache' = [cache EXCEPT ![Key].data = IF e.held /\ Shows THEN @ \cup {i} ELSE @]
      /\ flight' = IF Matches(m.cancels) THEN [flight EXCEPT ![Key] = NoFlight] ELSE flight
      /\ UNCHANGED <<server, pair, tab, stored, tabs, mounted>>
  BY DEF Start, MayStart, Act, context, PutsBack, Shows
<1>3. /\ ws \in Places
      /\ m.request.scope = "path" => ws \in Workspaces
      /\ Replaces => ws \in Workspaces
  BY <1>1, PairFacts DEF Place, Places, Types
<1>4. row \in Places  BY <1>1, <1>3 DEF Entry, Places, Workspaces
<1>5. kept \in Entry /\ (kept.held => PutsBack)  BY <1>1, BlankTypes
<1> HIDE DEF ws, row, kept
<1>6. /\ new \in Job /\ new.stage = "sent" /\ new.ws = ws /\ new.saved = kept /\ new.here
  BY <1>3, <1>4, <1>5, BlankTypes DEF Job
<1> HIDE DEF new
<1>7. /\ jobs' \in [Jobs -> Job]
      /\ \A o \in Jobs : jobs'[o] = IF o = i THEN new ELSE jobs[o]
  BY <1>2, <1>6 DEF Types
<1>8. d \in SUBSET Jobs /\ e.data \subseteq d /\ d \subseteq e.data \cup {i} /\ (i \in d => Shows \/ i \in e.data)
  BY <1>1 DEF Entry
<1>9. /\ cache' \in [Keys -> Entry]
      /\ \A k \in Keys : /\ (cache'[k].held <=> cache[k].held) /\ cache'[k].ws = cache[k].ws
                         /\ (cache'[k].invalid <=> cache[k].invalid) /\ (cache'[k].early <=> cache[k].early)
                         /\ cache'[k].data = IF k = Key THEN d ELSE cache[k].data
  BY <1>1, <1>2, <1>8 DEF Types, Entry
<1>10. /\ flight' \in [Keys -> Flight]
       /\ \A k \in Keys : flight'[k] \in {flight[k], NoFlight}
  BY <1>1, <1>2, BlankTypes DEF Types
<1> HIDE DEF d, e
<1>11. \A o \in Jobs : (Busy(o)' <=> Busy(o) \/ o = i) /\ (Done(o)' <=> Done(o))
  BY <1>2, <1>6, <1>7 DEF Busy, Done, UnderWay
<1>12. Types'  BY <1>2, <1>7, <1>9, <1>10, SamePair DEF Types
<1>13. JobInv'
  <2>1. \A p \in Places : i \notin server[p]  BY <1>2 DEF JobInv
  <2> QED  BY <1>2, <1>3, <1>5, <1>6, <1>7, <2>1, SamePair DEF JobInv
<1>14. TrueInv'
  <2>1. Pending' = IF Shows THEN Pending \cup {i} ELSE Pending  BY <1>2, <1>11, SamePair DEF Pending
  <2>2. \A k \in Keys : cache'[k].held =>
          cache'[k].invalid \/ cache'[k].data \subseteq server[cache'[k].ws] \cup Pending'
    BY <1>8, <1>9, <2>1 DEF TrueInv, e
  <2>3. /\ \A k \in Keys : flight'[k].stage = "served" => flight'[k].data \subseteq server[flight'[k].ws]
        /\ \A o \in Jobs : jobs'[o].stage = "applied" /\ Replaces => jobs'[o].data \subseteq server[jobs'[o].ws]
    BY <1>6, <1>7, <1>10, BlankTypes DEF TrueInv
  <2> QED  BY <1>2, <2>2, <2>3, SamePair DEF TrueInv
<1>15. PlaceInv'  BY <1>2, <1>9, <1>10, BlankTypes, SamePair DEF PlaceInv
<1>16. OwnInv'
  <2> SUFFICES ASSUME pair \notin Gaps PROVE OwnInv'  BY <1>2 DEF OwnInv
  <2>1. \A c, w : Includes(c, w)' <=> Includes(c, w)  BY <1>2, <1>11 DEF Includes
  <2>2. \A k \in Keys : cache'[k].held => \/ cache'[k].invalid \/ cache'[k].early
                                          \/ Includes(cache'[k].data, cache'[k].ws)
    BY <1>8, <1>9 DEF OwnInv, Includes, e
  <2>3. \A k \in Keys : flight'[k].stage = "served" => flight'[k].overtaken \/ Includes(flight'[k].data, flight'[k].ws)
    BY <1>10, BlankTypes DEF OwnInv
  <2>4. AllHere' => AllHere  BY <1>2, <1>7 DEF AllHere, JobInv
  <2>5. \A o \in Jobs : jobs'[o].stage = "applied" /\ Replaces =>
          /\ o \in jobs'[o].data
          /\ AllHere' => Includes(jobs'[o].data, jobs'[o].ws)
    BY <1>6, <1>7, <2>4 DEF OwnInv
  <2> QED  BY <1>2, <2>1, <2>2, <2>3, <2>5, SamePair DEF OwnInv
<1>17. OneHere'
  <2> SUFFICES ASSUME pair.mutation \notin Overlapping PROVE OneHere'  BY <1>2 DEF OneHere
  <2>1. \A o \in Jobs : Busy(o) => ~jobs[o].here  BY <1>2 DEF MayStart, Busy
  <2> QED  BY <1>7, <1>11, <2>1 DEF OneHere
<1> QED  BY <1>12, <1>13, <1>14, <1>15, <1>16, <1>17

-----------------------------------------------------------------------------
(* The pages and the workspaces.                                           *)

LEMMA LeaveKeeps ==
    ASSUME CacheInv, Leave PROVE CacheInv'
<1> USE DEF CacheInv
<1>1. /\ jobs' = [i \in Jobs |-> [jobs[i] EXCEPT !.here = @ /\ jobs[i].stage \notin UnderWay]]
      /\ mounted' = FALSE
      /\ UNCHANGED <<server, cache, flight, pair, tab, stored, tabs>>
  BY DEF Leave, Act
<1>2. /\ jobs' \in [Jobs -> Job]
      /\ \A o \in Jobs : /\ jobs'[o].stage = jobs[o].stage /\ jobs'[o].ws = jobs[o].ws
                         /\ jobs'[o].data = jobs[o].data /\ jobs'[o].saved = jobs[o].saved
                         /\ jobs'[o].here <=> jobs[o].here /\ ~Busy(o)
  <2>1. ASSUME NEW o \in Jobs, NEW h \in BOOLEAN, h <=> jobs[o].here /\ ~Busy(o)
        PROVE  LET j == [jobs[o] EXCEPT !.here = h] IN
               /\ j \in Job /\ (j.here <=> h) /\ j.stage = jobs[o].stage /\ j.ws = jobs[o].ws
               /\ j.data = jobs[o].data /\ j.saved = jobs[o].saved
    BY DEF Types, Job
  <2>2. ASSUME NEW o \in Jobs
        PROVE  \E h \in BOOLEAN : /\ h <=> jobs[o].here /\ ~Busy(o)
                                  /\ jobs'[o] = [jobs[o] EXCEPT !.here = h]
    <3> DEFINE h == jobs[o].here /\ jobs[o].stage \notin UnderWay
    <3>1. h \in BOOLEAN /\ (h <=> jobs[o].here /\ ~Busy(o)) /\ jobs'[o] = [jobs[o] EXCEPT !.here = h]
      BY <1>1 DEF Busy
    <3> QED  BY <3>1
  <2>3. ASSUME NEW o \in Jobs
        PROVE  /\ jobs'[o] \in Job /\ jobs'[o].stage = jobs[o].stage /\ jobs'[o].ws = jobs[o].ws
               /\ jobs'[o].data = jobs[o].data /\ jobs'[o].saved = jobs[o].saved
               /\ jobs'[o].here <=> jobs[o].here /\ ~Busy(o)
    <3>1. PICK h \in BOOLEAN : /\ h <=> jobs[o].here /\ ~Busy(o)
                              /\ jobs'[o] = [jobs[o] EXCEPT !.here = h]
      BY <2>2
    <3> QED  BY <2>1, <3>1
  <2>4. jobs' = [o \in Jobs |-> jobs'[o]]  BY <1>1
  <2> QED  BY <2>3, <2>4
<1>3. \A o \in Jobs : (Busy(o)' <=> Busy(o)) /\ (Done(o)' <=> Done(o))  BY <1>2 DEF Busy, Done
<1>4. Types'  BY <1>1, <1>2, SamePair DEF Types
<1>5. JobInv'  BY <1>1, <1>2, SamePair DEF JobInv, Busy, UnderWay
<1>6. Pending' = Pending  BY <1>1, <1>3, SamePair DEF Pending
<1>7. TrueInv'  BY <1>1, <1>2, <1>6, SamePair DEF TrueInv
<1>8. PlaceInv'  BY <1>1, SamePair DEF PlaceInv
<1>9. \A d, w : Includes(d, w)' <=> Includes(d, w)  BY <1>1, <1>3 DEF Includes
<1>10. AllHere' => AllHere  BY <1>2 DEF AllHere
<1>11. OwnInv'  BY <1>1, <1>2, <1>9, <1>10, SamePair DEF OwnInv
<1>12. OneHere'  BY <1>1, <1>2, <1>3 DEF OneHere
<1> QED  BY <1>4, <1>5, <1>7, <1>8, <1>11, <1>12

LEMMA SwitchKeeps ==
    ASSUME CacheInv, Switch PROVE CacheInv'
<1> USE DEF CacheInv
<1>1. PICK w \in Workspaces :
          /\ tab' = w /\ stored' = w
          /\ cache' = Invalidated(cache, Keys)
          /\ \/ flight' = Renewed(cache, Keys, w)
             \/ flight' = [Renewed(cache, Keys, w) EXCEPT ![KeyOf(w)] = Sent(KeyOf(w), w)]
  BY DEF Switch
<1>2. UNCHANGED <<server, jobs, pair, mounted, tabs>>  BY DEF Switch, Act
<1>3. cache \in [Keys -> Entry] /\ pair \in Together  BY DEF Types
<1>4. /\ cache' \in [Keys -> Entry]
      /\ \A k \in Keys : cache'[k].held => cache'[k].invalid
  BY <1>1, <1>3, InvalidatedFacts
<1> DEFINE r == Renewed(cache, Keys, w)
<1>5. /\ r \in [Keys -> Flight]
      /\ \A k \in Keys : \/ r[k] = Sent(k, w)
                         \/ /\ r[k].stage = flight[k].stage /\ r[k].ws = flight[k].ws /\ r[k].data = flight[k].data
                            /\ r[k].overtaken <=> r[k].stage # "none"
  BY <1>3, RenewedFacts
<1>6. \A k \in Keys : /\ Sent(k, w) \in Flight /\ Sent(k, w).stage = "sent"
                      /\ Scope = "path" => Sent(k, w).ws = k
                      /\ Scope = "header" => Sent(k, w).ws = w
  BY <1>3, SentFacts
<1> HIDE DEF r
<1>7. /\ flight' \in [Keys -> Flight]
      /\ \A k \in Keys : flight'[k] \in {r[k], Sent(k, w)}
  BY <1>1, <1>5, <1>6, KeyFacts DEF r
<1>8. \A k \in Keys :
        /\ flight'[k].stage = "served" => /\ flight[k].stage = "served" /\ flight'[k].ws = flight[k].ws
                                          /\ flight'[k].data = flight[k].data /\ flight'[k].overtaken
        /\ flight'[k].stage # "none" => /\ Scope = "path" => flight'[k].ws = k
                                        /\ Scope = "header" => flight'[k].overtaken \/ flight'[k].ws = w
  BY <1>5, <1>6, <1>7 DEF PlaceInv
<1>9. Types'  BY <1>1, <1>2, <1>4, <1>7, SamePair DEF Types
<1>10. JobInv' /\ OneHere'  BY <1>2, SamePair DEF JobInv, OneHere, Busy
<1>11. TrueInv'  BY <1>2, <1>4, <1>8, SamePair DEF TrueInv
<1>12. PlaceInv'  BY <1>1, <1>2, <1>4, <1>8, SamePair DEF PlaceInv
<1>13. \A d, o : Includes(d, o)' <=> Includes(d, o)  BY <1>2 DEF Includes, Done
<1>14. OwnInv'  BY <1>2, <1>4, <1>8, <1>13, SamePair DEF OwnInv, AllHere
<1> QED  BY <1>9, <1>10, <1>11, <1>12, <1>14

LEMMA SwitchElsewhereKeeps ==
    ASSUME CacheInv, SwitchElsewhere PROVE CacheInv'
<1>1. /\ tabs' = tabs + 1 /\ stored' \in Workspaces
      /\ UNCHANGED <<server, cache, flight, jobs, pair, tab, mounted>>
  BY DEF SwitchElsewhere
<1>2. tabs' \in Nat /\ tabs' # 0  BY <1>1 DEF CacheInv, Types
<1>3. Types'  BY <1>1, <1>2, SamePair DEF CacheInv, Types
<1>4. PlaceInv'  BY <1>1, <1>2, SamePair DEF CacheInv, PlaceInv
<1>5. JobInv' /\ OneHere' /\ TrueInv' /\ OwnInv'
  BY <1>1, SamePair DEF CacheInv, JobInv, OneHere, TrueInv, Pending, OwnInv, Busy, Includes, Done, AllHere
<1> QED  BY <1>3, <1>4, <1>5 DEF CacheInv

-----------------------------------------------------------------------------
(* What the invariant says of the cache.                                   *)

LEMMA CacheNext == CacheInv /\ [Next]_vars => CacheInv'
<1> SUFFICES ASSUME CacheInv, [Next]_vars PROVE CacheInv'  OBVIOUS
<1>1. ASSUME NEW k \in Keys, FetchStep(k) PROVE CacheInv'
  BY <1>1, ServeKeeps, ArriveKeeps, LoseKeeps DEF FetchStep
<1>2. ASSUME NEW i \in Jobs, JobStep(i) PROVE CacheInv'
  BY <1>2, PerformKeeps, RefuseKeeps, SucceedKeeps, FailKeeps DEF JobStep
<1>3. ASSUME NEW i \in Jobs, Start(i) PROVE CacheInv'
  BY <1>3, StartKeeps
<1>4. CASE Poll  BY <1>4, PollKeeps
<1>5. CASE Leave  BY <1>5, LeaveKeeps
<1>6. CASE Return  BY <1>6, ReturnKeeps
<1>7. CASE Switch  BY <1>7, SwitchKeeps
<1>8. CASE SwitchElsewhere  BY <1>8, SwitchElsewhereKeeps
<1>9. CASE UNCHANGED vars
  BY <1>9, SamePair
     DEF vars, context, bounds, CacheInv, Types, JobInv, OneHere, TrueInv, Pending, PlaceInv, OwnInv,
         Busy, Includes, Done, AllHere
<1> QED  BY <1>1, <1>2, <1>3, <1>4, <1>5, <1>6, <1>7, <1>8, <1>9 DEF Next

LEMMA CacheAlways == Spec => []CacheInv
BY CacheInit, CacheNext, PTL DEF Spec

\* Types of the cache, the requests and the mutations, for any set of mutations and
\* any number of actions of the user: what the cache keeps (use-packages.ts and the
\* other files of hooks) is data of a place of the server, with writes of the user.
THEOREM CacheTypeCorrect == Spec => []TypeOK
<1>1. CacheInv => TypeOK
  BY DEF CacheInv, Types, TypeOK, Entry, Flight, Job
<1> QED  BY <1>1, CacheAlways, PTL

\* What every mutation reports as done is shown on its page when nothing is under
\* way, for every pair of a mutation and a query of a page (the invalidations of the
\* hooks: use-packages.ts, use-alerts.ts, use-notifications.ts, use-workspaces.ts...).
THEOREM OwnWritesAreShown == Spec => []OwnWriteShown
<1>1. CacheInv => OwnWriteShown
  BY ThisKey DEF CacheInv, OwnInv, Includes, Done, OwnWriteShown, Shown
<1> QED  BY <1>1, CacheAlways, PTL

\* What a mutation shows in advance is put back or marked when it fails, also when
\* mutations overlap (onMutate, onError and onSettled of use-alerts.ts and
\* use-notifications.ts).
THEOREM NothingFalseShown == Spec => []NothingFalse
<1>1. ASSUME CacheInv PROVE NothingFalse
  <2>1. Quiet => Pending = {}  BY DEF Quiet, Pending, Busy
  <2>2. Key \in Keys  BY <1>1, ThisKey
  <2> QED  BY <1>1, <2>1, <2>2 DEF CacheInv, TrueInv, NothingFalse, Shown
<1> QED  BY <1>1, CacheAlways, PTL

\* A tab shows the data of its workspace after any sequence of switches made in it,
\* whatever requests were under way (setCurrentWorkspace of auth-provider.tsx).
THEOREM TabShowsOwnWorkspace == Spec => []TabShowsItsWorkspace
<1>1. ASSUME CacheInv PROVE TabShowsItsWorkspace
  <2>1. pair \in Together /\ Key \in Keys /\ (Scope = "path" => Key = tab)
    BY <1>1, ThisKey DEF CacheInv, Types
  <2> QED  BY <1>1, <2>1, PairFacts DEF CacheInv, PlaceInv, TabShowsItsWorkspace, Shown
<1> QED  BY <1>1, CacheAlways, PTL

=============================================================================
