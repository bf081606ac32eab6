------------------------------ MODULE Screens ------------------------------
(***************************************************************************)
(* The screens of the browser application, as the records Views works on.  *)
(* A definition is named for its component; it says how the component loads *)
(* its data, what a change of the subject in its effect's dependencies does *)
(* to them, and which flag guards which operation and what its answer does. *)
(* Operations with the same flag and the same answer are one entry; a panel *)
(* whose parent loads its data (onRefresh, onReload, onChanged) is taken     *)
(* together with that load.                                                 *)
(***************************************************************************)

Op(lock, then) == [lock |-> lock, then |-> then, ask |-> {}]
Asks(op, guards) == [op EXCEPT !.ask = guards]

Screen(load, change, ops) == [load |-> load, change |-> change, poll |-> FALSE, ops |-> ops]
Form(ops) == Screen("none", "fixed", ops)
Plain(change, ops) == Screen("plain", change, ops)
Guarded(change, ops) == Screen("guarded", change, ops)
Query(change, ops) == Screen("query", change, ops)
Polled(s) == [s EXCEPT !.poll = TRUE]

Submits == {Op("one", "close")}

(* Administration *)
ApiKeySettings == Plain("clears", {Op("one", "stay")})
AccountStatusSection == Plain("fixed", {Op("one", "reload")})
ResetPasswordSection == Form({Op("one", "stay")})
TwoFactorAdminSection == Plain("fixed", {Op("one", "reload")})
PortalPermissionsSection == Form({Op("one", "stay")})
UserForm == Form(Submits)
TokenPairSection == Form({Op("one", "stay")})
NodeFormModal == Form({Op("one", "close"), Op("own", "stay")})
LanguagesTab == Query("fixed", {Op("free", "stay"), Op("free", "reload")})
ThemesTab == Query("fixed", {Op("free", "stay"), Op("free", "reload")})
LicenseSectionAdmin == Plain("fixed", {Op("each", "reload")})
LicenseStatusBanner == Plain("fixed", {})
NodeDefaultStoragesSection == Plain("fixed", {Op("one", "await")})
NodeDefaultTemplatesSection == Plain("fixed", {Op("one", "await")})
NodeTable == Plain("fixed", {Op("one", "reload")})
PackerHttpIpSection == Plain("fixed", {Op("one", "await")})
PlaybookVmidRangeSection == Plain("fixed", {Op("one", "await")})
VmidRangeSection == Plain("fixed", {Op("one", "await")})
SshKeySection == Plain("fixed", {Op("one", "await"), Op("own", "patch")})
ProxmoxLoginSection == Plain("fixed", {Op("one", "patch")})
ResetPasswordModal == Form(Submits)
TwoFactorPolicySection == Plain("fixed", {Op("one", "patch")})
UserTable == Plain("fixed", {Op("last", "reload")})
WebhookAllowlistSection == Query("fixed", {Op("one", "reload"), Op("own", "await")})
PresetForm == Form(Submits)
AdminApiKeyCreateModal == Form(Submits)
ApiKeyDeleteConfirmModal == Form(Submits)
ApiKeyRevokeConfirmModal == Form(Submits)
ExternalApiLogTable == Query("clears", {})
AssignmentSection == Plain("clears", {Op("one", "reload"), Op("free", "reload")})
PresetTable == Plain("fixed", {Op("one", "reload")})
AnnouncementDeleteConfirmModal == Form(Submits)
AnnouncementFormModal == Form(Submits)
AnnouncementsSection == Plain("fixed", {Op("free", "patch"), Op("one", "reload")})

(* Dashboard *)
VmDelete == Asks(Op("last", "reload"), {"impact", "ipam"})
VmTable == Query("fixed", {VmDelete, Op("each", "stay")})  \* the other is the SSH check
AlertsBanner == Polled(Plain("fixed", {Op("one", "stay")}))
EventsFeed == Polled(Plain("fixed", {}))
BulkActionToolbar == Form({Op("one", "stay")})

(* Profile *)
SshKeyTab == Plain("fixed", {Op("one", "await"), Op("own", "await"), Op("last", "await")})
ApiKeyCreateModal == Query("fixed", Submits)
TwoFactorSection == Plain("fixed", {Op("one", "stay"), Op("one", "await")})
ApiKeysTab == Plain("fixed", {Op("last", "patch"), Op("one", "reload")})
AppearanceTab == Plain("fixed", {Op("one", "stay")})
NotificationsTab == Plain("fixed", {Op("one", "stay")})

(* Pages *)
UsersTab == Plain("fixed", {Op("one", "reload")})
NodesTab == Plain("fixed", {Op("one", "reload")})
ContentTab == Plain("fixed", {Op("each", "await"), Op("one", "reload")})
AutomationPage == Query("fixed", {Op("one", "reload")})
AutomationDetail == Plain("clears", {})
TemplateCard == Query("fixed", {Op("each", "reload")})
ImageFactoryPage == Query("fixed", {Op("one", "reload")})
ImageFactoryDetail == Plain("clears", {})
VmDetailPage == Plain("clears", {Op("one", "await"), Op("own", "await")})
ChangePasswordPage == Form(Submits)
ProvisioningPage == Query("fixed", {Op("one", "reload")})
ProvisioningDetail == Plain("clears", {})
AuditLogsTab == Query("clears", {})

(* Compute nodes *)
BackupJobFormModal == Plain("keeps", Submits)
NetworkBridgeFormModal == Plain("keeps", Submits)
NetworkVlanFormModal == Plain("keeps", Submits)
ComputeBackupJobsTab == Plain("clears", {Op("last", "patch"), Op("one", "reload")})
ComputeBackupsTab == Plain("clears", {})
ComputeNetworkTab == Plain("clears", {Op("one", "reload")})
VmMultiSelect == Guarded("keeps", {})
ComputeEventsTab == Plain("clears", {})

(* Software-defined network *)
SdnManagementTab == Plain("keeps", {Op("one", "reload")})
SdnDeleteUsageConfirmModal == Plain("clears", Submits)
SdnSubnetFormModal == Form(Submits)
SdnVnetFormModal == Form(Submits)
SdnZoneFormModal == Guarded("fixed", Submits)

(* Firewall *)
FirewallRuleFormModal == Form(Submits)
AliasFormModal == Form(Submits)
AliasesManager == Plain("keeps", {Op("one", "reload")})
CreateIpSetModal == Form(Submits)
EntriesEditor == Plain("keeps", {Op("one", "reload")})
IpSetsManager == Plain("keeps", {Op("one", "reload")})
CreateGroupModal == Form(Submits)
FirewallUsageConfirmModal == Plain("fixed", Submits)
FirewallRulesTable == Plain("keeps", {Op("last", "reload"), Op("one", "reload")})
FirewallOptionsForm == Plain("keeps", {Op("one", "reload")})
VmFirewallTab == Plain("keeps", {Op("last", "reload"), Op("one", "reload")})
NodeFirewallPanel == Plain("clears", {Op("last", "reload"), Op("one", "reload")})
DatacenterFirewallPanel == Plain("keeps", {Op("last", "reload"), Op("one", "reload")})
SecurityGroupsManager == Plain("clears", {Op("last", "reload"), Op("one", "reload")})

(* Image factory *)
LxcTemplatesTab == Query("fixed", {Op("last", "reload"), Op("one", "reload")})
LxcUploadModal == Plain("clears", Submits)
LxcDownloadModal == Plain("clears", Submits)

(* Setup wizard *)
WizardStep2Database == Form({Op("one", "close"), Op("own", "stay")})
WizardStep3Admin == Form(Submits)
WizardStep4Node == Form({Op("one", "close"), Op("own", "stay")})
TokenPair == Form({Op("one", "stay")})
WizardStep5Tokens == Form({Op("one", "close"), Op("own", "stay")})
WizardStep6Packer == Plain("fixed", Submits)
WizardStep7Complete == Form(Submits)

(* Address pools *)
IpamPoolFormModal == Plain("keeps", Submits)
IpamPoolsTab == Plain("fixed", {Op("one", "await")})

(* Guests *)
BackupCreateModal == Form(Submits)
CloneModal == Guarded("clears", Submits)
ConvertTemplateModal == Form({Asks(Op("one", "close"), {"ha"})})
MigrateModal == Guarded("clears", {Asks(Op("one", "close"), {"ha"})})
SnapshotModal == Plain("clears", {Op("own", "await"), Asks(Op("one", "await"), {"impact"})})
VmActionButtons == Form({Op("each", "stay"),  \* start, reboot, stop
                         Asks(Op("each", "stay"), {"impact"}),
                         Asks(Op("each", "stay"), {"impact", "ha"})})
ActiveAlertsSection == Plain("keeps", {})
VmAlertsTab == Plain("clears", {Op("one", "await"), Op("free", "await")})
VmBackupSection == Plain("keeps", {Op("one", "await")})
VmConfigEditModal == Form(Submits)
VmSnapshotSection == Plain("keeps", {Op("own", "await"), Asks(Op("one", "await"), {"impact"})})
AddDiskModal == Guarded("keeps", Submits)
RemoveDiskModal == Form(Submits)
ResizeDiskModal == Form(Submits)

(* Shared dialogs *)
ConfirmModal == Form(Submits)

(* Playbooks *)
IpConfigField == Guarded("fixed", {Op("one", "stay")})
PlaybookForm == Plain("fixed", Submits)
PlaybookVmIdField == Polled(Plain("fixed", {}))
PlaybookUploadModal == Form(Submits)
ProxmoxBridgeSelector == Plain("clears", {})
ProxmoxNodeSelector == Plain("fixed", {})
ProxmoxTemplateSelector == Plain("fixed", {})
SshKeyField == Plain("fixed", {})
TargetVmSelector == Plain("fixed", {})
VmAccessField == Plain("fixed", {})

(* Packer *)
IsoDownloadModal == Guarded("keeps", {Op("one", "close"), Op("own", "stay")})
IsoManagerTab == Plain("clears", {Op("one", "reload")})
PackerBuildForm == Plain("keeps", Submits)
PackerUploadModal == Form(Submits)
ProxmoxTemplatesTab == Polled(Plain("fixed", {Op("last", "patch")}))

(* Alert rules *)
AlertRuleFormModal == Form(Submits)
AlertRuleList == Plain("fixed", {Op("one", "await"), Op("free", "await")})

(* High availability *)
HaMigrateModal == Guarded("keeps", Submits)
HaResourceFormModal == Form(Submits)
HaResourcesSection == Plain("keeps", {Op("one", "reload")})
HaRuleFormModal == Plain("keeps", Submits)
HaRulesSection == Plain("keeps", {Op("one", "reload")})
HaStatusTab == Polled(Plain("keeps", {}))

(* Compute *)
NodeDetailSection == Plain("clears", {})

(* Feature modules *)
OnboardingBlockModal == Guarded("keeps", {})
DeleteGroupConfirmModal == Form(Submits)
GroupDetailModal == Plain("keeps", {Op("one", "await"), Op("free", "await")})
GroupFormModal == Form(Submits)
AssignmentModal == Form(Submits)
AddCoOwnerModal == Plain("keeps", {Op("one", "leave")})
TransferOwnerModal == Plain("keeps", {Op("one", "leave")})
PinListRow == Form({Op("one", "stay")})
OwnerSection == Query("clears", {Op("one", "reload"), Op("free", "reload")})
useGroups == Plain("keeps", {})
GroupsPage == Plain("clears", {Op("one", "reload")})
NodeAccessModal == Plain("clears", {Op("one", "await")})
FavoritesPage == Query("fixed", {Op("free", "patch")})
usePinToggle == Plain("keeps", {Op("one", "patch")})
ConnectivityTestButton == Form({Op("one", "stay")})
InstallationDiscoveryView == Query("clears", {Op("one", "await"), Op("own", "await")})
HelpAdminSection == Query("fixed", {Op("one", "await")})
HelpSlideOver == Query("fixed", {Op("one", "await")})
HelpUploadSection == Query("fixed", {Op("one", "await")})
MyHelpOverridesTab == Query("fixed", {Op("one", "await")})
UpdatesTab == Query("clears", {Op("one", "reload")})
NotificationTabContent == Query("clears", {Op("one", "reload"), Op("free", "reload")})
NotificationWidget == Query("fixed", {})
ToolingRecheckButton == Query("fixed", {Op("one", "reload")})

(* Hooks *)
useClusterData == Query("fixed", {})
useVmIps == Plain("keeps", {})
usePackerNodes == Plain("keeps", {})

AllScreens ==
  {VmActionButtons, ApiKeySettings,
   AccountStatusSection, ResetPasswordSection, TwoFactorAdminSection,
   PortalPermissionsSection, UserForm, TokenPairSection, NodeFormModal, VmTable, SshKeyTab,
   UsersTab, NodesTab, ContentTab, BackupJobFormModal, SdnManagementTab, FirewallRuleFormModal,
   ApiKeyCreateModal, TwoFactorSection, LxcTemplatesTab, WizardStep2Database, WizardStep3Admin,
   WizardStep4Node, TokenPair, WizardStep5Tokens, WizardStep6Packer, WizardStep7Complete,
   NetworkBridgeFormModal, NetworkVlanFormModal, IpamPoolFormModal, AutomationPage,
   TemplateCard, ImageFactoryPage, ImageFactoryDetail, AutomationDetail, ProvisioningDetail,
   LanguagesTab, ThemesTab, LicenseSectionAdmin,
   LicenseStatusBanner, NodeDefaultStoragesSection, NodeDefaultTemplatesSection, NodeTable,
   PackerHttpIpSection, PlaybookVmidRangeSection, VmidRangeSection, SshKeySection,
   ProxmoxLoginSection, ResetPasswordModal, TwoFactorPolicySection, UserTable,
   WebhookAllowlistSection, PresetForm, AdminApiKeyCreateModal, ApiKeyDeleteConfirmModal,
   ApiKeyRevokeConfirmModal, ExternalApiLogTable, AssignmentSection, PresetTable,
   AnnouncementDeleteConfirmModal, AnnouncementFormModal, AnnouncementsSection,
   BackupCreateModal, CloneModal, ConvertTemplateModal, MigrateModal, SnapshotModal,
   ActiveAlertsSection, VmAlertsTab, VmBackupSection, VmConfigEditModal, VmSnapshotSection,
   AddDiskModal, RemoveDiskModal, ResizeDiskModal, ConfirmModal, IpConfigField, PlaybookForm,
   PlaybookVmIdField, PlaybookUploadModal, ProxmoxBridgeSelector, ProxmoxNodeSelector,
   ProxmoxTemplateSelector, SshKeyField, TargetVmSelector, VmAccessField, IsoDownloadModal,
   IsoManagerTab, PackerBuildForm, PackerUploadModal, AlertRuleFormModal, AlertRuleList,
   HaMigrateModal, HaResourceFormModal, HaResourcesSection, HaRuleFormModal, HaRulesSection,
   HaStatusTab, SdnDeleteUsageConfirmModal, SdnSubnetFormModal, SdnVnetFormModal,
   SdnZoneFormModal, ApiKeysTab, AppearanceTab, NotificationsTab, ProxmoxTemplatesTab,
   AliasFormModal, AliasesManager, CreateIpSetModal, EntriesEditor, IpSetsManager,
   CreateGroupModal, FirewallUsageConfirmModal, ComputeBackupJobsTab, ComputeBackupsTab,
   ComputeNetworkTab, VmMultiSelect, LxcUploadModal, LxcDownloadModal, FirewallRulesTable,
   FirewallOptionsForm, VmFirewallTab, NodeFirewallPanel, DatacenterFirewallPanel,
   SecurityGroupsManager, ComputeEventsTab, NodeDetailSection, OnboardingBlockModal,
   DeleteGroupConfirmModal, GroupDetailModal, GroupFormModal, AssignmentModal, AddCoOwnerModal,
   TransferOwnerModal, PinListRow, OwnerSection, useGroups, GroupsPage, NodeAccessModal,
   FavoritesPage, usePinToggle, ConnectivityTestButton, InstallationDiscoveryView,
   HelpAdminSection, HelpSlideOver, HelpUploadSection, MyHelpOverridesTab, UpdatesTab,
   NotificationTabContent, NotificationWidget, ToolingRecheckButton, useClusterData, useVmIps,
   usePackerNodes, VmDetailPage, ChangePasswordPage, AlertsBanner, EventsFeed,
   BulkActionToolbar, ProvisioningPage, IpamPoolsTab, AuditLogsTab}

==============================================================================
