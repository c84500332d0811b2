------------------------------- MODULE Console ------------------------------
(***************************************************************************)
(* The pages of the web client that read and change data of the server     *)
(* over requests, each as it is while it is open: the lists (Lists), the   *)
(* forms of the settings (SettingsForms), the import wizard, the resources *)
(* page, the audit log, the graph, and of ResourcePage the fields that     *)
(* keep state of their own and the side panel.  Leaving a page drops its   *)
(* state and every answer it waits for, so a behaviour is a visit of one   *)
(* page.  Signing in is Session, the fields and the submission of a form   *)
(* ResourceForm, the bars of running operations OperationBars.             *)
(***************************************************************************)
EXTENDS Naturals, Sequences, FiniteSets

CONSTANTS
  None, Gone, Blank,                            \* nulls
  Ids, First, MaxPresses,                       \* Lists
  Values, MaxActs,                              \* SettingsForms
  Scopes, Items, Shared, MaxScans, MaxImports,  \* ImportWizard
  Regions, PerRegion, MaxFetches,               \* Picker, SidePanel
  MaxGroups, MaxRules,                          \* the two editors
  Repos, Inputs, MaxClicks,                     \* SidePanel
  LastPage, MaxTurns,                           \* AuditLog
  MaxGroup,                                     \* GraphView
  Resources, MaxInits                           \* MyResources

ASSUME ConstantsAssumption ==
  /\ First \in Ids /\ Repos # {} /\ Inputs # {} /\ Regions # {} /\ Values # {}
  /\ Shared \in Items /\ Cardinality(Items) > 1
  /\ {MaxPresses, MaxActs, MaxScans, MaxImports, PerRegion, MaxFetches, MaxGroups, MaxRules,
      MaxClicks, LastPage, MaxTurns, MaxGroup, MaxInits} \subseteq Nat \ {0}

VARIABLES
  at,  \* the page, or the part of one, that is open
  rows, shown, statusFilter, form, busy, calls, reads, overtaken, missed, presses,
  stored, shownStatus, draft, method, saving, message, requests, typed, last, dirty, early,
  savesCrossed, failed, acts,
  step, scope, scan, found, ticked, import, importResult, managed, scans, imports, served, raced,
  importLost,
  formRegion, multi, picked, items, loadingItems, error, isOpen, manualMode, itemFetches,
  itemsCrossed, strays, fetched,
  groupsValue, groups, groupsSettled, mixed,
  rulesValue, rules, rulesSettled, focused,
  selectedRepo, inputs, region, creating, prResult, github, cost, costLoading, pressed, told,
  moved, clicks,
  page, actionFilter, search, entries, total, logFetches, logsCrossed, logLost, hasty, turns,
  graph, selectedNode, blastRadius, asked,
  backend, resources, loading, schemaFilter, stateReady, stateInfo, stateInitializing, stateError,
  statusRequest, initRequest, late, inits

lists == <<rows, shown, statusFilter, form, busy, calls, reads, overtaken, missed, presses>>
settings == <<stored, shownStatus, draft, method, saving, message, requests, typed, last, dirty, early,
              savesCrossed, failed, acts>>
wizard == <<step, scope, scan, found, ticked, import, importResult, managed, scans, imports, served,
            raced, importLost>>
picker == <<formRegion, multi, picked, items, loadingItems, error, isOpen, manualMode, itemFetches,
            itemsCrossed, strays, fetched>>
editor == <<groupsValue, groups, groupsSettled, mixed>>
ruleEditor == <<rulesValue, rules, rulesSettled, focused>>
panel == <<selectedRepo, inputs, region, creating, prResult, github, cost, costLoading, pressed, told,
           moved, clicks>>
audit == <<page, actionFilter, search, entries, total, logFetches, logsCrossed, logLost, hasty, turns>>
view == <<graph, selectedNode, blastRadius, asked>>
resourcesPage == <<backend, resources, loading, schemaFilter, stateReady, stateInfo, stateInitializing,
                   stateError, statusRequest, initRequest, late, inits>>
vars == <<at, lists, settings, wizard, picker, editor, ruleEditor, panel, audit, view, resourcesPage>>

\* One resource is of every scope, as one of two scans of a region is.
ItemsOf == [s \in Scopes |-> IF s = CHOOSE t \in Scopes : TRUE THEN Items ELSE {Shared}]

L == INSTANCE Lists
S == INSTANCE SettingsForms
W == INSTANCE ImportWizard
P == INSTANCE Picker
N == INSTANCE NodeGroupEditor
G == INSTANCE SecurityGroupRules
B == INSTANCE SidePanel
A == INSTANCE AuditLog
V == INSTANCE GraphView
R == INSTANCE MyResources

\* A null is no value.
ASSUME NullsAssumption ==
  /\ None \notin {Gone, "sent", "ready", "refused", "success"}
  /\ None \notin W!Import \cup V!Node /\ \A row \in L!Row : row # None

Parts == {"import", "picker", "node_groups", "rules", "side_panel", "audit", "graph", "resources"}

TypeOK ==
  /\ at \in L!Sections \cup S!Forms \cup Parts
  /\ L!TypeOK /\ S!TypeOK /\ W!TypeOK /\ P!TypeOK /\ N!TypeOK
  /\ G!TypeOK /\ B!TypeOK /\ A!TypeOK /\ V!TypeOK /\ R!TypeOK

\* What the open page was opened with differs; the rest is as it may be.
Init ==
  /\ at \in L!Sections \cup S!Forms \cup Parts
  /\ L!Init /\ S!Init /\ W!Init /\ A!Init /\ V!Init
  /\ P!Init /\ formRegion = CHOOSE r \in Regions : TRUE
  /\ multi => at = "picker"
  /\ N!Init /\ (groupsValue # << >> => at = "node_groups")
  /\ G!Init /\ (rulesValue # << >> => at = "rules")
  /\ B!Init /\ region = formRegion /\ inputs = CHOOSE v \in Inputs : TRUE
  /\ R!Init /\ (backend => at = "resources")

ListsNext == at \in L!Sections /\ L!Next
  /\ UNCHANGED <<at, settings, wizard, picker, editor, ruleEditor, panel, audit, view, resourcesPage>>
SettingsNext == at \in S!Forms /\ S!Next
  /\ UNCHANGED <<at, lists, wizard, picker, editor, ruleEditor, panel, audit, view, resourcesPage>>
ImportNext == at = "import" /\ W!Next
  /\ UNCHANGED <<at, lists, settings, picker, editor, ruleEditor, panel, audit, view, resourcesPage>>
PickerNext == at = "picker" /\ P!Next
  /\ UNCHANGED <<at, lists, settings, wizard, editor, ruleEditor, panel, audit, view, resourcesPage>>
NodeGroupsNext == at = "node_groups" /\ N!Next
  /\ UNCHANGED <<at, lists, settings, wizard, picker, ruleEditor, panel, audit, view, resourcesPage>>
RulesNext == at = "rules" /\ G!Next
  /\ UNCHANGED <<at, lists, settings, wizard, picker, editor, panel, audit, view, resourcesPage>>
SidePanelNext == at = "side_panel" /\ B!Next
  /\ UNCHANGED <<at, lists, settings, wizard, picker, editor, ruleEditor, audit, view, resourcesPage>>
AuditNext == at = "audit" /\ A!Next
  /\ UNCHANGED <<at, lists, settings, wizard, picker, editor, ruleEditor, panel, view, resourcesPage>>
GraphNext == at = "graph" /\ V!Next
  /\ UNCHANGED <<at, lists, settings, wizard, picker, editor, ruleEditor, panel, audit, resourcesPage>>
ResourcesNext == at = "resources" /\ R!Next
  /\ UNCHANGED <<at, lists, settings, wizard, picker, editor, ruleEditor, panel, audit, view>>

Next ==
  \/ ListsNext \/ SettingsNext \/ ImportNext \/ PickerNext \/ NodeGroupsNext \/ RulesNext
  \/ SidePanelNext \/ AuditNext \/ GraphNext \/ ResourcesNext

Spec == Init /\ [][Next]_vars

-----------------------------------------------------------------------------
(* Properties, each of the pages it concerns; the modules say more.        *)

\* A page that waits for nothing shows what the server holds: a list
\* (ApprovalsPage.js:16-46 and the like), a setting (SettingsPage.js:159-274),
\* the offers of a region (AwsResourceSelect.js:70-102), the entries of a page
\* of the log (AuditLogPage.js:18-47), the state backend
\* (MyResourcesPage.js:119-152); the exceptions are those of the modules.
ShowsWhatTheServerHolds ==
  /\ L!ListFollowsServer
  /\ S!FormAgreesWithStore
  /\ P!OffersAreOfTheRegion
  /\ A!EntriesAreAsAsked
  /\ R!BannerIsTrue

\* What a page sends was opened, loaded, picked or entered there, and is what
\* it shows: the policy that is overwritten (PoliciesPage.js:27-65), the setting
\* that is saved (SettingsPage.js:104-274), the resource of the region of the
\* form (AwsResourceSelect.js:203-222), the groups and rules of the two editors
\* (NodeGroupEditor.js:42-92, SecurityGroupRules.js:49-90, 195-207).
SendsWhatWasOpened ==
  /\ L!FormIsOfItsPolicy
  /\ S!SavesWhatWasLoaded
  /\ P!PicksAreOfTheRegion
  /\ N!GroupsAreSound
  /\ G!RulesAreSound

\* A success that is told is one: of a save of credentials
\* (SettingsPage.js:159-274), of a pull request, whose parts are of one press
\* (PRButton.js:12-94), of an estimate (ResourcePage.js:238, 309-335).
TellsWhatWasDone ==
  /\ S!SaveIsToldAsItEnded
  /\ B!PullRequestIsOfItsPress
  /\ B!EstimateIsOfTheRegion

\* A resource of AWS gets one row, although an import does not look for the
\* row it has, but for a lost answer or a scan during the import
\* (ImportPage.js:64-80, 222, 238, handler_import.go:79-91, 130-158).
ImportedOnce == W!ImportedOnce

\* The blast radius of a resource is what depends on it, and the boxes of the
\* graph do not overlap (GraphPage.js:68-151).
GraphIsRight == V!BlastRadiusIsClosed /\ V!BoxesAreApart

=============================================================================
