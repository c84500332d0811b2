----------------------------- MODULE ImportWizard ---------------------------
(***************************************************************************)
(* ImportPage and the two handlers it calls: a scan lists the resources of *)
(* an AWS account that have no row yet, the user ticks some, an import     *)
(* inserts a row for each.  The import does not look whether there is one. *)
(***************************************************************************)
EXTENDS Naturals, FiniteSets

CONSTANTS
  Scopes,     \* a type of resource and a region, as selected in step 1
  Items,      \* the resources of the account; their names differ
  ItemsOf,    \* [Scopes -> SUBSET Items]
  None,
  MaxScans, MaxImports  \* bounds

VARIABLES
  step, scope,
  scan,       \* the scan on its way, None without one: scanning
  found,      \* resources, and the scan they are from
  ticked,     \* selected
  import,     \* the import on its way, None without one: importing
  importResult,
  managed,    \* how many rows of the server are of a resource
  scans, imports,
  served,     \* history: the last scan the server has answered
  raced,      \* history: an import was run after a later scan had been answered
  importLost  \* history: the answer of an import was lost

page == <<step, scope, scan, found, ticked, import, importResult>>
history == <<served, raced, importLost>>
wizard == <<page, managed, scans, imports, history>>

Scan == [no : 1..MaxScans, scope : Scopes, phase : {"sent", "ok", "refused"}, items : SUBSET Items]
Import == [of : 0..MaxScans, items : SUBSET Items, phase : {"sent", "ok", "refused"}]

TypeOK ==
  /\ step \in 1..4 /\ scope \in Scopes \cup {None}
  /\ scan \in Scan \cup {None} /\ import \in Import \cup {None}
  /\ found \in [no : 0..MaxScans, items : SUBSET Items]
  /\ ticked \subseteq Items /\ importResult \in {None, "ok", "refused"}
  /\ managed \in [Items -> 0..MaxImports]
  /\ scans \in 0..MaxScans /\ imports \in 0..MaxImports /\ served \in 0..MaxScans
  /\ raced \in BOOLEAN /\ importLost \in BOOLEAN

Nothing == [no |-> 0, items |-> {}]

Init ==
  /\ step = 1 /\ scope = None /\ scan = None /\ import = None /\ importResult = None
  /\ found = Nothing /\ ticked = {}
  /\ managed = [i \in Items |-> 0]
  /\ scans = 0 /\ imports = 0 /\ served = 0 /\ raced = FALSE /\ importLost = FALSE

-----------------------------------------------------------------------------
(* Step 1                                                                  *)

SelectScope(s) ==
  /\ step = 1 /\ s # scope
  /\ scope' = s
  /\ UNCHANGED <<step, scan, found, ticked, import, importResult, managed, scans, imports, history>>

\* handleScan, up to the request.  The ticks of an earlier scan stay.
HandleScan ==
  /\ step = 1 /\ scope # None /\ scan = None /\ scans < MaxScans
  /\ scans' = scans + 1
  /\ scan' = [no |-> scans + 1, scope |-> scope, phase |-> "sent", items |-> {}]
  /\ found' = Nothing
  /\ UNCHANGED <<step, scope, ticked, import, importResult, managed, imports, history>>

ImportScanHandler ==
  /\ scan # None /\ scan.phase = "sent"
  /\ \/ scan' = [scan EXCEPT !.phase = "ok", !.items = {i \in ItemsOf[scan.scope] : managed[i] = 0}]
     \/ scan' = [scan EXCEPT !.phase = "refused"]
  /\ served' = scan.no
  /\ UNCHANGED <<step, scope, found, ticked, import, importResult, managed, scans, imports, raced, importLost>>

\* A refusal is an answer without resources, which is shown as such.
OnScan ==
  /\ scan # None /\ scan.phase # "sent"
  /\ found' = [no |-> scan.no, items |-> scan.items]
  /\ step' = 2
  /\ scan' = None
  /\ UNCHANGED <<scope, ticked, import, importResult, managed, scans, imports, history>>

OnScanLost ==
  /\ scan # None
  /\ scan' = None
  /\ UNCHANGED <<step, scope, found, ticked, import, importResult, managed, scans, imports, history>>

-----------------------------------------------------------------------------
(* Steps 2 and 3                                                           *)

Tick(items) ==
  /\ step = 2
  /\ ticked' = items
  /\ UNCHANGED <<step, scope, scan, found, import, importResult, managed, scans, imports, history>>

ToggleSelect(i) == i \in found.items /\ Tick(IF i \in ticked THEN ticked \ {i} ELSE ticked \cup {i})

\* All are ticked, or none if as many are ticked as were found.
SelectAll ==
  /\ found.items # {}
  /\ Tick(IF Cardinality(ticked) = Cardinality(found.items) THEN {} ELSE found.items)

GoTo(s) ==
  /\ step' = s
  /\ UNCHANGED <<scope, scan, found, ticked, import, importResult, managed, scans, imports, history>>

Back == step \in {2, 3} /\ GoTo(step - 1)

Configure == step = 2 /\ found.items # {} /\ ticked # {} /\ GoTo(3)

\* Seeded: the button is not disabled while an import is on its way.
HandleImportAgain ==
  /\ step = 3 /\ imports < MaxImports
  /\ imports' = imports + 1
  /\ import' = [of |-> found.no, items |-> found.items \cap ticked, phase |-> "sent"]
  /\ UNCHANGED <<step, scope, scan, found, ticked, importResult, managed, scans, history>>

HandleImport ==
  /\ step = 3 /\ import = None /\ imports < MaxImports
  /\ imports' = imports + 1
  /\ import' = [of |-> found.no, items |-> found.items \cap ticked, phase |-> "sent"]
  /\ UNCHANGED <<step, scope, scan, found, ticked, importResult, managed, scans, history>>

\* A row is inserted for each resource, without a look at those there are; an
\* insert that fails is left out.
ImportExecuteHandler ==
  /\ import # None /\ import.phase = "sent"
  /\ \/ \E inserted \in SUBSET import.items :
          /\ managed' = [i \in Items |-> IF i \in inserted THEN managed[i] + 1 ELSE managed[i]]
          /\ import' = [import EXCEPT !.phase = "ok"]
          /\ raced' = (raced \/ served > import.of)
     \/ import' = [import EXCEPT !.phase = "refused"] /\ UNCHANGED <<managed, raced>>
  /\ UNCHANGED <<step, scope, scan, found, ticked, importResult, scans, imports, served, importLost>>

\* A refusal too is shown as a complete import.
OnImport ==
  /\ import # None /\ import.phase # "sent"
  /\ importResult' = import.phase
  /\ step' = 4
  /\ import' = None
  /\ UNCHANGED <<scope, scan, found, ticked, managed, scans, imports, history>>

OnImportLost ==
  /\ import # None
  /\ import' = None
  /\ importLost' = TRUE
  /\ UNCHANGED <<step, scope, scan, found, ticked, importResult, managed, scans, imports, served, raced>>

-----------------------------------------------------------------------------
(* Step 4                                                                  *)

ImportMore ==
  /\ step = 4 /\ importResult # None
  /\ step' = 1 /\ importResult' = None /\ ticked' = {} /\ found' = [found EXCEPT !.items = {}]
  /\ UNCHANGED <<scope, scan, import, managed, scans, imports, history>>

Next ==
  \/ \E s \in Scopes : SelectScope(s)
  \/ HandleScan \/ ImportScanHandler \/ OnScan \/ OnScanLost
  \/ \E i \in Items : ToggleSelect(i)
  \/ SelectAll \/ Back \/ Configure
  \/ HandleImport \/ ImportExecuteHandler \/ OnImport \/ OnImportLost
  \/ ImportMore

-----------------------------------------------------------------------------
(* Properties                                                              *)

\* A resource gets one row, although the import does not look for the row it
\* has, unless the answer of an import was lost and the user imports again, or
\* a scan was answered while an import was under way
\* (handler_import.go:79-91, 130-158, ImportPage.js:64-80, 222, 238).
ImportedOnce == raced \/ importLost \/ \A i \in Items : managed[i] <= 1

=============================================================================
