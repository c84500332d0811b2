----------------------------- MODULE MyResources ----------------------------
(***************************************************************************)
(* MyResourcesPage: the resources that are not destroyed, narrowed by      *)
(* filters, and the banner that initialises the state backend.             *)
(***************************************************************************)
EXTENDS Naturals, FiniteSets

CONSTANTS Resources, None, MaxInits  \* MaxInits: bound

VARIABLES
  backend,        \* the state backend of the server is ready
  resources,      \* what the page was told of the rows: type and status
  loading,
  schemaFilter,   \* filter.schema, "all" when it is empty; env and region narrow in the same way
  stateReady, stateInfo, stateInitializing, stateError,
  statusRequest,  \* the request for the status of the backend, None without one
  initRequest,    \* the request to initialise it, None without one
  late,           \* history: the status was answered after an initialisation
  inits

resourcesPage == <<backend, resources, loading, schemaFilter, stateReady, stateInfo,
                   stateInitializing, stateError, statusRequest, initRequest, late, inits>>

Types == {"ec2", "vpc"}
Statuses == {"active", "unknown", "failed", "imported", "destroyed", "applying"}
Row == [type : Types, status : Statuses]
Answer == {"sent", "ready", "not_ready", "refused"}

TypeOK ==
  /\ backend \in BOOLEAN
  /\ resources \in [Resources -> Row \cup {None}]
  /\ loading \in BOOLEAN /\ schemaFilter \in Types \cup {"all"}
  /\ stateReady \in BOOLEAN /\ stateInfo \in BOOLEAN
  /\ stateInitializing \in BOOLEAN /\ stateError \in BOOLEAN
  /\ statusRequest \in Answer \cup {None} /\ initRequest \in Answer \cup {None}
  /\ late \in BOOLEAN /\ inits \in 0..MaxInits

Init ==
  /\ backend \in BOOLEAN
  /\ resources = [r \in Resources |-> None] /\ loading = TRUE /\ schemaFilter = "all"
  /\ stateReady = FALSE /\ stateInfo = FALSE /\ stateInitializing = FALSE /\ stateError = FALSE
  /\ statusRequest = "sent" /\ initRequest = None /\ late = FALSE /\ inits = 0

-----------------------------------------------------------------------------
(* The list                                                                *)

Live == {"active", "unknown", "failed", "imported"}
ActiveResources == {r \in Resources : resources[r] # None /\ resources[r].status \in Live}
Filtered == {r \in ActiveResources : schemaFilter \in {"all", resources[r].type}}

\* The list comes once, whatever the table holds; a failed request leaves it
\* empty.
OnResources ==
  /\ loading
  /\ loading' = FALSE
  /\ (resources' = resources \/ resources' \in [Resources -> Row])
  /\ UNCHANGED <<backend, schemaFilter, stateReady, stateInfo, stateInitializing, stateError, statusRequest,
                 initRequest, late, inits>>

\* The types of all rows are offered, of destroyed ones too.
SetFilter(f) ==
  /\ ActiveResources # {} /\ f # schemaFilter
  /\ f \in {"all"} \cup {resources[r].type : r \in {s \in Resources : resources[s] # None}}
  /\ schemaFilter' = f
  /\ UNCHANGED <<backend, resources, loading, stateReady, stateInfo, stateInitializing,
                 stateError, statusRequest, initRequest, late, inits>>

-----------------------------------------------------------------------------
(* The state backend                                                       *)

ServeStatus ==
  /\ statusRequest = "sent"
  /\ statusRequest' \in {IF backend THEN "ready" ELSE "not_ready", "refused"}
  /\ UNCHANGED <<backend, resources, loading, schemaFilter, stateReady, stateInfo,
                 stateInitializing, stateError, initRequest, late, inits>>

\* fetchStateStatus: what is not ready takes back what was.
OnStatus ==
  /\ statusRequest \in Answer \ {"sent"}
  /\ stateReady' = IF statusRequest = "refused" THEN stateReady ELSE statusRequest = "ready"
  /\ stateInfo' = (stateInfo \/ statusRequest = "ready")
  /\ late' = (late \/ inits > 0)
  /\ statusRequest' = None
  /\ UNCHANGED <<backend, resources, loading, schemaFilter, stateInitializing, stateError, initRequest, inits>>

InitState ==
  /\ ~stateReady /\ ~stateInitializing /\ inits < MaxInits
  /\ inits' = inits + 1
  /\ stateInitializing' = TRUE /\ stateError' = FALSE /\ initRequest' = "sent"
  /\ UNCHANGED <<backend, resources, loading, schemaFilter, stateReady, stateInfo, statusRequest, late>>

\* A second initialisation finds the bucket and the table.
ServeInit ==
  /\ initRequest = "sent"
  /\ \/ initRequest' = "ready" /\ backend' = TRUE
     \/ initRequest' = "refused" /\ UNCHANGED backend
  /\ UNCHANGED <<resources, loading, schemaFilter, stateReady, stateInfo, stateInitializing,
                 stateError, statusRequest, late, inits>>

\* An answer that is lost is told as an error.
OnInit ==
  /\ initRequest # None
  /\ \/ /\ initRequest = "ready"
        /\ stateReady' = TRUE /\ stateInfo' = TRUE
        /\ UNCHANGED stateError
     \/ stateError' = TRUE /\ UNCHANGED <<stateReady, stateInfo>>
  /\ stateInitializing' = FALSE /\ initRequest' = None
  /\ UNCHANGED <<backend, resources, loading, schemaFilter, statusRequest, late, inits>>

Next ==
  \/ OnResources \/ (\E f \in Types \cup {"all"} : SetFilter(f))
  \/ ServeStatus \/ OnStatus \/ InitState \/ ServeInit \/ OnInit

-----------------------------------------------------------------------------
(* Properties                                                              *)

\* The page does not say that the backend is ready before it is, it says with
\* which bucket when it is, and it offers to initialise a backend that is ready
\* only if it was not told so: the status came after an initialisation, or an
\* answer was lost (MyResourcesPage.js:119-152).
BannerIsTrue ==
  /\ stateReady => backend /\ stateInfo
  /\ inits > 0 /\ ~late /\ initRequest = None /\ statusRequest = None => stateReady \/ stateError

=============================================================================
