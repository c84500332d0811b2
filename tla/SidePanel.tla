------------------------------ MODULE SidePanel -----------------------------
(***************************************************************************)
(* The side panel of ResourcePage: PRButton, which makes a branch, a       *)
(* commit and a pull request of the form, and the estimate of its cost.    *)
(* The four requests of a pull request follow each other in one function;  *)
(* the form may change in between.  The server forwards them to GitHub and *)
(* looks at the status of none of GitHub's answers.                        *)
(***************************************************************************)
EXTENDS Naturals

CONSTANTS
  Repos, Regions, None,
  Inputs,    \* what can be entered in the form; the values differ
  MaxClicks  \* bound: pull requests and estimates asked for

VARIABLES
  selectedRepo, inputs, region,  \* of ResourcePage
  creating,                      \* the pull request being made, None without one
  prResult,
  github,                        \* the branches, commits and pull requests there are
  cost,                          \* costEstimate: what it is of
  costLoading,                   \* the estimate on its way, None without one
  pressed,                       \* history: the repository and the inputs of each press
  told,                          \* history: a refusal of GitHub was forwarded as a success
  moved,                         \* history: the region changed while an estimate was on its way
  clicks

panel == <<selectedRepo, inputs, region, creating, prResult, github, cost, costLoading, pressed,
           told, moved, clicks>>

Steps == {"sha", "branch", "commit", "pr"}
Press == [repo : Repos, inputs : Inputs]
Made == [what : Steps \ {"sha"}, n : 1..MaxClicks, repo : Repos, inputs : Inputs]
Estimate == [inputs : Inputs, region : Regions, available : BOOLEAN]

TypeOK ==
  /\ selectedRepo \in Repos \cup {None} /\ inputs \in Inputs /\ region \in Regions
  /\ creating \in [n : 1..MaxClicks, repo : Repos, inputs : Inputs, step : Steps,
                   phase : {"sent", "ok", "refused"}] \cup {None}
  /\ prResult \in {None, "success", "error"}
  /\ github \subseteq Made
  /\ cost \in Estimate \cup {None} /\ costLoading \in Estimate \cup {None}
  /\ pressed \in [1..MaxClicks -> Press \cup {None}]
  /\ told \in BOOLEAN /\ moved \in BOOLEAN /\ clicks \in 0..MaxClicks

Init ==
  /\ selectedRepo = None /\ inputs \in Inputs /\ region \in Regions
  /\ creating = None /\ prResult = None /\ github = {}
  /\ cost = None /\ costLoading = None
  /\ pressed = [n \in 1..MaxClicks |-> None]
  /\ told = FALSE /\ moved = FALSE /\ clicks = 0

-----------------------------------------------------------------------------
(* The form                                                                *)

SelectRepo(r) ==
  /\ r # selectedRepo
  /\ selectedRepo' = r
  /\ UNCHANGED <<inputs, region, creating, prResult, github, cost, costLoading, pressed, told, moved,
                 clicks>>

ChangeInputs(v) ==
  /\ v # inputs
  /\ inputs' = v
  /\ UNCHANGED <<selectedRepo, region, creating, prResult, github, cost, costLoading, pressed, told,
                 moved, clicks>>

\* onRegionChange
ChangeRegion(r) ==
  /\ r # region
  /\ region' = r /\ cost' = None /\ moved' = (moved \/ costLoading # None)
  /\ UNCHANGED <<selectedRepo, inputs, creating, prResult, github, costLoading, pressed, told, clicks>>

-----------------------------------------------------------------------------
(* The pull request                                                        *)

\* generatePR, with the repository and the inputs of this render.
GeneratePR ==
  /\ creating = None /\ selectedRepo # None /\ clicks < MaxClicks
  /\ LET press == [repo |-> selectedRepo, inputs |-> inputs] IN
     /\ pressed' = [pressed EXCEPT ![clicks + 1] = press]
     /\ creating' = [n |-> clicks + 1, repo |-> selectedRepo, inputs |-> inputs,
                     step |-> "sha", phase |-> "sent"]
  /\ clicks' = clicks + 1 /\ prResult' = None
  /\ UNCHANGED <<selectedRepo, inputs, region, github, cost, costLoading, told, moved>>

Exists(what) == \E m \in github : m.what = what /\ m.n = creating.n /\ m.repo = creating.repo

\* What GitHub may take: a commit needs its branch, a pull request a commit.
\* It may refuse anything; a file that main holds already it does refuse.
Takes == CASE creating.step = "commit" -> Exists("branch")
           [] creating.step = "pr" -> Exists("commit")
           [] OTHER -> TRUE

\* Without GitHub's commit there is no SHA; any other refusal is forwarded as
\* it came or not at all, with the status of a success.
GitHubHandler ==
  /\ creating # None /\ creating.phase = "sent"
  /\ \/ /\ Takes
        /\ github' = IF creating.step = "sha" THEN github
                     ELSE github \cup {[what |-> creating.step, n |-> creating.n,
                                        repo |-> creating.repo, inputs |-> creating.inputs]}
        /\ creating' = [creating EXCEPT !.phase = "ok"]
        /\ UNCHANGED told
     \/ /\ creating.step # "sha"
        /\ creating' = [creating EXCEPT !.phase = "ok"]
        /\ told' = TRUE
        /\ UNCHANGED github
     \/ /\ creating' = [creating EXCEPT !.phase = "refused"]
        /\ UNCHANGED <<github, told>>
  /\ UNCHANGED <<selectedRepo, inputs, region, prResult, cost, costLoading, pressed, moved, clicks>>

NextStep == [sha |-> "branch", branch |-> "commit", commit |-> "pr"]

\* Seeded: the commit is of the form as it is when the commit is sent.
OnAnswerFresh ==
  /\ creating # None /\ creating.phase = "ok" /\ creating.step # "pr"
  /\ creating' = [creating EXCEPT !.step = NextStep[creating.step], !.phase = "sent",
                                  !.inputs = inputs]
  /\ UNCHANGED <<selectedRepo, inputs, region, prResult, github, cost, costLoading, pressed, told,
                 moved, clicks>>

OnAnswer ==
  /\ creating # None /\ creating.phase = "ok" /\ creating.step # "pr"
  /\ creating' = [creating EXCEPT !.step = NextStep[creating.step], !.phase = "sent"]
  /\ UNCHANGED <<selectedRepo, inputs, region, prResult, github, cost, costLoading, pressed, told,
                 moved, clicks>>

EndPR(outcome) ==
  /\ prResult' = outcome /\ creating' = None
  /\ UNCHANGED <<selectedRepo, inputs, region, github, cost, costLoading, pressed, told, moved,
                 clicks>>

OnCreated == creating # None /\ creating.step = "pr" /\ creating.phase = "ok" /\ EndPR("success")

\* What was made so far stays.
OnFailed == creating # None /\ creating.phase = "refused" /\ EndPR("error")

\* A request or its answer is lost.
OnLost == creating # None /\ EndPR("error")

-----------------------------------------------------------------------------
(* The estimate                                                            *)

EstimateCost ==
  /\ costLoading = None /\ clicks < MaxClicks
  /\ costLoading' = [inputs |-> inputs, region |-> region, available |-> FALSE]
  /\ cost' = None /\ moved' = FALSE /\ clicks' = clicks + 1
  /\ UNCHANGED <<selectedRepo, inputs, region, creating, prResult, github, pressed, told>>

OnEstimate ==
  /\ costLoading # None
  /\ \E available \in BOOLEAN : cost' = [costLoading EXCEPT !.available = available]
  /\ costLoading' = None
  /\ UNCHANGED <<selectedRepo, inputs, region, creating, prResult, github, pressed, told, moved, clicks>>

Next ==
  \/ \E r \in Repos \cup {None} : SelectRepo(r)
  \/ \E v \in Inputs : ChangeInputs(v)
  \/ \E r \in Regions : ChangeRegion(r)
  \/ GeneratePR \/ GitHubHandler \/ OnAnswer \/ OnCreated \/ OnFailed \/ OnLost
  \/ EstimateCost \/ OnEstimate

-----------------------------------------------------------------------------
(* Properties                                                              *)

\* What is made at GitHub is of one press, its repository and its inputs,
\* although the form changes while it is made; each part comes after the one
\* it needs; and a success is a pull request with the inputs, unless a refusal
\* was forwarded as a success (PRButton.js:12-94, handler_github.go:288-345).
PullRequestIsOfItsPress ==
  /\ \A m \in github :
       /\ [repo |-> m.repo, inputs |-> m.inputs] = pressed[m.n]
       /\ m.what = "pr" => \E c \in github : c.what = "commit" /\ c.n = m.n
       /\ m.what = "commit" => \E b \in github : b.what = "branch" /\ b.n = m.n
  /\ prResult = "success" /\ ~told =>
       \E m \in github : m.what = "pr" /\ \A n \in (m.n + 1)..MaxClicks : pressed[n] = None

\* An estimate that is shown is of the region of the form, unless the region
\* was changed while it was under way (ResourcePage.js:238, 309-335).
EstimateIsOfTheRegion ==
  cost # None => moved \/ cost.region = region

=============================================================================
