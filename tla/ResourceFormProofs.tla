-------------------------- MODULE ResourceFormProofs -------------------------
(***************************************************************************)
(* What holds of ResourceForm for every schema, every set of regions and   *)
(* environments and any number of edits and presses.                       *)
(*                                                                         *)
(* The inductive invariant adds to the properties what they rest on: the   *)
(* form is there once the schema is, a resource comes at most once and     *)
(* only in edit mode, and whatever waits in the modal was submitted and    *)
(* passed the checks.                                                      *)
(***************************************************************************)
EXTENDS ResourceForm, TLAPS

\* The form is mounted with the schema; the answer of the resource comes once.
Shape ==
  /\ schema => form # None
  /\ "resource" \in pending => edit # None
  /\ editing => edit # None

\* What waits in the modal was submitted, and what was submitted was checked.
Seen ==
  /\ confirm # None => confirm \in pressed
  /\ launched # None => launched \in pressed
  /\ \A s \in pressed : \A f \in Fields : ~Invalid(f, s.inputs[f])

IInv == TypeOK /\ Shape /\ Seen /\ EditKeepsItsResource

USE FormAssumption, NoneAssumption

LEMMA InitInv == Init => IInv
<1> SUFFICES ASSUME Init PROVE IInv
  OBVIOUS
<1>1. TypeOK
  <2>1. pending \subseteq {"settings", "resource", "schema"}
    BY DEF Init
  <2>2. values \in Inputs
    BY DEF Init, Inputs, Values
  <2>3. 0 \in 0..MaxEdits /\ 0 \in 0..MaxPresses
    OBVIOUS
  <2> QED
    BY <2>1, <2>2, <2>3 DEF Init, TypeOK
<1>2. Shape /\ Seen /\ EditKeepsItsResource
  BY <1>1 DEF Init, Shape, Seen, EditKeepsItsResource, EditedInputsKept, EditStaysInRegion
<1> QED
  BY <1>1, <1>2 DEF IInv

\* A submission is a request, whatever the fields hold.
LEMMA SubmissionType ==
  ASSUME TypeOK, form # None, NEW a \in Actions
  PROVE  Submission(a) \in Request
<1>1. form \in Form
  BY DEF TypeOK
<1> QED
  BY <1>1 DEF TypeOK, Submission, Request, Form

LEMMA SetRegionType ==
  ASSUME TypeOK, NEW r \in Regions, SetRegion(r)
  PROVE  region' \in Regions /\ form' \in Form \cup {None} /\ (form # None => form' # None)
<1>1. CASE form = None \/ r = region
  BY <1>1 DEF SetRegion, TypeOK
<1>2. CASE form # None /\ r # region
  <2>1. form \in Form /\ [form EXCEPT !.region = r] \in Form
    BY <1>2 DEF TypeOK, Form
  <2> QED
    BY <1>2, <2>1 DEF SetRegion
<1> QED
  BY <1>1, <1>2

-----------------------------------------------------------------------------
(* The type invariant, and the form that is there with the schema          *)

LEMMA TypeStep ==
  ASSUME TypeOK, Shape, [Next]_vars
  PROVE  TypeOK' /\ Shape'
<1> USE DEF history, counters
<1>1. ASSUME NEW request \in pending, Failed(request) PROVE TypeOK' /\ Shape'
  BY <1>1 DEF Failed, TypeOK, Shape
<1>2. ASSUME NEW r \in Regions, OnSettings(r) PROVE TypeOK' /\ Shape'
  <2>1. region' \in Regions /\ form' \in Form \cup {None} /\ (form # None => form' # None)
    BY <1>2, SetRegionType DEF OnSettings
  <2> QED
    BY <1>2, <2>1 DEF OnSettings, TypeOK, Shape
<1>3. CASE OnResource
  <2>1. edit \in Resource
    BY <1>3 DEF OnResource, TypeOK, Shape
  <2>2. edit.inputs \in Inputs /\ edit.region \in Regions /\ edit.env \in Envs
    BY <2>1 DEF Resource, Inputs, Values
  <2>3. region' \in Regions /\ form' \in Form \cup {None} /\ (form # None => form' # None)
    BY <1>3, <2>2, SetRegionType DEF OnResource
  <2> QED
    BY <1>3, <2>1, <2>2, <2>3 DEF OnResource, TypeOK, Shape
<1>4. CASE OnSchema
  <2>1. form' \in Form
    BY <1>4 DEF OnSchema, MountForm, Form, TypeOK
  <2>2. values' \in Inputs
    BY <1>4 DEF OnSchema, MountForm, TypeOK, Inputs, Values
  <2> QED
    BY <1>4, <2>1, <2>2 DEF OnSchema, TypeOK, Shape
<1>5. ASSUME NEW f \in Fields, NEW v \in {"unset", "typed", "bad"}, HandleChange(f, v)
      PROVE  TypeOK' /\ Shape'
  <2>1. form \in Form
    BY <1>5 DEF HandleChange, Edit, AtForm, TypeOK, Shape
  <2> DEFINE e == IF Invalid(f, v) THEN form.errors \cup {f} ELSE form.errors \ {f}
  <2>e. form.errors \subseteq Fields /\ e \subseteq Fields
    BY <2>1 DEF Form
  <2>u. [form EXCEPT !.errors = e] \in Form
    <3> HIDE DEF e
    <3> QED BY <2>1, <2>e DEF Form
  <2>2. form' \in Form
    <3>1. form' = form \/ form' = [form EXCEPT !.errors = e]
      BY <1>5 DEF HandleChange
    <3> QED
      BY <2>1, <2>u, <3>1
  <2>3. values' \in Inputs
    BY <1>5 DEF HandleChange, TypeOK, Inputs, Values
  <2>4. /\ edits' \in 0..MaxEdits /\ picked' \subseteq Fields \cup {"region", "env"}
        /\ UNCHANGED <<region, env, edit, canDeploy, pending, schema, editing, confirm, launched,
                       pressed, late, presses>>
    BY <1>5 DEF HandleChange, Edit, TypeOK
  <2>5. form' # None
    BY <2>2
  <2> QED
    BY <2>2, <2>3, <2>4, <2>5 DEF TypeOK, Shape
<1>6. ASSUME NEW f \in Fields, HandleBlur(f) PROVE TypeOK' /\ Shape'
  <2>1. form \in Form
    BY <1>6 DEF HandleBlur, AtForm, TypeOK, Shape
  <2>2. form' \in Form
    BY <1>6, <2>1 DEF HandleBlur, Form
  <2> QED
    BY <1>6, <2>2 DEF HandleBlur, TypeOK, Shape
<1>7. ASSUME NEW r \in Regions, SelectRegion(r) PROVE TypeOK' /\ Shape'
  <2>1. form \in Form
    BY <1>7 DEF SelectRegion, Edit, AtForm, TypeOK, Shape
  <2>2. form' \in Form
    BY <1>7, <2>1 DEF SelectRegion, Form
  <2> QED
    BY <1>7, <2>2 DEF SelectRegion, Edit, TypeOK, Shape
<1>8. ASSUME NEW e \in Envs, SelectEnv(e) PROVE TypeOK' /\ Shape'
  <2>1. form \in Form
    BY <1>8 DEF SelectEnv, Edit, AtForm, TypeOK, Shape
  <2>2. form' \in Form
    BY <1>8, <2>1 DEF SelectEnv, Form
  <2> QED
    BY <1>8, <2>2 DEF SelectEnv, Edit, TypeOK, Shape
<1>9. CASE ToggleAdvanced
  <2>1. form \in Form
    BY <1>9 DEF ToggleAdvanced, AtForm, TypeOK, Shape
  <2>2. form' \in Form
    BY <1>9, <2>1 DEF ToggleAdvanced, Form
  <2> QED
    BY <1>9, <2>2 DEF ToggleAdvanced, TypeOK, Shape
<1>10. ASSUME NEW a \in Actions, SubmitInvalid(a) PROVE TypeOK' /\ Shape'
  <2>1. form \in Form
    BY <1>10 DEF SubmitInvalid, Press, AtForm, TypeOK, Shape
  <2>2. form' \in Form
    BY <1>10, <2>1 DEF SubmitInvalid, Form, ValidateAll
  <2> QED
    BY <1>10, <2>2 DEF SubmitInvalid, Press, TypeOK, Shape
<1>11. ASSUME NEW a \in Actions, Submit(a) PROVE TypeOK' /\ Shape'
  <2>1. form \in Form /\ form # None
    BY <1>11 DEF Submit, Press, AtForm, TypeOK, Shape
  <2>2. form' \in Form
    BY <1>11, <2>1 DEF Submit, Form
  <2>3. Submission(a) \in Request
    BY <2>1, SubmissionType
  <2>4. form.region \in Regions /\ form.env \in Envs
    BY <2>1 DEF Form
  <2> QED
    BY <1>11, <2>2, <2>3, <2>4 DEF Submit, Press, TypeOK, Shape
<1>12. CASE HandleConfirm
  BY <1>12 DEF HandleConfirm, TypeOK, Shape
<1>13. CASE Cancel
  BY <1>13 DEF Cancel, TypeOK, Shape
<1>14. CASE UNCHANGED vars
  BY <1>14 DEF vars, TypeOK, Shape
<1> QED
  BY <1>1, <1>2, <1>3, <1>4, <1>5, <1>6, <1>7, <1>8, <1>9, <1>10, <1>11, <1>12, <1>13, <1>14 DEF Next

\* What waits in the modal was submitted with inputs that pass, and nothing
\* else is launched.
LEMMA SeenStep ==
  ASSUME TypeOK, Shape, Seen, [Next]_vars
  PROVE  Seen'
<1> USE DEF history, counters
<1>1. ASSUME NEW a \in Actions, Submit(a) PROVE Seen'
  <2>1. Submission(a) # None
    BY <1>1, SubmissionType DEF Submit, Press, AtForm, Shape
  <2>2. \A f \in Fields : ~Invalid(f, Submission(a).inputs[f])
    BY <1>1 DEF Submit, ValidateAll, Submission
  <2>3. pressed' = pressed \cup {Submission(a)}
    BY <1>1 DEF Submit
  <2>4. \A s \in pressed' : \A f \in Fields : ~Invalid(f, s.inputs[f])
    BY <2>2, <2>3 DEF Seen
  <2>5. \/ launched' = Submission(a) /\ confirm' = confirm
        \/ confirm' = Submission(a) /\ launched' = launched
    BY <1>1 DEF Submit
  <2> QED
    BY <2>3, <2>4, <2>5 DEF Seen, Invalid
<1>2. CASE HandleConfirm
  BY <1>2 DEF HandleConfirm, Seen, Invalid
<1>3. CASE Cancel
  BY <1>3 DEF Cancel, Seen, Invalid
<1>4. ASSUME UNCHANGED <<confirm, launched, pressed>> PROVE Seen'
  BY <1>4 DEF Seen, Invalid
<1>5. ASSUME NEW a \in Actions, SubmitInvalid(a) PROVE Seen'
  BY <1>4, <1>5 DEF SubmitInvalid
<1>6. ASSUME NEW request \in pending, Failed(request) PROVE Seen'
  BY <1>4, <1>6 DEF Failed
<1>7. ASSUME NEW r \in Regions, OnSettings(r) \/ SelectRegion(r) PROVE Seen'
  BY <1>4, <1>7 DEF OnSettings, SelectRegion, Edit
<1>8. CASE OnResource \/ OnSchema \/ ToggleAdvanced
  BY <1>4, <1>8 DEF OnResource, OnSchema, ToggleAdvanced
<1>9. ASSUME NEW f \in Fields, HandleBlur(f) \/ \E v \in {"unset", "typed", "bad"} : HandleChange(f, v)
      PROVE  Seen'
  BY <1>4, <1>9 DEF HandleBlur, HandleChange, Edit
<1>10. ASSUME NEW e \in Envs, SelectEnv(e) PROVE Seen'
  BY <1>4, <1>10 DEF SelectEnv, Edit
<1>11. CASE UNCHANGED vars
  BY <1>4, <1>11 DEF vars
<1> QED
  BY <1>1, <1>2, <1>3, <1>5, <1>6, <1>7, <1>8, <1>9, <1>10, <1>11 DEF Next

-----------------------------------------------------------------------------
(* The resource under edit                                                 *)

\* The inputs: the resource brings its own, the defaults fill what is unset,
\* and a change marks its field.
LEMMA InputsStep ==
  ASSUME TypeOK, Shape, EditedInputsKept, [Next]_vars
  PROVE  EditedInputsKept'
<1> USE DEF history, counters
<1>1. CASE OnResource
  BY <1>1 DEF OnResource, EditedInputsKept
<1>2. CASE OnSchema
  <2>1. \A f \in Fields : values[f] = "saved" => values'[f] = "saved"
    BY <1>2 DEF OnSchema, MountForm
  <2> QED
    BY <1>2, <2>1 DEF OnSchema, EditedInputsKept
<1>3. ASSUME NEW f \in Fields, NEW v \in {"unset", "typed", "bad"}, HandleChange(f, v)
      PROVE  EditedInputsKept'
  <2>1. \A g \in Fields \ {f} : values'[g] = values[g]
    BY <1>3 DEF HandleChange, TypeOK, Inputs
  <2> QED
    BY <1>3, <2>1 DEF HandleChange, Edit, EditedInputsKept
<1>4. ASSUME UNCHANGED <<edit, editing, values>>, picked \subseteq picked' PROVE EditedInputsKept'
  BY <1>4 DEF EditedInputsKept
<1>5. ASSUME NEW request \in pending, Failed(request) PROVE EditedInputsKept'
  BY <1>4, <1>5 DEF Failed
<1>6. ASSUME NEW r \in Regions, OnSettings(r) \/ SelectRegion(r) PROVE EditedInputsKept'
  BY <1>4, <1>6 DEF OnSettings, SelectRegion, Edit
<1>7. ASSUME NEW f \in Fields, HandleBlur(f) PROVE EditedInputsKept'
  BY <1>4, <1>7 DEF HandleBlur
<1>8. ASSUME NEW e \in Envs, SelectEnv(e) PROVE EditedInputsKept'
  BY <1>4, <1>8 DEF SelectEnv, Edit
<1>9. ASSUME NEW a \in Actions, SubmitInvalid(a) \/ Submit(a) PROVE EditedInputsKept'
  BY <1>4, <1>9 DEF SubmitInvalid, Submit, Press
<1>10. CASE ToggleAdvanced \/ HandleConfirm \/ Cancel
  BY <1>4, <1>10 DEF ToggleAdvanced, HandleConfirm, Cancel
<1>11. CASE UNCHANGED vars
  BY <1>4, <1>11 DEF vars
<1> QED
  BY <1>1, <1>2, <1>3, <1>5, <1>6, <1>7, <1>8, <1>9, <1>10, <1>11 DEF Next

\* The effect by which the form follows the region of the page.
LEMMA SetRegionFollows ==
  ASSUME TypeOK, EditStaysInRegion, NEW r, SetRegion(r)
  PROVE  region' = r /\ (form' # None => form'.region = r)
<1>1. CASE form = None
  BY <1>1 DEF SetRegion
<1>2. CASE form # None /\ r = region
  BY <1>2 DEF SetRegion, EditStaysInRegion
<1>3. CASE form # None /\ r # region
  <2>1. form \in Form
    BY <1>3 DEF TypeOK
  <2> QED
    BY <1>3, <2>1 DEF SetRegion, Form
<1> QED
  BY <1>1, <1>2, <1>3

\* The region: form and page move together, and only the settings and the
\* user leave the region of the resource.
LEMMA RegionStep ==
  ASSUME TypeOK, Shape, EditStaysInRegion, [Next]_vars
  PROVE  EditStaysInRegion'
<1> USE DEF history, counters
<1>1. ASSUME NEW r \in Regions, OnSettings(r) PROVE EditStaysInRegion'
  <2>1. region' = r /\ (form' # None => form'.region = r)
    BY <1>1, SetRegionFollows DEF OnSettings
  <2> QED
    BY <1>1, <2>1 DEF OnSettings, EditStaysInRegion
<1>2. CASE OnResource
  <2>1. region' = edit.region /\ (form' # None => form'.region = edit.region)
    BY <1>2, SetRegionFollows DEF OnResource
  <2> QED
    BY <1>2, <2>1 DEF OnResource, EditStaysInRegion
<1>3. CASE OnSchema
  <2>1. form'.region = region
    BY <1>3 DEF OnSchema, MountForm
  <2> QED
    BY <1>3, <2>1 DEF OnSchema, EditStaysInRegion
<1>4. ASSUME NEW r \in Regions, SelectRegion(r) PROVE EditStaysInRegion'
  <2>1. form \in Form
    BY <1>4 DEF SelectRegion, Edit, AtForm, Shape, TypeOK
  <2>2. form'.region = r /\ region' = r /\ "region" \in picked'
    BY <1>4, <2>1 DEF SelectRegion, Edit, Form
  <2> QED
    BY <2>2 DEF EditStaysInRegion
<1>5. ASSUME UNCHANGED <<edit, editing, late, region>>, picked \subseteq picked',
             form' # None => form # None /\ form'.region = form.region
      PROVE  EditStaysInRegion'
  BY <1>5 DEF EditStaysInRegion
<1>6. ASSUME NEW f \in Fields, NEW v \in {"unset", "typed", "bad"}, HandleChange(f, v)
      PROVE  EditStaysInRegion'
  <2>1. form \in Form /\ form # None
    BY <1>6 DEF HandleChange, Edit, AtForm, Shape, TypeOK
  <2>2. form'.region = form.region
    BY <1>6, <2>1 DEF HandleChange, Form
  <2> QED
    BY <1>5, <1>6, <2>1, <2>2 DEF HandleChange, Edit
<1>7. ASSUME NEW f \in Fields, HandleBlur(f) PROVE EditStaysInRegion'
  <2>1. form \in Form /\ form # None
    BY <1>7 DEF HandleBlur, AtForm, Shape, TypeOK
  <2>2. form'.region = form.region
    BY <1>7, <2>1 DEF HandleBlur, Form
  <2> QED
    BY <1>5, <1>7, <2>1, <2>2 DEF HandleBlur
<1>8. ASSUME NEW e \in Envs, SelectEnv(e) PROVE EditStaysInRegion'
  <2>1. form \in Form /\ form # None
    BY <1>8 DEF SelectEnv, Edit, AtForm, Shape, TypeOK
  <2>2. form'.region = form.region
    BY <1>8, <2>1 DEF SelectEnv, Form
  <2> QED
    BY <1>5, <1>8, <2>1, <2>2 DEF SelectEnv, Edit
<1>9. CASE ToggleAdvanced
  <2>1. form \in Form /\ form # None
    BY <1>9 DEF ToggleAdvanced, AtForm, Shape, TypeOK
  <2>2. form'.region = form.region
    BY <1>9, <2>1 DEF ToggleAdvanced, Form
  <2> QED
    BY <1>5, <1>9, <2>1, <2>2 DEF ToggleAdvanced
<1>10. ASSUME NEW a \in Actions, SubmitInvalid(a) \/ Submit(a) PROVE EditStaysInRegion'
  <2>1. form \in Form /\ form # None
    BY <1>10 DEF SubmitInvalid, Submit, Press, AtForm, Shape, TypeOK
  <2>2. form'.region = form.region
    BY <1>10, <2>1 DEF SubmitInvalid, Submit, Form
  <2>3. region' = region
    BY <1>10, <2>1 DEF SubmitInvalid, Submit, EditStaysInRegion
  <2> QED
    BY <1>5, <1>10, <2>1, <2>2, <2>3 DEF SubmitInvalid, Submit, Press
<1>11. ASSUME UNCHANGED <<edit, editing, late, region, picked, form>> PROVE EditStaysInRegion'
  BY <1>11 DEF EditStaysInRegion
<1>12. ASSUME NEW request \in pending, Failed(request) PROVE EditStaysInRegion'
  BY <1>11, <1>12 DEF Failed
<1>13. CASE HandleConfirm \/ Cancel
  BY <1>11, <1>13 DEF HandleConfirm, Cancel
<1>14. CASE UNCHANGED vars
  BY <1>11, <1>14 DEF vars
<1> QED
  BY <1>1, <1>2, <1>3, <1>4, <1>6, <1>7, <1>8, <1>9, <1>10, <1>12, <1>13, <1>14 DEF Next

-----------------------------------------------------------------------------
(* The theorems                                                            *)

THEOREM Inductive == Spec => []IInv
<1>1. Init => IInv
  BY InitInv
<1>2. IInv /\ [Next]_vars => IInv'
  <2> SUFFICES ASSUME IInv, [Next]_vars PROVE IInv'
    OBVIOUS
  <2>1. TypeOK' /\ Shape'
    BY TypeStep DEF IInv
  <2>2. Seen'
    BY SeenStep DEF IInv
  <2>3. EditKeepsItsResource'
    BY InputsStep, RegionStep DEF IInv, EditKeepsItsResource
  <2> QED
    BY <2>1, <2>2, <2>3 DEF IInv
<1> QED
  BY <1>1, <1>2, PTL DEF Spec

\* The state of the page and of its form keeps its type, whatever comes in
\* whatever order (ResourcePage.js:20-73, DynamicForm.js:59-88).
THEOREM FormType == Spec => []TypeOK
<1>1. IInv => TypeOK
  BY DEF IInv
<1> QED
  BY <1>1, Inductive, PTL

\* What is launched was in the form when a button was pressed, and passed the
\* checks of the schema (ResourcePage.js:113-174, DynamicForm.js:148-167).
THEOREM LaunchesAreSubmitted == Spec => []LaunchesWhatWasSubmitted
<1>1. IInv => LaunchesWhatWasSubmitted
  BY DEF IInv, Seen, LaunchesWhatWasSubmitted, LaunchesWhatWasSeen, LaunchesValidInputs
<1> QED
  BY <1>1, Inductive, PTL

\* A resource under edit keeps its inputs and its region until the user
\* changes them, or the settings come after it (ResourcePage.js:39-73,
\* DynamicForm.js:66-88).
THEOREM EditsKeepTheResource == Spec => []EditKeepsItsResource
<1>1. IInv => EditKeepsItsResource
  BY DEF IInv
<1> QED
  BY <1>1, Inductive, PTL

=============================================================================
