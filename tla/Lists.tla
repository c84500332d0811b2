-------------------------------- MODULE Lists -------------------------------
(***************************************************************************)
(* The pages of the web client that show a list of the server and change   *)
(* it: ApprovalsPage, PoliciesPage, the budgets of CostDashboardPage, and  *)
(* the API keys, AWS accounts and users of SettingsPage.  Each change is a *)
(* request, and what the page does with its answer differs: it reads the   *)
(* list again, takes the row out by itself, or leaves the list alone.      *)
(* Nothing cancels or orders the requests.                                 *)
(*                                                                         *)
(* The user holds the role whose buttons are shown.  A request that is     *)
(* lost is lost on its way there, or its answer is.                        *)
(***************************************************************************)
EXTENDS Naturals, Sequences, Removal

CONSTANTS
  Ids,         \* bound: rows there ever are
  First,       \* the row there is at first, in Ids
  None, Gone,  \* no row yet, a row that was deleted
  MaxPresses   \* bound: requests for a change and selections of a filter

VARIABLES
  at,            \* the list that is open
  rows,          \* the table of the server
  shown,         \* approvals, policies, budgets, apiKeys, accounts, users
  statusFilter,  \* of ApprovalsPage
  form,          \* showForm, editingId and form of PoliciesPage; showBudgetForm
  busy,          \* verifyingAccount, deletingUserId
  calls,         \* changes on their way to the server or back
  reads,         \* requests for the list, in the order they were sent
  overtaken,     \* history: a list came, or a row was taken out, before a list that had been asked for earlier
  missed,        \* history: the page did not hear what the server did, or asked with an old filter
  presses

history == <<overtaken, missed, presses>>
lists == <<rows, shown, statusFilter, form, busy, calls, reads, history>>

Sections == {"approvals", "policies", "budgets", "keys", "accounts", "users"}
Statuses == {"pending", "approved", "rejected"}
Filters == Statuses \cup {"all"}

\* A row is what the pages tell apart in it.
Row == SUBSET (Statuses \cup {"active", "verified", "default"})
Table == [Ids -> Row \cup {None, Gone}]
There(table, i) == table[i] \notin {None, Gone}

Form == [open : BOOLEAN, editing : Ids \cup {None}, of : Ids \cup {None}, row : Row]
ClosedForm == [open |-> FALSE, editing |-> None, of |-> None, row |-> {"active"}]

\* A change: filter is that of the render whose button was pressed.
Ops == {"approve", "reject", "create", "update", "toggle", "delete", "default", "verify"}
Call == [n : 1..MaxPresses, op : Ops, id : Ids \cup {None}, of : Ids \cup {None}, row : Row,
         filter : Filters, phase : {"sent", "ok", "refused"}]

TypeOK ==
  /\ rows \in Table /\ shown \in [Ids -> Row \cup {None}]
  /\ statusFilter \in Filters /\ form \in Form /\ busy \in Ids \cup {None}
  /\ calls \subseteq Call
  /\ \A i \in DOMAIN reads :
       reads[i] \in [filter : Filters, list : [Ids -> Row \cup {None}] \cup {None}]
  /\ overtaken \in BOOLEAN /\ missed \in BOOLEAN /\ presses \in 0..MaxPresses

New == CASE at \in {"policies", "keys"} -> {"active"}
         [] at = "accounts" -> IF \E i \in Ids : There(rows, i) THEN {} ELSE {"default"}
         [] OTHER -> {}

\* A page asks for its list as it is mounted.
Init ==
  /\ rows = [i \in Ids |-> IF at = "approvals" THEN {"pending"}
                           ELSE IF i # First \/ at \notin Sections THEN None
                           ELSE IF at = "accounts" THEN {"default"}
                           ELSE IF at \in {"policies", "keys"} THEN {"active"} ELSE {}]
  /\ shown = [i \in Ids |-> None]
  /\ statusFilter = "pending" /\ form = ClosedForm /\ busy = None
  /\ calls = {} /\ reads = <<[filter |-> "pending", list |-> None]>>
  /\ overtaken = FALSE /\ missed = FALSE /\ presses = 0

Ask(f) == reads' = Append(reads, [filter |-> f, list |-> None])

Press == presses < MaxPresses /\ presses' = presses + 1

Send(op, id, of, row) ==
  /\ Press
  /\ calls' = calls \cup {[n |-> presses + 1, op |-> op, id |-> id, of |-> of, row |-> row,
                            filter |-> statusFilter, phase |-> "sent"]}
  /\ UNCHANGED <<rows, shown, statusFilter, reads, overtaken, missed>>

\* A button of a row that sends a request and changes nothing of the page.
SendOf(section, op, i) ==
  /\ at = section /\ shown[i] # None
  /\ Send(op, i, None, shown[i])
  /\ UNCHANGED <<form, busy>>

-----------------------------------------------------------------------------
(* ApprovalsPage                                                           *)

SelectFilter(f) ==
  /\ at = "approvals" /\ f # statusFilter
  /\ Press
  /\ statusFilter' = f
  /\ Ask(f)
  /\ UNCHANGED <<rows, shown, form, busy, calls, overtaken, missed>>

Review(op, i) == shown[i] = {"pending"} /\ SendOf("approvals", op, i)

\* handleAction asks for the list whatever the answer was, with the filter of
\* the render it was pressed in.
Reviewed(answer) == {"reread"}

-----------------------------------------------------------------------------
(* PoliciesPage                                                            *)

SetForm(f) ==
  /\ form' = f
  /\ UNCHANGED <<rows, shown, statusFilter, busy, calls, reads, history>>

NewPolicy == at = "policies" /\ SetForm([ClosedForm EXCEPT !.open = ~form.open])

EditPolicy(i) ==
  /\ at = "policies" /\ shown[i] # None
  /\ SetForm([open |-> TRUE, editing |-> i, of |-> i, row |-> shown[i]])

\* The templates are shown while the form is closed.
ApplyTemplate ==
  /\ at = "policies" /\ ~form.open
  /\ SetForm([ClosedForm EXCEPT !.open = TRUE])

SavePolicy ==
  /\ at = "policies" /\ form.open
  /\ Send(IF form.editing = None THEN "create" ELSE "update", form.editing, form.of, form.row)
  /\ UNCHANGED <<form, busy>>

\* The whole policy is sent, as it was in the list, with the flag turned over.
TogglePolicy(i) ==
  /\ at = "policies" /\ shown[i] # None
  /\ Send("toggle", i, i, IF shown[i] = {} THEN {"active"} ELSE {})
  /\ UNCHANGED <<form, busy>>

DeletePolicy(i) == SendOf("policies", "delete", i)

\* An answer is not looked at: a refusal reads the list again as a success does.
PolicyChanged(answer) == IF answer = "lost" THEN {"keep"} ELSE {"reread"}

-----------------------------------------------------------------------------
(* The budgets of CostDashboardPage                                        *)

ShowBudgetForm == at = "budgets" /\ SetForm([form EXCEPT !.open = ~@])

CreateBudget ==
  /\ at = "budgets" /\ form.open
  /\ Send("create", None, None, {})
  /\ UNCHANGED <<form, busy>>

DeleteBudget(i) == SendOf("budgets", "delete", i)

BudgetChanged(answer) == IF answer = "lost" THEN {"keep"} ELSE {"reread"}

-----------------------------------------------------------------------------
(* The API keys, the AWS accounts and the users of SettingsPage            *)

GenerateKey ==
  /\ at = "keys"
  /\ Send("create", None, None, {"active"})
  /\ UNCHANGED <<form, busy>>

RevokeKey(i) == shown[i] = {"active"} /\ SendOf("keys", "delete", i)

\* A refusal in words is no JSON and throws; one of the middleware is.
KeyChanged(op, answer) ==
  CASE answer = "lost" -> {"keep"}
    [] answer = "refused" /\ op = "create" -> {"keep", "reread"}
    [] OTHER -> {"reread"}

ConnectAccount ==
  /\ at = "accounts"
  /\ Send("create", None, None, {})
  /\ UNCHANGED <<form, busy>>

VerifyAccount(i) ==
  /\ at = "accounts" /\ shown[i] # None /\ "verified" \notin shown[i] /\ busy # i
  /\ Send("verify", i, None, {})
  /\ busy' = i
  /\ UNCHANGED form

SetDefault(i) ==
  /\ at = "accounts" /\ shown[i] # None /\ "default" \notin shown[i]
  /\ SendOf("accounts", "default", i)

RemoveAccount(i) == SendOf("accounts", "delete", i)

AccountChanged(op, answer) ==
  CASE answer = "lost" -> {"keep"}
    [] answer = "refused" /\ op \in {"create", "verify"} -> {"keep"}
    [] OTHER -> {"reread"}

CreateUser ==
  /\ at = "users"
  /\ Send("create", None, None, {})
  /\ UNCHANGED <<form, busy>>

ConfirmDelete(choice) ==
  /\ at = "users" /\ choice # busy
  /\ choice # None => shown[choice] # None
  /\ busy' = choice
  /\ UNCHANGED <<rows, shown, statusFilter, form, calls, reads, history>>

DeleteUser(i) == busy = i /\ SendOf("users", "delete", i)

\* The status of the answer to a DELETE is not looked at.
UserChanged(op, answer) ==
  CASE op = "delete" /\ answer # "lost" -> {"drop"}
    [] op = "create" /\ answer = "ok" -> {"reread"}
    [] OTHER -> {"keep"}

-----------------------------------------------------------------------------
(* The server                                                              *)

Put(i, row) == IF There(rows, i) THEN [rows EXCEPT ![i] = row] ELSE rows

Effect(c) ==
  CASE c.op = "approve" -> Put(c.id, {"approved"})
    [] c.op = "reject"  -> Put(c.id, {"rejected"})
    [] c.op = "create"  -> [rows EXCEPT ![CHOOSE i \in Ids : rows[i] = None] = New]
    [] c.op \in {"update", "toggle"} -> Put(c.id, c.row)
    [] c.op = "delete"  -> IF at = "keys" THEN Put(c.id, {}) ELSE Put(c.id, Gone)
    [] c.op = "default" -> [i \in Ids |-> IF ~There(rows, i) THEN rows[i]
                                          ELSE IF i = c.id THEN rows[i] \cup {"default"}
                                          ELSE rows[i] \ {"default"}]
    [] c.op = "verify"  -> [rows EXCEPT ![c.id] = @ \cup {"verified"}]

\* What a handler accepts; it may refuse the rest for the role or the input.
Accepts(c) ==
  /\ c.op \in {"approve", "reject"} => rows[c.id] = {"pending"}
  /\ c.op = "create" => \E i \in Ids : rows[i] = None
  /\ c.op = "verify" => There(rows, c.id)

Serve(c) ==
  /\ c.phase = "sent"
  /\ \/ /\ Accepts(c)
        /\ rows' = Effect(c)
        /\ calls' = (calls \ {c}) \cup {[c EXCEPT !.phase = "ok"]}
     \/ /\ calls' = (calls \ {c}) \cup {[c EXCEPT !.phase = "refused"]}
        /\ UNCHANGED rows
  /\ UNCHANGED <<shown, statusFilter, form, busy, reads, history>>

\* The list of the server, as a page asks for it.
View(f) == [i \in Ids |-> IF ~There(rows, i) \/ (at = "approvals" /\ f # "all" /\ rows[i] # {f})
                          THEN None ELSE rows[i]]

ServeRead(i) ==
  /\ reads[i].list = None
  /\ reads' = [reads EXCEPT ![i].list = View(reads[i].filter)]
  /\ UNCHANGED <<rows, shown, statusFilter, form, busy, calls, history>>

-----------------------------------------------------------------------------
(* The answers                                                             *)

TakeRead(i) ==
  /\ reads[i].list # None
  /\ shown' = reads[i].list
  /\ reads' = Without(reads, i)
  /\ overtaken' = (overtaken \/ i # 1)
  /\ UNCHANGED <<rows, statusFilter, form, busy, calls, missed, presses>>

LoseRead(i) ==
  /\ reads' = Without(reads, i)
  /\ missed' = TRUE
  /\ UNCHANGED <<rows, shown, statusFilter, form, busy, calls, overtaken, presses>>

Reactions(op, answer) ==
  CASE at = "approvals" -> Reviewed(answer)
    [] at = "policies"  -> PolicyChanged(answer)
    [] at = "budgets"   -> BudgetChanged(answer)
    [] at = "keys"      -> KeyChanged(op, answer)
    [] at = "accounts"  -> AccountChanged(op, answer)
    [] at = "users"     -> UserChanged(op, answer)

\* A save that was answered closes the form, whatever it has become since.
ClosesForm(c, answer) ==
  /\ answer # "lost"
  /\ \/ at = "policies" /\ (c.op = "create" \/ c.of # None)
     \/ at = "budgets" /\ c.op = "create"

EndsBusy(c, answer) == c.op = "verify" \/ (at = "users" /\ c.op = "delete")

Receive(c, answer) ==
  /\ answer \in {c.phase, "lost"} \ {"sent"}
  /\ calls' = calls \ {c}
  /\ form' = IF ClosesForm(c, answer) THEN ClosedForm ELSE form
  /\ busy' = IF EndsBusy(c, answer) THEN None ELSE busy
  /\ \E reaction \in Reactions(c.op, answer) :
       /\ IF reaction = "reread" THEN Ask(c.filter) ELSE UNCHANGED reads
       /\ shown' = IF reaction = "drop" THEN [shown EXCEPT ![c.id] = None] ELSE shown
       /\ missed' = \/ missed
                    \/ answer = "lost" /\ reaction # "reread"
                    \/ answer # "ok" /\ reaction = "drop"
                    \/ c.filter # statusFilter
       /\ overtaken' = (overtaken \/ (reaction = "drop" /\ reads # << >>))
  /\ UNCHANGED <<rows, statusFilter, presses>>

Next ==
  \/ \E f \in Filters : SelectFilter(f)
  \/ \E i \in Ids, op \in {"approve", "reject"} : Review(op, i)
  \/ NewPolicy \/ ApplyTemplate \/ SavePolicy \/ ShowBudgetForm \/ CreateBudget
  \/ GenerateKey \/ ConnectAccount \/ CreateUser
  \/ \E i \in Ids :
       \/ EditPolicy(i) \/ TogglePolicy(i) \/ DeletePolicy(i) \/ DeleteBudget(i) \/ RevokeKey(i)
       \/ VerifyAccount(i) \/ SetDefault(i) \/ RemoveAccount(i) \/ DeleteUser(i)
  \/ \E choice \in Ids \cup {None} : ConfirmDelete(choice)
  \/ \E c \in calls : Serve(c)
  \/ \E c \in calls, answer \in {"ok", "refused", "lost"} : Receive(c, answer)
  \/ \E i \in DOMAIN reads : ServeRead(i) \/ TakeRead(i) \/ LoseRead(i)

-----------------------------------------------------------------------------
(* Properties                                                              *)

\* Once nothing is on its way a page shows what the server holds, unless a
\* list overtook another, an answer was lost or not looked at, or a review was
\* answered under another filter (ApprovalsPage.js:16-46, PoliciesPage.js:27-53,
\* SettingsPage.js:836-1083).
ListFollowsServer ==
  at \in Sections /\ calls = {} /\ reads = << >> /\ ~overtaken /\ ~missed => shown = View(statusFilter)

\* What a policy is overwritten with was taken from that policy, whatever was
\* opened, closed, saved and answered in between (PoliciesPage.js:27-65).
FormIsOfItsPolicy ==
  /\ form.open /\ form.editing # None => form.of = form.editing
  /\ \A c \in calls : c.op = "update" => c.of = c.id

=============================================================================
