------------------------------- MODULE Session ------------------------------
(***************************************************************************)
(* Who is signed in, in the web client: AuthContext, which restores, opens *)
(* and ends a session, the route guards of App, the wrapper authFetch,     *)
(* LoginPage with its views and timers, SetupPage and the links of Navbar. *)
(* The server is handler_auth.go, one step for each request.               *)
(*                                                                         *)
(* The token lies in localStorage, which all tabs share; the rest is state *)
(* of React and starts afresh with every load of the page.  Redirects are  *)
(* part of the step whose state they follow from (Settle).  Passwords are  *)
(* numbered by the changes of an account, tokens in the order of issue.    *)
(***************************************************************************)
EXTENDS Naturals, Sequences

CONSTANTS
  Tabs,
  Users, Admin,  \* accounts; Admin is the one that the set-up creates
  None,
  MaxTokens,     \* bound: tokens issued
  MaxChanges     \* bound: changes of a password

ASSUME SessionAssumption ==
  /\ Admin \in Users /\ None \notin Users
  /\ MaxTokens \in Nat /\ MaxChanges \in Nat

VARIABLES
  exists,   \* accounts there are
  account,  \* their passwords, and whether these must be changed
  owner,    \* the account each token was issued to
  expired,  \* tokens that are older than a day
  stored,   \* localStorage: the token, or 0
  tab,      \* the page in each tab
  calls     \* requests and answers on their way

server == <<exists, account, owner, expired>>
vars == <<server, stored, tab, calls>>

\* "home" stands for all pages that are open to everyone, "settings" for those
\* that ask for a role.
Urls      == {"home", "settings", "login", "setup"}
Views     == {"login", "forgot", "reset"}
Tokens    == 0..MaxTokens
Passwords == 0..MaxChanges
Timers    == {"home", "reload", "reset"}
Forms     == 1..3

\* The state of LoginPage and SetupPage, lost when the page is left: id tells
\* the page that asked from a later one, current is currentPasswordForChange.
Form == [id : Forms, view : Views, busy : BOOLEAN, current : Passwords \cup {None}]

\* overlap is history: a form was sent while an earlier one waited.
Page == [url : Urls, user : Users \cup {None}, loading : BOOLEAN, mustChange : BOOLEAN,
         pending : Users \cup {None}, needsSetup : BOOLEAN, form : Form, timers : SUBSET Timers,
         overlap : BOOLEAN]

Kinds == {"status", "me", "login", "change", "forgot", "reset", "setup", "page"}

\* token is the one a request carries, and then the one its answer brings.
Call == [tab : Tabs, kind : Kinds, user : Users \cup {None}, token : Tokens,
         password : Passwords \cup {None}, form : {0} \cup Forms,
         answer : {"none", "ok", "mustchange", "refused"}]

TypeOK ==
  /\ exists \subseteq Users
  /\ account \in [Users -> [password : Passwords, mustChange : BOOLEAN]]
  /\ owner \in Seq(Users) /\ Len(owner) <= MaxTokens
  /\ expired \subseteq 1..Len(owner)
  /\ stored \in 0..Len(owner)
  /\ tab \in [Tabs -> Page]
  /\ calls \subseteq Call

EmptyForm(id) == [id |-> id, view |-> "login", busy |-> FALSE, current |-> None]

Request(t, kind) ==
  [tab |-> t, kind |-> kind, user |-> None, token |-> 0, password |-> None,
   form |-> 0, answer |-> "none"]

\* AuthProvider mounts, and finds this token.
Fresh(url, token) ==
  [url |-> url, user |-> None, loading |-> token # 0, mustChange |-> FALSE, pending |-> None,
   needsSetup |-> FALSE, form |-> EmptyForm(1), timers |-> {}, overlap |-> FALSE]

\* An old installation or a new one; a browser that knows neither.
Init ==
  /\ exists \in {{}, Users}
  /\ account = [u \in Users |-> [password |-> 0, mustChange |-> u # Admin]]
  /\ owner = << >> /\ expired = {}
  /\ stored = 0
  /\ tab = [t \in Tabs |-> Fresh("login", 0)]
  /\ calls = {Request(t, "status") : t \in Tabs}

-----------------------------------------------------------------------------
(* Routes                                                                  *)

CanView(s, url) == url = "settings" => s.user = Admin

Waits(t, id) == \E c \in calls : c.tab = t /\ c.form = id

\* Leaving LoginPage loses its state; the timer that would set it does nothing.
Moved(t, s, url) ==
  [s EXCEPT !.url = url, !.timers = @ \ {"reset"},
            !.form = EmptyForm(CHOOSE id \in Forms : ~Waits(t, id))]

ProtectedRoute(t, s) ==
  IF s.loading THEN s
  ELSE IF s.needsSetup THEN Moved(t, s, "setup")
  ELSE IF s.user = None THEN Moved(t, s, "login")
  ELSE IF CanView(s, s.url) THEN s
  ELSE Moved(t, s, "home")

PublicRoute(t, s) ==
  IF s.loading THEN s
  ELSE IF s.needsSetup THEN Moved(t, s, "setup")
  ELSE IF s.user # None /\ ~s.mustChange THEN Moved(t, s, "home")
  ELSE s

Settle(t, s) ==
  CASE s.url = "setup" -> s
    [] s.url = "login" -> PublicRoute(t, s)
    [] OTHER           -> ProtectedRoute(t, s)

\* Seeded: the route of LoginPage does not wait for the session.
AtLoginEarly(t) == tab[t].url = "login"

\* SetupPage is not guarded: who is signed in may be anyone, or still unknown.
AtLogin(t) == tab[t].url = "login" /\ ~tab[t].loading
InApp(t)   == tab[t].url \notin {"login", "setup"} /\ ~tab[t].loading

-----------------------------------------------------------------------------
(* The server                                                              *)

Valid(token) == token # 0 /\ token \notin expired /\ owner[token] \in exists

CanIssue == Len(owner) < MaxTokens

\* The page still knows the password it sent, and needs it for a change only.
Reply(c, u, token, answer) ==
  calls' = (calls \ {c}) \cup
    {[c EXCEPT !.user = u, !.token = token, !.answer = answer,
               !.password = IF answer = "mustchange" THEN @ ELSE None]}

Refuse(c) == Reply(c, None, c.token, "refused")

\* The answer brings a new token.
Grant(c, u, answer) ==
  /\ CanIssue
  /\ owner' = Append(owner, u)
  /\ Reply(c, u, Len(owner) + 1, answer)

ChangeAccount(u) ==
  /\ account[u].password < MaxChanges
  /\ account' = [account EXCEPT ![u] = [password |-> @.password + 1, mustChange |-> FALSE]]

SetupStatusHandler(c) ==
  /\ c.kind = "status"
  /\ Reply(c, None, 0, IF exists = {} THEN "refused" ELSE "ok")   \* refused: needs_setup
  /\ UNCHANGED server

Standing(u) == IF account[u].mustChange THEN "mustchange" ELSE "ok"

\* Seeded: the flag is left out of the answer.
AuthMeBrief(c) ==
  /\ c.kind = "me"
  /\ IF Valid(c.token) THEN Reply(c, owner[c.token], c.token, "ok") ELSE Refuse(c)
  /\ UNCHANGED server

AuthMeHandler(c) ==
  /\ c.kind = "me"
  /\ IF Valid(c.token)
     THEN LET u == owner[c.token] IN Reply(c, u, c.token, Standing(u))
     ELSE Refuse(c)
  /\ UNCHANGED server

LoginHandler(c) ==
  /\ c.kind = "login"
  /\ IF c.user \in exists /\ c.password = account[c.user].password
     THEN Grant(c, c.user, Standing(c.user))
     ELSE Refuse(c) /\ UNCHANGED owner
  /\ UNCHANGED <<exists, account, expired>>

ChangePasswordHandler(c) ==
  /\ c.kind = "change"
  /\ IF Valid(c.token) /\ c.password = account[owner[c.token]].password
     THEN ChangeAccount(owner[c.token]) /\ Grant(c, owner[c.token], "ok")
     ELSE Refuse(c) /\ UNCHANGED <<account, owner>>
  /\ UNCHANGED <<exists, expired>>

\* The reset code, which an administrator hands out, may be right or wrong.
ResetPasswordHandler(c) ==
  /\ c.kind = "reset"
  /\ \/ c.user \in exists /\ ChangeAccount(c.user) /\ Grant(c, c.user, "ok")
     \/ Refuse(c) /\ UNCHANGED <<account, owner>>
  /\ UNCHANGED <<exists, expired>>

ForgotPasswordHandler(c) ==
  /\ c.kind = "forgot"
  /\ Reply(c, None, 0, "ok")
  /\ UNCHANGED server

SetupHandler(c) ==
  /\ c.kind = "setup"
  /\ IF exists = {}
     THEN exists' = {Admin} /\ Grant(c, Admin, "ok")
     ELSE Refuse(c) /\ UNCHANGED <<exists, owner>>
  /\ UNCHANGED <<account, expired>>

\* Any other handler, behind sessionAuthMiddleware, which asks for a token
\* that is signed and not too old.
PageHandler(c) ==
  /\ c.kind = "page"
  /\ Reply(c, None, 0, IF c.token \in {0} \cup expired THEN "refused" ELSE "ok")
  /\ UNCHANGED server

Answer(c) ==
  /\ c.answer = "none"
  /\ \/ SetupStatusHandler(c) \/ AuthMeHandler(c) \/ LoginHandler(c) \/ ChangePasswordHandler(c)
     \/ ResetPasswordHandler(c) \/ ForgotPasswordHandler(c) \/ SetupHandler(c) \/ PageHandler(c)
  /\ UNCHANGED <<stored, tab>>

\* An administrator adds an account, in another browser.
CreateAccount(u) ==
  /\ exists # {} /\ u \notin exists
  /\ exists' = exists \cup {u}
  /\ UNCHANGED <<account, owner, expired, stored, tab, calls>>

\* A token that the browser holds, or a request carries, becomes too old.
Expire(token) ==
  /\ token = stored \/ \E c \in calls : c.token = token /\ c.answer = "none"
  /\ expired' = expired \cup {token}
  /\ UNCHANGED <<exists, account, owner, stored, tab, calls>>

-----------------------------------------------------------------------------
(* Loading a page                                                          *)

SetTab(t, s) == tab' = [tab EXCEPT ![t] = Settle(t, s)]

\* The browser loads the application: whatever was on its way is dropped.
Load(t, url, token) ==
  /\ SetTab(t, Fresh(url, token))
  /\ calls' = {c \in calls : c.tab # t} \cup {Request(t, "status")}
              \cup (IF token = 0 THEN {} ELSE {[Request(t, "me") EXCEPT !.token = token]})

Reload(t, url) ==
  /\ Load(t, url, stored)
  /\ UNCHANGED <<server, stored>>

Take(c) == calls' = calls \ {c}

OnSetupStatus(c) ==
  /\ c.kind = "status"
  /\ SetTab(c.tab, [tab[c.tab] EXCEPT !.needsSetup = c.answer = "refused"])
  /\ Take(c) /\ UNCHANGED stored

OnMe(c) ==
  /\ c.kind = "me"
  /\ LET s == [tab[c.tab] EXCEPT !.loading = FALSE] IN
       CASE c.answer = "ok" ->
              SetTab(c.tab, [s EXCEPT !.user = c.user]) /\ UNCHANGED stored
         [] c.answer = "mustchange" ->
              SetTab(c.tab, [s EXCEPT !.pending = c.user, !.mustChange = TRUE]) /\ UNCHANGED stored
         [] OTHER ->
              SetTab(c.tab, [s EXCEPT !.user = None]) /\ stored' = 0
  /\ Take(c)

-----------------------------------------------------------------------------
(* Answers to LoginPage and SetupPage                                      *)

\* The page that asked is told, if it is still there.
Idle(s, c) == IF c.form = s.form.id THEN [s EXCEPT !.form.busy = FALSE] ELSE s

OnLogin(c) ==
  /\ c.kind = "login"
  /\ LET s == tab[c.tab] IN
       CASE c.answer = "ok" ->
              /\ SetTab(c.tab, [s EXCEPT !.user = c.user, !.timers = @ \cup {"home"}])
              /\ stored' = c.token
         [] c.answer = "mustchange" ->
              /\ SetTab(c.tab, [Idle(s, c) EXCEPT
                   !.pending = c.user, !.mustChange = TRUE,
                   !.form.current = IF c.form = s.form.id THEN c.password ELSE @])
              /\ stored' = c.token
         [] OTHER -> SetTab(c.tab, Idle(s, c)) /\ UNCHANGED stored
  /\ Take(c)

OnChangePassword(c) ==
  /\ c.kind = "change"
  /\ IF c.answer = "ok"
     THEN /\ SetTab(c.tab, Moved(c.tab, [tab[c.tab] EXCEPT !.user = c.user, !.mustChange = FALSE,
                                                    !.pending = None], "home"))
          /\ stored' = c.token
     ELSE SetTab(c.tab, Idle(tab[c.tab], c)) /\ UNCHANGED stored
  /\ Take(c)

OnForgotPassword(c) ==
  /\ c.kind = "forgot"
  /\ LET s == tab[c.tab] IN
       IF c.form = s.form.id
       THEN SetTab(c.tab, [Idle(s, c) EXCEPT !.timers = @ \cup {"reset"}])
       ELSE UNCHANGED tab
  /\ Take(c) /\ UNCHANGED stored

\* The token is stored at once, the page that reads it is loaded later.
OnResetPassword(c) ==
  /\ c.kind = "reset"
  /\ IF c.answer = "ok"
     THEN /\ SetTab(c.tab, [Idle(tab[c.tab], c) EXCEPT !.timers = @ \cup {"reload"}])
          /\ stored' = c.token
     ELSE SetTab(c.tab, Idle(tab[c.tab], c)) /\ UNCHANGED stored
  /\ Take(c)

OnSetup(c) ==
  /\ c.kind = "setup"
  /\ IF c.answer = "ok"
     THEN /\ SetTab(c.tab, Moved(c.tab, [tab[c.tab] EXCEPT !.user = c.user, !.needsSetup = FALSE], "home"))
          /\ stored' = c.token
     ELSE SetTab(c.tab, Idle(tab[c.tab], c)) /\ UNCHANGED stored
  /\ Take(c)

\* Seeded: the page is left as it is.
OnPageStay(c) ==
  /\ c.kind = "page"
  /\ stored' = IF c.answer = "refused" THEN 0 ELSE stored
  /\ Take(c) /\ UNCHANGED tab

\* authFetch: a refused token, whichever it is, ends the session.
OnPage(c) ==
  /\ c.kind = "page"
  /\ IF c.answer = "refused"
     THEN /\ stored' = 0
          /\ IF tab[c.tab].url = "login" THEN Take(c) /\ UNCHANGED tab
             ELSE Load(c.tab, "login", 0)
     ELSE Take(c) /\ UNCHANGED <<stored, tab>>

Receive(c) ==
  /\ c.answer # "none"
  /\ \/ OnSetupStatus(c) \/ OnMe(c) \/ OnLogin(c) \/ OnChangePassword(c)
     \/ OnForgotPassword(c) \/ OnResetPassword(c) \/ OnSetup(c) \/ OnPage(c)
  /\ UNCHANGED server

-----------------------------------------------------------------------------
(* What the user does                                                      *)

\* A form is sent once: its button is off until the answer.  Bound: two forms
\* wait at a time, and after that no other is sent until the page is loaded.
Submit(t, call) ==
  LET id == tab[t].form.id IN
  /\ ~tab[t].form.busy
  /\ ~tab[t].overlap
  /\ tab' = [tab EXCEPT ![t] = [@ EXCEPT !.form.busy = TRUE,
                                         !.overlap = \E f \in Forms : Waits(t, f)]]
  /\ calls' = calls \cup {[call EXCEPT !.form = id]}
  /\ UNCHANGED <<server, stored>>

Shows(t, view) == AtLogin(t) /\ ~tab[t].mustChange /\ tab[t].form.view = view

\* Nobody tries to sign in before there is an account.
HandleLogin(t) ==
  /\ Shows(t, "login") /\ exists # {}
  /\ \E u \in Users, p \in Passwords :
       Submit(t, [Request(t, "login") EXCEPT !.user = u, !.password = p])

\* The current password is the one of the form, which a reload has emptied.
HandleChangePassword(t) ==
  /\ AtLogin(t) /\ tab[t].mustChange
  /\ Submit(t, [Request(t, "change") EXCEPT !.token = stored, !.password = tab[t].form.current])

HandleForgotPassword(t) ==
  /\ Shows(t, "forgot")
  /\ Submit(t, Request(t, "forgot"))

HandleResetPassword(t) ==
  /\ Shows(t, "reset") /\ exists # {}
  /\ \E u \in Users : Submit(t, [Request(t, "reset") EXCEPT !.user = u])

HandleSetup(t) ==
  /\ tab[t].url = "setup"
  /\ Submit(t, Request(t, "setup"))

\* The links of the three views.
SwitchView(t, view) ==
  /\ \/ Shows(t, "login") /\ view = "forgot"
     \/ Shows(t, "forgot") /\ view \in {"login", "reset"}
     \/ Shows(t, "reset") /\ view \in {"login", "forgot"}
  /\ tab' = [tab EXCEPT ![t].form.view = view]
  /\ UNCHANGED <<server, stored, calls>>

\* The timers of LoginPage.  It does not cancel them: the one that goes home
\* fires wherever the user is by then.
Timer(t, k) ==
  /\ k \in tab[t].timers
  /\ LET s == [tab[t] EXCEPT !.timers = @ \ {k}] IN
       CASE k = "home"  -> SetTab(t, Moved(t, s, "home")) /\ UNCHANGED calls
         [] k = "reset" -> SetTab(t, [s EXCEPT !.form.view = "reset"]) /\ UNCHANGED calls
         [] OTHER       -> Load(t, "home", stored)
  /\ UNCHANGED <<server, stored>>

\* The links Navbar offers to a role.
NavLinks(s) == {url \in {"home", "settings"} : CanView(s, url)}

Navigate(t, url) ==
  /\ InApp(t) /\ url \in NavLinks(tab[t])
  /\ SetTab(t, Moved(t, tab[t], url))
  /\ UNCHANGED <<server, stored, calls>>

\* Seeded: localStorage makes a string of null.
LogoutNull(t) ==
  /\ InApp(t)
  /\ stored' = None
  /\ SetTab(t, [tab[t] EXCEPT !.user = None, !.mustChange = FALSE, !.pending = None])
  /\ UNCHANGED <<server, calls>>

Logout(t) ==
  /\ InApp(t)
  /\ stored' = 0
  /\ SetTab(t, [tab[t] EXCEPT !.user = None, !.mustChange = FALSE, !.pending = None])
  /\ UNCHANGED <<server, calls>>

\* A page asks for something, as Navbar does when it mounts.  Bound: one
\* request at a time.
AuthFetch(t) ==
  /\ InApp(t)
  /\ \A c \in calls : c.tab = t => c.kind # "page"
  /\ calls' = calls \cup {[Request(t, "page") EXCEPT !.token = stored]}
  /\ UNCHANGED <<server, stored, tab>>

Next ==
  \/ \E c \in calls : Answer(c) \/ Receive(c)
  \/ \E u \in Users : CreateAccount(u)
  \/ \E token \in 1..Len(owner) : Expire(token)
  \/ \E t \in Tabs :
       \/ HandleLogin(t) \/ HandleChangePassword(t) \/ HandleForgotPassword(t)
       \/ HandleResetPassword(t) \/ HandleSetup(t)
       \/ \E view \in Views : SwitchView(t, view)
       \/ \E k \in Timers : Timer(t, k)
       \/ \E url \in Urls : Navigate(t, url) \/ Reload(t, url)
       \/ Logout(t) \/ AuthFetch(t)

Spec == Init /\ [][Next]_vars

\* What TLC tells states apart by: a token that neither the browser nor a
\* request holds is never read again.
Held == {token \in 1..Len(owner) : token = stored \/ \E c \in calls : c.token = token}
View == <<exists, account, Len(owner), [token \in Held |-> owner[token]],
          expired \cap Held, stored, tab, calls>>

-----------------------------------------------------------------------------
(* Properties                                                              *)

\* Whom the application shows as signed in is whom its requests are made for,
\* in a browser with one tab: user is state of React, the token is read from
\* localStorage for each request (AuthContext.js:17, config.js:26).  It fails
\* where two forms wait at a time: the timer of LoginPage.js:212, which nobody
\* cancels, can empty the form of the next sign-in while that one waits.
ShownUserHoldsToken ==
  \A t \in Tabs : tab[t].user # None /\ ~tab[t].overlap =>
    stored # 0 /\ owner[stored] = tab[t].user

\* Nobody is let in whose password has still to be changed, by whichever of the
\* five ways a session begins (AuthContext.js:43, 76).
PasswordFirst ==
  \A t \in Tabs : tab[t].user # None => ~account[tab[t].user].mustChange

\* An attempt to restore a session ends no other session: a user who has signed
\* in meanwhile stays signed in.  AuthContext.js:50-54 clears the token without
\* a look at it, and relies on PublicRoute to hold the login back until then.
RestoreEndsItsOwn ==
  [][\A c \in calls \ calls' : c.kind = "me" /\ stored' # stored => stored = c.token]_vars
=============================================================================
