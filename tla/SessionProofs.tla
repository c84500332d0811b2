---------------------------- MODULE SessionProofs ---------------------------
(***************************************************************************)
(* What holds of Session for every number of users, tokens and changes:    *)
(* its types and PasswordFirst for any number of tabs, ShownUserHoldsToken *)
(* and RestoreEndsItsOwn for one tab.                                      *)
(*                                                                         *)
(* An answer may be received long after it was given.  The inductive       *)
(* invariant therefore says what an answer on its way brings (Issued),     *)
(* which requests may be on their way while a session is restored, while a *)
(* password has to be changed and while somebody is signed in (Restoring,  *)
(* Changing, Showing), and that a tab finds an id for its next form        *)
(* (Numbered).                                                             *)
(***************************************************************************)
EXTENDS Session, TLAPS

Opening == {"me", "login", "change", "reset", "setup"}

FormKinds == {"login", "change", "forgot", "reset", "setup"}

\* The token of an answer was issued to its user; and whose password must be
\* changed is told so.
Brings(c) ==
  c.kind \in Opening /\ c.answer \in {"ok", "mustchange"} =>
    /\ c.token \in 1..Len(owner) /\ c.user = owner[c.token]
    /\ c.answer = "ok" => ~account[c.user].mustChange

Issued ==
  /\ \A c \in calls : c.token <= Len(owner) /\ Brings(c)
  /\ Len(owner) > 0 => exists # {}
  /\ ~account[Admin].mustChange

\* A form waits by itself unless forms have overlapped, and then with one more.
Numbered(t) ==
  /\ \A c \in calls : c.tab = t => (c.form # 0 <=> c.kind \in FormKinds)
  /\ ~tab[t].overlap =>
       \A c, d \in calls : c.tab = t /\ d.tab = t /\ c.form # 0 /\ d.form # 0 => c = d
  /\ \E a, b \in Forms : \A c \in calls : c.tab = t => c.form \in {0, a, b}

LetIn(t) == tab[t].user # None => ~account[tab[t].user].mustChange

IInv == TypeOK /\ Issued /\ \A t \in Tabs : Numbered(t) /\ LetIn(t)

\* A set-up that changes nothing: there is an account.
Refused(c) == c.kind = "setup" /\ c.answer \in {"none", "refused"}

\* While a session is restored, nothing is on its way that would begin another.
Restoring(t) ==
  /\ tab[t].loading =>
       /\ tab[t].user = None /\ ~tab[t].mustChange /\ exists # {}
       /\ \A c \in calls : c.kind = "status" \/ (c.kind = "me" /\ c.token = stored) \/ Refused(c)
  /\ ~tab[t].loading => \A c \in calls : c.kind # "me"
  /\ \A c, d \in calls : c.kind = "me" /\ d.kind = "me" => c = d

AtLoginSignedOut(t) ==
  tab[t].url = "login" /\ ~tab[t].loading => tab[t].user = None \/ tab[t].mustChange

Changing(t) ==
  tab[t].mustChange =>
    /\ exists # {}
    /\ ~tab[t].overlap =>
         /\ tab[t].user = None
         /\ \A c \in calls : c.form # 0 => c.kind = "change" \/ Refused(c)

Showing(t) ==
  tab[t].user # None =>
    /\ exists # {}
    /\ ~tab[t].overlap =>
         /\ stored # 0 /\ owner[stored] = tab[t].user
         /\ \A c \in calls : c.form # 0 => Refused(c)

One(t) == Restoring(t) /\ AtLoginSignedOut(t) /\ Changing(t) /\ Showing(t)

USE SessionAssumption

-----------------------------------------------------------------------------
(* Routes                                                                  *)

\* What a redirect leaves alone.
Kept(s, r) ==
  /\ r \in Page /\ r.user = s.user /\ r.loading = s.loading /\ r.mustChange = s.mustChange
  /\ r.overlap = s.overlap

LEMMA FreeForm ==
  ASSUME NEW t \in Tabs, Numbered(t)
  PROVE  \E id \in Forms : ~Waits(t, id)
<1>1. PICK a \in Forms, b \in Forms : \A c \in calls : c.tab = t => c.form \in {0, a, b}
  BY DEF Numbered
<1>2. PICK id \in Forms : id # a /\ id # b
  BY DEF Forms
<1>3. id # 0
  BY DEF Forms
<1> QED
  BY <1>1, <1>2, <1>3 DEF Waits

LEMMA MovedKeeps ==
  ASSUME NEW t \in Tabs, NEW s \in Page, NEW url \in Urls, \E id \in Forms : ~Waits(t, id)
  PROVE  Kept(s, Moved(t, s, url)) /\ Moved(t, s, url).url = url
<1> DEFINE free == CHOOSE id \in Forms : ~Waits(t, id)
<1>1. free \in Forms
  OBVIOUS
<1>2. EmptyForm(free) \in Form
  BY <1>1 DEF EmptyForm, Form, Views
<1> HIDE DEF free
<1>3. Moved(t, s, url) = [s EXCEPT !.url = url, !.timers = @ \ {"reset"}, !.form = EmptyForm(free)]
  BY DEF Moved, free
<1>4. s.timers \ {"reset"} \in SUBSET Timers
  BY DEF Page
<1>5. Moved(t, s, url) \in Page
  BY <1>2, <1>3, <1>4 DEF Page
<1>6. Moved(t, s, url).user = s.user /\ Moved(t, s, url).url = url
  BY <1>3 DEF Page
<1>7. /\ Moved(t, s, url).loading = s.loading
      /\ Moved(t, s, url).mustChange = s.mustChange
      /\ Moved(t, s, url).overlap = s.overlap
  BY <1>3 DEF Page
<1> QED
  BY <1>5, <1>6, <1>7 DEF Kept

LEMMA SettleKeeps ==
  ASSUME NEW t \in Tabs, NEW s \in Page, \E id \in Forms : ~Waits(t, id)
  PROVE  /\ Kept(s, Settle(t, s))
         /\ LET r == Settle(t, s) IN
              r.url = "login" /\ ~r.loading => r.user = None \/ r.mustChange
<1> DEFINE r == Settle(t, s)
<1>1. Kept(s, s)
  BY DEF Kept
<1>2. \A url \in Urls : Kept(s, Moved(t, s, url)) /\ Moved(t, s, url).url = url
  BY MovedKeeps
<1>3. {"home", "login", "setup"} \subseteq Urls
  BY DEF Urls
<1>4. CASE s.url = "setup"
  BY <1>1, <1>4 DEF Settle
<1>5. CASE s.url = "login"
  <2>1. r = PublicRoute(t, s)
    BY <1>5 DEF Settle
  <2> QED
    BY <1>1, <1>2, <1>3, <2>1 DEF PublicRoute, Kept
<1>6. CASE s.url \notin {"setup", "login"}
  <2>1. r = ProtectedRoute(t, s)
    BY <1>6 DEF Settle
  <2>2. s.loading => r = s
    BY <2>1 DEF ProtectedRoute
  <2>3. ~s.loading => \/ r = Moved(t, s, "setup") \/ r = Moved(t, s, "home") \/ r = s
                      \/ r = Moved(t, s, "login") /\ s.user = None
    BY <2>1 DEF ProtectedRoute
  <2> QED
    BY <1>1, <1>2, <1>3, <1>6, <2>2, <2>3 DEF Kept
<1> QED
  BY <1>4, <1>5, <1>6

\* SetTab, for a page that is well typed.
LEMMA SetTabKeeps ==
  ASSUME IInv, NEW t \in Tabs, NEW s \in Page, SetTab(t, s)
  PROVE  /\ tab' \in [Tabs -> Page]
         /\ \A x \in Tabs \ {t} : tab'[x] = tab[x]
         /\ Kept(s, tab'[t]) /\ AtLoginSignedOut(t)'
<1>1. tab \in [Tabs -> Page] /\ Numbered(t)
  BY DEF IInv, TypeOK
<1>2. /\ Kept(s, Settle(t, s))
      /\ LET r == Settle(t, s) IN
           r.url = "login" /\ ~r.loading => r.user = None \/ r.mustChange
  BY <1>1, FreeForm, SettleKeeps
<1>3. Settle(t, s) \in Page
  BY <1>2 DEF Kept
<1>4. tab' = [tab EXCEPT ![t] = Settle(t, s)]
  BY DEF SetTab
<1> HIDE DEF Settle
<1>5. tab'[t] = Settle(t, s)
  BY <1>1, <1>4
<1> QED
  BY <1>1, <1>2, <1>3, <1>4, <1>5 DEF AtLoginSignedOut

-----------------------------------------------------------------------------
(* The types, and what answers bring                                       *)

LEMMA InitInv == Init => IInv
<1> SUFFICES ASSUME Init PROVE IInv
  OBVIOUS
<1>1. \A t \in Tabs : Request(t, "status") \in Call
  BY DEF Request, Call, Kinds, Tokens, Forms, Passwords
<1>2. calls \subseteq Call
  BY <1>1 DEF Init
<1>3. EmptyForm(1) \in Form
  BY DEF EmptyForm, Form, Forms, Views
<1>4. Fresh("login", 0) \in Page
  BY <1>3 DEF Fresh, Page, Urls, Timers
<1>5. TypeOK
  <2>1. account \in [Users -> [password : Passwords, mustChange : BOOLEAN]]
    BY DEF Init, Passwords
  <2>2. owner \in Seq(Users) /\ Len(owner) = 0
    BY DEF Init
  <2> QED
    BY <1>2, <1>4, <2>1, <2>2 DEF Init, TypeOK
<1>6. Issued
  <2>1. ~account[Admin].mustChange
    BY DEF Init
  <2>2. \A c \in calls : c.token = 0 /\ c.answer = "none"
    BY DEF Init, Request
  <2>3. Len(owner) = 0
    BY DEF Init
  <2> QED
    BY <2>1, <2>2, <2>3 DEF Issued, Brings
<1>7. ASSUME NEW t \in Tabs PROVE Numbered(t) /\ LetIn(t)
  <2>1. \A c \in calls : c.form = 0 /\ c.kind = "status"
    BY DEF Init, Request
  <2>2. 1 \in Forms
    BY DEF Forms
  <2>3. tab[t].user = None
    BY DEF Init, Fresh
  <2> QED
    BY <2>1, <2>2, <2>3 DEF Numbered, LetIn, FormKinds
<1> QED
  BY <1>5, <1>6, <1>7 DEF IInv

\* What the server may do: accounts are added, tokens are issued, passwords
\* are changed.
ServerGrows ==
  /\ exists \subseteq exists' /\ exists' \subseteq Users
  /\ account' \in [Users -> [password : Passwords, mustChange : BOOLEAN]]
  /\ \A u \in Users : account'[u].mustChange => account[u].mustChange
  /\ owner' \in Seq(Users) /\ Len(owner') <= MaxTokens /\ Len(owner) <= Len(owner')
  /\ \A i \in 1..Len(owner) : owner'[i] = owner[i]
  /\ Len(owner') > 0 => exists' # {}
  /\ expired' \subseteq 1..Len(owner')

LEMMA ServerGrowsUnchanged ==
  ASSUME IInv, UNCHANGED server
  PROVE  ServerGrows
  BY DEF IInv, TypeOK, Issued, ServerGrows, server

LEMMA CallsKept ==
  ASSUME IInv, ServerGrows, NEW c \in calls
  PROVE  c.token <= Len(owner') /\ Brings(c)'
<1>1. c \in Call /\ c.token <= Len(owner) /\ Brings(c) /\ Len(owner) \in Nat /\ Len(owner') \in Nat
  BY DEF IInv, TypeOK, Issued, ServerGrows
<1>2. c.token \in Nat
  BY <1>1 DEF Call, Tokens
<1>3. c.token \in 1..Len(owner) => owner[c.token] \in Users
  BY DEF IInv, TypeOK
<1> QED
  BY <1>1, <1>2, <1>3 DEF Brings, ServerGrows

\* A step of the server that sends an answer, or none.
LEMMA ServerStep ==
  ASSUME IInv, ServerGrows, UNCHANGED <<stored, tab>>, calls' \subseteq Call,
         \A c \in calls' : c \in calls \/ (c.token <= Len(owner') /\ Brings(c)'),
         \A t \in Tabs : Numbered(t)'
  PROVE  IInv'
<1>1. TypeOK'
  BY DEF IInv, TypeOK, ServerGrows
<1>2. Issued'
  <2>1. \A c \in calls' : c.token <= Len(owner') /\ Brings(c)'
    BY CallsKept
  <2> QED
    BY <2>1 DEF IInv, Issued, ServerGrows
<1>3. ASSUME NEW t \in Tabs PROVE LetIn(t)'
  <2>1. tab[t].user \in Users \cup {None}
    BY DEF IInv, TypeOK, Page
  <2> QED
    BY <2>1 DEF IInv, LetIn, ServerGrows
<1> QED
  BY <1>1, <1>2, <1>3 DEF IInv

Answers == {"none", "ok", "mustchange", "refused"}

Answered(c, u, token, answer) ==
  [c EXCEPT !.user = u, !.token = token, !.answer = answer,
            !.password = IF answer = "mustchange" THEN @ ELSE None]

LEMMA AnsweredIs ==
  ASSUME NEW c \in Call, NEW u \in Users \cup {None}, NEW token \in Tokens, NEW answer \in Answers
  PROVE  LET d == Answered(c, u, token, answer) IN
         /\ d \in Call /\ d.tab = c.tab /\ d.kind = c.kind /\ d.form = c.form
         /\ d.user = u /\ d.token = token /\ d.answer = answer
  BY DEF Answered, Call, Answers

LEMMA ReplyStep ==
  ASSUME IInv, ServerGrows, UNCHANGED <<stored, tab>>, NEW c \in calls,
         NEW u \in Users \cup {None}, NEW token \in 0..Len(owner'), NEW answer \in Answers,
         Reply(c, u, token, answer),
         c.kind \in Opening /\ answer \in {"ok", "mustchange"} =>
           /\ token \in 1..Len(owner') /\ u = owner'[token]
           /\ answer = "ok" => ~account'[u].mustChange
  PROVE  IInv'
<1> DEFINE d == Answered(c, u, token, answer)
<1>1. calls' = (calls \ {c}) \cup {d}
  BY DEF Reply, Answered
<1>2. c \in Call /\ token \in Tokens /\ calls \subseteq Call
  BY DEF IInv, TypeOK, ServerGrows, Tokens
<1>3. /\ d \in Call /\ d.tab = c.tab /\ d.kind = c.kind /\ d.form = c.form
      /\ d.user = u /\ d.token = token /\ d.answer = answer
  BY <1>2, AnsweredIs
<1> HIDE DEF d
<1>4. d.token <= Len(owner') /\ Brings(d)'
  BY <1>3 DEF Brings, ServerGrows
<1>5. ASSUME NEW t \in Tabs PROVE Numbered(t)'
  <2>1. Numbered(t)
    BY DEF IInv
  <2> QED
    BY <1>1, <1>3, <2>1 DEF Numbered
<1> QED
  BY <1>1, <1>2, <1>3, <1>4, <1>5, ServerStep

\* A token is issued, with the answer that brings it.
LEMMA GrantStep ==
  ASSUME IInv, UNCHANGED <<stored, tab, expired>>, NEW c \in calls, NEW u \in Users,
         NEW answer \in {"ok", "mustchange"}, Grant(c, u, answer),
         exists \subseteq exists', exists' \subseteq Users, exists' # {},
         account' \in [Users -> [password : Passwords, mustChange : BOOLEAN]],
         \A v \in Users : account'[v].mustChange => account[v].mustChange,
         answer = "ok" => ~account'[u].mustChange
  PROVE  IInv'
<1>1. /\ owner' = Append(owner, u) /\ Reply(c, u, Len(owner) + 1, answer)
      /\ Len(owner) < MaxTokens /\ owner \in Seq(Users) /\ Len(owner) \in Nat
      /\ expired \subseteq 1..Len(owner)
  BY DEF Grant, CanIssue, IInv, TypeOK
<1>2. /\ owner' \in Seq(Users) /\ Len(owner') = Len(owner) + 1
      /\ owner'[Len(owner) + 1] = u
      /\ \A i \in 1..Len(owner) : owner'[i] = owner[i]
  BY <1>1
<1>3. ServerGrows
  BY <1>1, <1>2 DEF ServerGrows
<1>4. Len(owner) + 1 \in 1..Len(owner')
  BY <1>1, <1>2
<1> QED
  BY <1>1, <1>2, <1>3, <1>4, ReplyStep DEF Answers

LEMMA RefuseStep ==
  ASSUME IInv, UNCHANGED <<server, stored, tab>>, NEW c \in calls, Refuse(c)
  PROVE  IInv'
<1>1. c.token \in 0..Len(owner')
  BY DEF IInv, TypeOK, Issued, Call, Tokens, server
<1> QED
  BY <1>1, ServerGrowsUnchanged, ReplyStep DEF Refuse, Answers

LEMMA ChangeAccountIs ==
  ASSUME IInv, NEW u \in Users, ChangeAccount(u)
  PROVE  /\ account' \in [Users -> [password : Passwords, mustChange : BOOLEAN]]
         /\ \A v \in Users : account'[v].mustChange => account[v].mustChange
         /\ ~account'[u].mustChange
<1>1. /\ account \in [Users -> [password : Passwords, mustChange : BOOLEAN]]
      /\ account[u].password + 1 \in Passwords
      /\ account' = [account EXCEPT ![u] = [password |-> account[u].password + 1, mustChange |-> FALSE]]
  BY DEF IInv, TypeOK, ChangeAccount, Passwords
<1> QED
  BY <1>1

LEMMA HolderIs ==
  ASSUME IInv, NEW c \in calls, Valid(c.token)
  PROVE  /\ c.token \in 1..Len(owner) /\ owner[c.token] \in Users /\ exists # {}
         /\ c.token \in Tokens
<1>1. c \in Call /\ c.token <= Len(owner) /\ c.token # 0 /\ exists # {} /\ owner \in Seq(Users)
  BY DEF IInv, TypeOK, Issued, Valid
<1>2. c.token \in Nat
  BY <1>1 DEF Call, Tokens
<1> QED
  BY <1>1, <1>2 DEF Call

LEMMA AnswerStep ==
  ASSUME IInv, NEW c \in calls, Answer(c)
  PROVE  IInv'
<1>0. /\ UNCHANGED <<stored, tab>> /\ c \in Call /\ None \in Users \cup {None} /\ 0 \in 0..Len(owner)
      /\ exists \subseteq Users
      /\ account \in [Users -> [password : Passwords, mustChange : BOOLEAN]]
  BY DEF Answer, IInv, TypeOK
<1>1. CASE SetupStatusHandler(c)
  BY <1>0, <1>1, ServerGrowsUnchanged, ReplyStep DEF SetupStatusHandler, server, Opening, Answers
<1>2. CASE AuthMeHandler(c)
  <2>1. CASE Valid(c.token)
    <3>1. Reply(c, owner[c.token], c.token, Standing(owner[c.token])) /\ UNCHANGED server
      BY <1>2, <2>1 DEF AuthMeHandler
    <3>2. /\ c.token \in 0..Len(owner') /\ owner[c.token] \in Users \cup {None}
          /\ Standing(owner[c.token]) \in Answers
          /\ c.token \in 1..Len(owner') /\ owner[c.token] = owner'[c.token]
          /\ Standing(owner[c.token]) = "ok" => ~account'[owner[c.token]].mustChange
      BY <2>1, <3>1, HolderIs DEF Standing, Answers, server
    <3> QED
      BY <1>0, <3>1, <3>2, ServerGrowsUnchanged, ReplyStep
  <2>2. CASE ~Valid(c.token)
    BY <1>0, <1>2, <2>2, RefuseStep DEF AuthMeHandler
  <2> QED
    BY <2>1, <2>2
<1>3. CASE LoginHandler(c)
  <2>0. UNCHANGED <<exists, account, expired>>
    BY <1>3 DEF LoginHandler
  <2>1. CASE c.user \in exists /\ c.password = account[c.user].password
    <3>1. Grant(c, c.user, Standing(c.user))
      BY <1>3, <2>1 DEF LoginHandler
    <3>2. Standing(c.user) \in {"ok", "mustchange"}
      BY DEF Standing
    <3>3. Standing(c.user) = "ok" => ~account'[c.user].mustChange
      BY <2>0 DEF Standing
    <3> QED
      BY <1>0, <2>0, <2>1, <3>1, <3>2, <3>3, GrantStep
  <2>2. CASE ~(c.user \in exists /\ c.password = account[c.user].password)
    BY <1>0, <1>3, <2>0, <2>2, RefuseStep DEF LoginHandler, server
  <2> QED
    BY <2>1, <2>2
<1>4. CASE ChangePasswordHandler(c)
  <2>0. UNCHANGED <<exists, expired>>
    BY <1>4 DEF ChangePasswordHandler
  <2>1. CASE Valid(c.token) /\ c.password = account[owner[c.token]].password
    <3>1. ChangeAccount(owner[c.token]) /\ Grant(c, owner[c.token], "ok")
      BY <1>4, <2>1 DEF ChangePasswordHandler
    <3>2. owner[c.token] \in Users /\ exists # {}
      BY <2>1, HolderIs
    <3> QED
      BY <1>0, <2>0, <3>1, <3>2, ChangeAccountIs, GrantStep
  <2>2. CASE ~(Valid(c.token) /\ c.password = account[owner[c.token]].password)
    BY <1>0, <1>4, <2>0, <2>2, RefuseStep DEF ChangePasswordHandler, server
  <2> QED
    BY <2>1, <2>2
<1>5. CASE ResetPasswordHandler(c)
  <2>0. UNCHANGED <<exists, expired>>
    BY <1>5 DEF ResetPasswordHandler
  <2>1. CASE c.user \in exists /\ ChangeAccount(c.user) /\ Grant(c, c.user, "ok")
    BY <1>0, <2>0, <2>1, ChangeAccountIs, GrantStep
  <2>2. CASE Refuse(c) /\ UNCHANGED <<account, owner>>
    BY <1>0, <2>0, <2>2, RefuseStep DEF server
  <2> QED
    BY <1>5, <2>1, <2>2 DEF ResetPasswordHandler
<1>6. CASE ForgotPasswordHandler(c)
  BY <1>0, <1>6, ServerGrowsUnchanged, ReplyStep DEF ForgotPasswordHandler, server, Opening, Answers
<1>7. CASE SetupHandler(c)
  <2>0. UNCHANGED <<account, expired>>
    BY <1>7 DEF SetupHandler
  <2>1. CASE exists = {}
    <3>1. exists' = {Admin} /\ Grant(c, Admin, "ok")
      BY <1>7, <2>1 DEF SetupHandler
    <3>2. ~account'[Admin].mustChange
      BY <2>0 DEF IInv, Issued
    <3> QED
      BY <1>0, <2>0, <2>1, <3>1, <3>2, GrantStep
  <2>2. CASE exists # {}
    BY <1>0, <1>7, <2>0, <2>2, RefuseStep DEF SetupHandler, server
  <2> QED
    BY <2>1, <2>2
<1>8. CASE PageHandler(c)
  BY <1>0, <1>8, ServerGrowsUnchanged, ReplyStep DEF PageHandler, server, Opening, Answers
<1> QED
  BY <1>1, <1>2, <1>3, <1>4, <1>5, <1>6, <1>7, <1>8 DEF Answer

LEMMA CreateAccountStep ==
  ASSUME IInv, NEW u \in Users, CreateAccount(u)
  PROVE  IInv'
<1>1. ServerGrows
  BY DEF IInv, TypeOK, Issued, CreateAccount, ServerGrows
<1>2. \A t \in Tabs : Numbered(t)'
  BY DEF IInv, CreateAccount, Numbered
<1> QED
  BY <1>1, <1>2, ServerStep DEF CreateAccount, IInv, TypeOK

LEMMA ExpireStep ==
  ASSUME IInv, NEW token \in 1..Len(owner), Expire(token)
  PROVE  IInv'
<1>1. ServerGrows
  BY DEF IInv, TypeOK, Issued, Expire, ServerGrows
<1>2. \A t \in Tabs : Numbered(t)'
  BY DEF IInv, Expire, Numbered
<1> QED
  BY <1>1, <1>2, ServerStep DEF Expire, IInv, TypeOK

-----------------------------------------------------------------------------
(* What a tab does                                                         *)

\* A step at one tab.
LEMMA TabStep ==
  ASSUME IInv, UNCHANGED server, stored' \in 0..Len(owner), NEW t \in Tabs,
         tab' \in [Tabs -> Page], \A x \in Tabs \ {t} : tab'[x] = tab[x],
         calls' \subseteq Call,
         \A c \in calls' :
           c \in calls \/ (c.tab = t /\ c.token <= Len(owner) /\ c.answer = "none"),
         Numbered(t)', LetIn(t)'
  PROVE  IInv'
<1>1. TypeOK'
  BY DEF IInv, TypeOK, server
<1>2. Issued'
  <2>1. \A c \in calls' : c.token <= Len(owner') /\ Brings(c)'
    BY DEF IInv, Issued, Brings, server
  <2> QED
    BY <2>1 DEF IInv, Issued, server
<1>3. ASSUME NEW x \in Tabs PROVE Numbered(x)' /\ LetIn(x)'
  <2>1. CASE x = t
    BY <2>1
  <2>2. CASE x # t
    <3>1. tab'[x] = tab[x] /\ Numbered(x) /\ LetIn(x)
      BY <2>2 DEF IInv
    <3>2. \A c \in calls' : c.tab = x => c \in calls
      BY <2>2
    <3> QED
      BY <3>1, <3>2 DEF Numbered, LetIn, server
  <2> QED
    BY <2>1, <2>2
<1> QED
  BY <1>1, <1>2, <1>3 DEF IInv

LEMMA Fewer ==
  ASSUME NEW t \in Tabs, Numbered(t), calls' \subseteq calls, tab'[t].overlap = tab[t].overlap
  PROVE  Numbered(t)'
  BY DEF Numbered

\* What a page becomes, but for its form and its timers.
Becomes(t, user, loading, mustChange) ==
  /\ tab' \in [Tabs -> Page] /\ \A x \in Tabs \ {t} : tab'[x] = tab[x]
  /\ tab'[t].user = user /\ tab'[t].loading = loading /\ tab'[t].mustChange = mustChange
  /\ tab'[t].overlap = tab[t].overlap
  /\ AtLoginSignedOut(t) => AtLoginSignedOut(t)'

Stays(t) == Becomes(t, tab[t].user, tab[t].loading, tab[t].mustChange)

LEMMA Shown ==
  ASSUME IInv, NEW t \in Tabs, NEW s \in Page, SetTab(t, s), s.overlap = tab[t].overlap
  PROVE  Becomes(t, s.user, s.loading, s.mustChange)
  BY SetTabKeeps DEF Kept, Becomes

\* A page is shown, and no request is sent.
LEMMA PageStep ==
  ASSUME IInv, UNCHANGED server, stored' \in 0..Len(owner), NEW t \in Tabs,
         NEW user, NEW loading, NEW mustChange,
         Becomes(t, user, loading, mustChange), calls' \subseteq calls,
         user # None => ~account[user].mustChange
  PROVE  IInv'
<1>1. Numbered(t)'
  BY Fewer DEF IInv, Becomes
<1>2. LetIn(t)'
  BY DEF LetIn, server, Becomes
<1> QED
  BY <1>1, <1>2, TabStep DEF IInv, TypeOK, Becomes

\* A page of which only the form or the timers change.
LEMMA StaysStep ==
  ASSUME IInv, UNCHANGED server, stored' \in 0..Len(owner), NEW t \in Tabs, Stays(t),
         calls' \subseteq calls
  PROVE  IInv'
  BY PageStep DEF Stays, IInv, LetIn

\* An answer is received that no page shows.
LEMMA QuietStep ==
  ASSUME IInv, UNCHANGED <<server, tab>>, stored' \in 0..Len(owner), NEW t \in Tabs, calls' \subseteq calls
  PROVE  IInv'
<1>1. Numbered(t)'
  BY Fewer DEF IInv
<1> QED
  BY <1>1, TabStep DEF IInv, TypeOK, LetIn, server

LEMMA RequestIs ==
  ASSUME NEW t \in Tabs, NEW kind \in Kinds
  PROVE  /\ Request(t, kind) \in Call /\ Request(t, kind).tab = t /\ Request(t, kind).token = 0
         /\ Request(t, kind).answer = "none" /\ Request(t, kind).form = 0
         /\ Request(t, kind).kind = kind
  BY DEF Request, Call, Tokens

LEMMA CarryingIs ==
  ASSUME NEW t \in Tabs, NEW kind \in Kinds, NEW token \in Tokens
  PROVE  LET c == [Request(t, kind) EXCEPT !.token = token] IN
         /\ c \in Call /\ c.tab = t /\ c.token = token /\ c.answer = "none" /\ c.form = 0
         /\ c.kind = kind
  BY DEF Request, Call, Tokens

LEMMA FreshIs ==
  ASSUME NEW url \in Urls, NEW token \in Nat
  PROVE  LET s == Fresh(url, token) IN
         /\ s \in Page /\ s.user = None /\ ~s.overlap /\ ~s.mustChange /\ s.loading = (token # 0)
<1>1. EmptyForm(1) \in Form
  BY DEF EmptyForm, Form, Forms, Views
<1>2. (token # 0) \in BOOLEAN /\ {} \in SUBSET Timers
  OBVIOUS
<1>3. Fresh(url, token) \in Page
  BY <1>1, <1>2 DEF Fresh, Page
<1> QED
  BY <1>3 DEF Fresh

\* The requests of a page that is loaded.
LEMMA LoadIs ==
  ASSUME IInv, NEW t \in Tabs, NEW url \in Urls, NEW token \in 0..Len(owner), Load(t, url, token)
  PROVE  /\ calls' \subseteq Call
         /\ \A c \in calls' :
              \/ c \in calls /\ c.tab # t
              \/ /\ c.tab = t /\ c.answer = "none" /\ c.form = 0 /\ c.token <= Len(owner)
                 /\ c.kind = "status" \/ (c = [Request(t, "me") EXCEPT !.token = token] /\ c.kind = "me"
                                          /\ c.token = token /\ token # 0)
         /\ tab' \in [Tabs -> Page] /\ \A x \in Tabs \ {t} : tab'[x] = tab[x]
         /\ tab'[t].user = None /\ ~tab'[t].overlap /\ ~tab'[t].mustChange
         /\ tab'[t].loading = (token # 0) /\ AtLoginSignedOut(t)'
<1>1. token \in Tokens /\ token \in Nat /\ token <= Len(owner) /\ 0 <= Len(owner) /\ calls \subseteq Call
  BY DEF IInv, TypeOK, Tokens
<1>2. "status" \in Kinds /\ "me" \in Kinds
  BY DEF Kinds
<1>3. /\ SetTab(t, Fresh(url, token))
      /\ \A c \in calls' : \/ c \in calls /\ c.tab # t
                           \/ c = Request(t, "status")
                           \/ c = [Request(t, "me") EXCEPT !.token = token] /\ token # 0
  BY DEF Load
<1>4. /\ Request(t, "status") \in Call /\ Request(t, "status").tab = t
      /\ Request(t, "status").token = 0 /\ Request(t, "status").answer = "none"
      /\ Request(t, "status").form = 0 /\ Request(t, "status").kind = "status"
  BY <1>2, RequestIs
<1> DEFINE me == [Request(t, "me") EXCEPT !.token = token]
<1>5. /\ me \in Call /\ me.tab = t /\ me.token = token /\ me.answer = "none" /\ me.form = 0
      /\ me.kind = "me"
  BY <1>1, <1>2, CarryingIs
<1>6. \A c \in calls' : (c \in calls /\ c.tab # t) \/ c = Request(t, "status") \/ (c = me /\ token # 0)
  BY <1>3
<1> HIDE DEF me
<1>7. \A c \in calls' :
        \/ c \in calls /\ c.tab # t
        \/ /\ c \in Call /\ c.tab = t /\ c.answer = "none" /\ c.form = 0 /\ c.token <= Len(owner)
           /\ c.kind = "status" \/ (c = me /\ c.kind = "me" /\ c.token = token /\ token # 0)
  BY <1>1, <1>4, <1>5, <1>6
<1>8. LET s == Fresh(url, token) IN
        /\ s \in Page /\ s.user = None /\ ~s.overlap /\ ~s.mustChange /\ s.loading = (token # 0)
  BY <1>1, FreshIs
<1>9. /\ tab' \in [Tabs -> Page] /\ \A x \in Tabs \ {t} : tab'[x] = tab[x]
      /\ Kept(Fresh(url, token), tab'[t]) /\ AtLoginSignedOut(t)'
  BY <1>3, <1>8, SetTabKeeps
<1> QED
  BY <1>1, <1>7, <1>8, <1>9 DEF me, Kept

LEMMA LoadStep ==
  ASSUME IInv, UNCHANGED server, stored' \in 0..Len(owner), NEW t \in Tabs, NEW url \in Urls,
         NEW token \in 0..Len(owner), Load(t, url, token)
  PROVE  IInv'
<1>1. /\ calls' \subseteq Call
      /\ \A c \in calls' :
           \/ c \in calls /\ c.tab # t
           \/ /\ c.tab = t /\ c.answer = "none" /\ c.form = 0 /\ c.token <= Len(owner)
              /\ c.kind = "status" \/ c.kind = "me"
      /\ tab' \in [Tabs -> Page] /\ \A x \in Tabs \ {t} : tab'[x] = tab[x]
      /\ tab'[t].user = None
  BY LoadIs
<1>2. Numbered(t)'
  <2>1. 1 \in Forms
    BY DEF Forms
  <2> QED
    BY <1>1, <2>1 DEF Numbered, FormKinds
<1>3. LetIn(t)'
  BY <1>1 DEF LetIn
<1> QED
  BY <1>1, <1>2, <1>3, TabStep

\* A form is sent: what the page and the requests are then.
LEMMA SubmitIs ==
  ASSUME IInv, NEW t \in Tabs, NEW call \in Call, Submit(t, call)
  PROVE  \E new \in Call :
           /\ calls' = calls \cup {new} /\ new.form # 0
           /\ new.tab = call.tab /\ new.kind = call.kind /\ new.token = call.token
           /\ new.answer = call.answer
           /\ tab' \in [Tabs -> Page] /\ \A x \in Tabs \ {t} : tab'[x] = tab[x]
           /\ tab'[t].user = tab[t].user /\ tab'[t].loading = tab[t].loading
           /\ tab'[t].mustChange = tab[t].mustChange /\ tab'[t].url = tab[t].url
           /\ ~tab[t].overlap
           /\ ~tab'[t].overlap => \A c \in calls : c.tab = t => c.form = 0
<1> DEFINE s == tab[t]
           f == [tab[t].form EXCEPT !.busy = TRUE]
           o == \E id \in Forms : Waits(t, id)
           new == [call EXCEPT !.form = tab[t].form.id]
<1>1. s \in Page /\ s.form \in Form /\ tab \in [Tabs -> Page] /\ calls \subseteq Call
  BY DEF IInv, TypeOK, Page
<1>2. f \in Form /\ s.form.id \in Forms
  BY <1>1 DEF Form
<1>3. new \in Call /\ new.form = s.form.id /\ new.tab = call.tab /\ new.kind = call.kind
      /\ new.token = call.token /\ new.answer = call.answer
  <2> DEFINE id == tab[t].form.id
  <2>1. id \in Forms
    BY <1>2
  <2> HIDE DEF id
  <2>2. LET n == [call EXCEPT !.form = id] IN
          /\ n \in Call /\ n.form = id /\ n.tab = call.tab /\ n.kind = call.kind
          /\ n.token = call.token /\ n.answer = call.answer
    BY <2>1 DEF Call
  <2> QED
    BY <2>2 DEF id
<1>4. s.form.id # 0
  BY <1>2 DEF Forms
<1>5. /\ ~s.overlap /\ calls' = calls \cup {new}
      /\ tab' = [tab EXCEPT ![t] = [s EXCEPT !.form = f, !.overlap = o]]
  BY DEF Submit
<1>6. o \in BOOLEAN /\ (~o => \A c \in calls : c.tab = t => c.form = 0)
  <2>1. \A c \in calls : c.form \in {0} \cup Forms
    BY <1>1 DEF Call
  <2> QED
    BY <2>1 DEF Waits
<1> HIDE DEF f, o, s, new
<1>7. LET r == [s EXCEPT !.form = f, !.overlap = o] IN
        /\ r \in Page /\ r.user = s.user /\ r.loading = s.loading /\ r.mustChange = s.mustChange
        /\ r.url = s.url /\ r.overlap = o
  BY <1>1, <1>2, <1>6 DEF Page
<1>8. /\ tab' \in [Tabs -> Page] /\ tab'[t] = [s EXCEPT !.form = f, !.overlap = o]
      /\ \A x \in Tabs \ {t} : tab'[x] = tab[x]
  BY <1>1, <1>5, <1>7
<1>9. s = tab[t]
  BY DEF s
<1> QED
  BY <1>3, <1>4, <1>5, <1>6, <1>7, <1>8, <1>9

LEMMA SubmitStep ==
  ASSUME IInv, NEW t \in Tabs, NEW call \in Call, Submit(t, call), call.tab = t,
         call.kind \in FormKinds, call.answer = "none", call.token <= Len(owner)
  PROVE  IInv'
<1>1. PICK new \in Call :
        /\ calls' = calls \cup {new} /\ new.form # 0
        /\ new.tab = t /\ new.kind \in FormKinds /\ new.token <= Len(owner) /\ new.answer = "none"
        /\ tab' \in [Tabs -> Page] /\ \A x \in Tabs \ {t} : tab'[x] = tab[x]
        /\ tab'[t].user = tab[t].user
        /\ ~tab[t].overlap
        /\ ~tab'[t].overlap => \A c \in calls : c.tab = t => c.form = 0
  BY SubmitIs
<1>2. UNCHANGED server /\ stored' \in 0..Len(owner) /\ calls \subseteq Call
  BY DEF Submit, IInv, TypeOK
<1>3. Numbered(t)'
  <2>1. /\ \A c \in calls : c.tab = t => (c.form # 0 <=> c.kind \in FormKinds)
        /\ \A c, d \in calls : c.tab = t /\ d.tab = t /\ c.form # 0 /\ d.form # 0 => c = d
    BY <1>1 DEF IInv, Numbered
  <2>2. PICK a \in Forms : \A c \in calls : c.tab = t => c.form \in {0, a}
    <3>1. CASE \E c \in calls : c.tab = t /\ c.form # 0
      <4>1. PICK c \in calls : c.tab = t /\ c.form # 0
        BY <3>1
      <4>2. c.form \in Forms
        BY <1>2, <4>1 DEF Call
      <4> QED
        BY <2>1, <4>1, <4>2
    <3>2. CASE ~\E c \in calls : c.tab = t /\ c.form # 0
      <4>1. 1 \in Forms
        BY DEF Forms
      <4> QED
        BY <3>2, <4>1
    <3> QED
      BY <3>1, <3>2
  <2>3. new.form \in Forms
    BY <1>1 DEF Call
  <2>4. \A c \in calls' : c.tab = t => c.form \in {0, a, new.form}
    BY <1>1, <2>2
  <2> QED
    BY <1>1, <2>1, <2>2, <2>3, <2>4 DEF Numbered
<1>4. LetIn(t)'
  BY <1>1, <1>2 DEF IInv, LetIn, server
<1> QED
  BY <1>1, <1>2, <1>3, <1>4, TabStep

\* The requests of three of the forms.
LoginOf(t, u, p) == [Request(t, "login") EXCEPT !.user = u, !.password = p]

LEMMA LoginCall ==
  ASSUME NEW t \in Tabs, NEW u \in Users, NEW p \in Passwords
  PROVE  LET c == LoginOf(t, u, p) IN
         c \in Call /\ c.tab = t /\ c.kind = "login" /\ c.answer = "none" /\ c.token = 0
<1>1. 0 \in Tokens
  BY DEF Tokens
<1> QED
  BY <1>1 DEF LoginOf, Request, Call, Kinds

LEMMA ResetCall ==
  ASSUME NEW t \in Tabs, NEW u \in Users
  PROVE  LET c == [Request(t, "reset") EXCEPT !.user = u] IN
         c \in Call /\ c.tab = t /\ c.kind = "reset" /\ c.answer = "none" /\ c.token = 0
<1>1. 0 \in Tokens
  BY DEF Tokens
<1> QED
  BY <1>1 DEF Request, Call, Kinds

LEMMA ChangeCall ==
  ASSUME IInv, NEW t \in Tabs
  PROVE  LET c == [Request(t, "change") EXCEPT !.token = stored, !.password = tab[t].form.current] IN
         c \in Call /\ c.tab = t /\ c.kind = "change" /\ c.answer = "none" /\ c.token = stored
<1> DEFINE current == tab[t].form.current
<1>1. stored \in Tokens /\ current \in Passwords \cup {None}
  BY DEF IInv, TypeOK, Tokens, Page, Form
<1> HIDE DEF current
<1>2. LET c == [Request(t, "change") EXCEPT !.token = stored, !.password = current] IN
        c \in Call /\ c.tab = t /\ c.kind = "change" /\ c.answer = "none" /\ c.token = stored
  BY <1>1 DEF Request, Call, Kinds
<1> QED
  BY <1>2 DEF current

LEMMA SubmitSteps ==
  ASSUME IInv, NEW t \in Tabs,
         HandleLogin(t) \/ HandleChangePassword(t) \/ HandleForgotPassword(t)
           \/ HandleResetPassword(t) \/ HandleSetup(t)
  PROVE  IInv'
<1>1. 0 <= Len(owner) /\ stored <= Len(owner)
  BY DEF IInv, TypeOK
<1>2. {"forgot", "setup"} \subseteq Kinds
  BY DEF Kinds
<1>3. CASE HandleLogin(t)
  <2>1. PICK u \in Users, p \in Passwords : Submit(t, LoginOf(t, u, p))
    BY <1>3 DEF HandleLogin, LoginOf
  <2> DEFINE call == LoginOf(t, u, p)
  <2>2. call \in Call /\ call.tab = t /\ call.kind = "login" /\ call.answer = "none" /\ call.token = 0
    BY LoginCall
  <2> QED
    BY <1>1, <2>1, <2>2, SubmitStep DEF FormKinds
<1>4. CASE HandleChangePassword(t)
  <2> DEFINE call == [Request(t, "change") EXCEPT !.token = stored, !.password = tab[t].form.current]
  <2>1. call \in Call /\ call.tab = t /\ call.kind = "change" /\ call.answer = "none" /\ call.token = stored
    BY ChangeCall
  <2>2. Submit(t, call)
    BY <1>4 DEF HandleChangePassword
  <2> HIDE DEF call
  <2> QED
    BY <1>1, <2>1, <2>2, SubmitStep DEF FormKinds
<1>5. CASE HandleForgotPassword(t)
  BY <1>1, <1>2, <1>5, RequestIs, SubmitStep DEF FormKinds, HandleForgotPassword
<1>6. CASE HandleResetPassword(t)
  <2>1. PICK u \in Users : Submit(t, [Request(t, "reset") EXCEPT !.user = u])
    BY <1>6 DEF HandleResetPassword
  <2> DEFINE call == [Request(t, "reset") EXCEPT !.user = u]
  <2>2. call \in Call /\ call.tab = t /\ call.kind = "reset" /\ call.answer = "none" /\ call.token = 0
    BY ResetCall
  <2>3. Submit(t, call)
    BY <2>1
  <2> HIDE DEF call
  <2> QED
    BY <1>1, <2>2, <2>3, SubmitStep DEF FormKinds
<1>7. CASE HandleSetup(t)
  BY <1>1, <1>2, <1>7, RequestIs, SubmitStep DEF FormKinds, HandleSetup
<1> QED
  BY <1>3, <1>4, <1>5, <1>6, <1>7

-----------------------------------------------------------------------------
(* Answers that are received                                               *)

LEMMA IdleKeeps ==
  ASSUME NEW s \in Page, NEW c
  PROVE  Kept(s, Idle(s, c)) /\ Idle(s, c).timers = s.timers
<1> DEFINE f == [s.form EXCEPT !.busy = FALSE]
<1>1. f \in Form
  BY DEF Page, Form
<1>2. Idle(s, c) = s \/ Idle(s, c) = [s EXCEPT !.form = f]
  BY DEF Idle
<1> HIDE DEF f
<1>3. [s EXCEPT !.form = f] \in Page
  BY <1>1 DEF Page
<1> QED
  BY <1>2, <1>3 DEF Kept, Page

\* More timers, and no other change.
LEMMA TimersKept ==
  ASSUME NEW s \in Page, NEW timers \in SUBSET Timers
  PROVE  Kept(s, [s EXCEPT !.timers = timers])
<1>1. [s EXCEPT !.timers = timers] \in Page
  BY DEF Page
<1> QED
  BY <1>1 DEF Kept, Page

LEMMA CallIs ==
  ASSUME IInv, NEW c \in calls
  PROVE  /\ c \in Call /\ c.tab \in Tabs /\ tab[c.tab] \in Page /\ c.user \in Users \cup {None}
         /\ stored \in 0..Len(owner) /\ 0 \in 0..Len(owner)
         /\ c.password \in Passwords \cup {None}
         /\ c.token \in 0..Len(owner)
<1>1. c \in Call /\ c.token <= Len(owner) /\ Len(owner) \in Nat
  BY DEF IInv, TypeOK, Issued
<1>2. c.token \in Nat
  BY <1>1 DEF Call, Tokens
<1> QED
  BY <1>1, <1>2 DEF IInv, TypeOK, Call

LEMMA BringsIs ==
  ASSUME IInv, NEW c \in calls, c.kind \in Opening, c.answer \in {"ok", "mustchange"}
  PROVE  /\ c.token \in 1..Len(owner) /\ owner[c.token] = c.user /\ c.user \in Users
         /\ c.user # None /\ exists # {}
         /\ c.answer = "ok" => ~account[c.user].mustChange
  BY DEF IInv, TypeOK, Issued, Brings

LEMMA OnSetupStatusIs ==
  ASSUME IInv, NEW c \in calls, OnSetupStatus(c)
  PROVE  Stays(c.tab) /\ calls' = calls \ {c} /\ stored' = stored
<1> DEFINE s == tab[c.tab]
           r == [s EXCEPT !.needsSetup = c.answer = "refused"]
<1>1. s \in Page /\ c.tab \in Tabs
  BY CallIs
<1>2. r \in Page
  BY <1>1 DEF Page
<1>3. r.user = s.user /\ r.loading = s.loading /\ r.mustChange = s.mustChange /\ r.overlap = s.overlap
  BY <1>1 DEF Page
<1>4. SetTab(c.tab, r)
  BY DEF OnSetupStatus
<1> HIDE DEF r
<1> QED
  BY <1>1, <1>2, <1>3, <1>4, Shown DEF Stays, OnSetupStatus, Take

LEMMA OnMeIs ==
  ASSUME IInv, NEW c \in calls, OnMe(c)
  PROVE  /\ calls' = calls \ {c}
         /\ \/ c.answer = "ok" /\ Becomes(c.tab, c.user, FALSE, tab[c.tab].mustChange) /\ stored' = stored
            \/ c.answer = "mustchange" /\ Becomes(c.tab, tab[c.tab].user, FALSE, TRUE) /\ stored' = stored
            \/ Becomes(c.tab, None, FALSE, tab[c.tab].mustChange) /\ stored' = 0
<1> DEFINE s == tab[c.tab]
           s0 == [s EXCEPT !.loading = FALSE]
           ok == [s0 EXCEPT !.user = c.user]
           must == [s0 EXCEPT !.pending = c.user, !.mustChange = TRUE]
           out == [s0 EXCEPT !.user = None]
<1>1. s \in Page /\ c.tab \in Tabs /\ c.user \in Users \cup {None}
  BY CallIs
<1>2. s0 \in Page /\ s0.overlap = s.overlap /\ s0.user = s.user /\ s0.mustChange = s.mustChange
      /\ s0.loading = FALSE
  BY <1>1 DEF Page
<1> HIDE DEF s0
<1>3. ok \in Page /\ ok.overlap = s.overlap /\ ok.user = c.user /\ ok.mustChange = s.mustChange
      /\ ok.loading = FALSE
  BY <1>1, <1>2 DEF Page
<1>4. must \in Page /\ must.overlap = s.overlap /\ must.user = s.user /\ must.mustChange = TRUE
      /\ must.loading = FALSE
  BY <1>1, <1>2 DEF Page
<1>5. out \in Page /\ out.overlap = s.overlap /\ out.user = None /\ out.mustChange = s.mustChange
      /\ out.loading = FALSE
  BY <1>1, <1>2 DEF Page
<1>6. \/ c.answer = "ok" /\ SetTab(c.tab, ok) /\ stored' = stored
      \/ c.answer = "mustchange" /\ SetTab(c.tab, must) /\ stored' = stored
      \/ SetTab(c.tab, out) /\ stored' = 0
  <2>1. CASE c.answer = "ok"
    BY <2>1 DEF OnMe, s0
  <2>2. CASE c.answer = "mustchange"
    BY <2>2 DEF OnMe, s0
  <2>3. CASE c.answer \notin {"ok", "mustchange"}
    BY <2>3 DEF OnMe, s0
  <2> QED
    BY <2>1, <2>2, <2>3
<1>7. calls' = calls \ {c}
  BY DEF OnMe, Take
<1> HIDE DEF ok, must, out
<1>8. SetTab(c.tab, ok) => Becomes(c.tab, c.user, FALSE, s.mustChange)
  BY <1>1, <1>3, Shown
<1>9. SetTab(c.tab, must) => Becomes(c.tab, s.user, FALSE, TRUE)
  BY <1>1, <1>4, Shown
<1>10. SetTab(c.tab, out) => Becomes(c.tab, None, FALSE, s.mustChange)
  BY <1>1, <1>5, Shown
<1> QED
  BY <1>6, <1>7, <1>8, <1>9, <1>10

LEMMA OnLoginIs ==
  ASSUME IInv, NEW c \in calls, OnLogin(c)
  PROVE  /\ calls' = calls \ {c}
         /\ \/ /\ c.answer = "ok" /\ stored' = c.token
               /\ Becomes(c.tab, c.user, tab[c.tab].loading, tab[c.tab].mustChange)
            \/ /\ c.answer = "mustchange" /\ stored' = c.token
               /\ Becomes(c.tab, tab[c.tab].user, tab[c.tab].loading, TRUE)
            \/ c.answer \notin {"ok", "mustchange"} /\ Stays(c.tab) /\ stored' = stored
<1> DEFINE s == tab[c.tab]
           i == Idle(s, c)
           known == IF c.form = s.form.id THEN c.password ELSE i.form.current
           f == [i.form EXCEPT !.current = known]
           more == s.timers \cup {"home"}
           ok == [s EXCEPT !.user = c.user, !.timers = more]
           must == [i EXCEPT !.pending = c.user, !.mustChange = TRUE, !.form = f]
<1>1. s \in Page /\ c.tab \in Tabs /\ c.user \in Users \cup {None} /\ c.password \in Passwords \cup {None}
  BY CallIs
<1>2. Kept(s, i)
  BY <1>1, IdleKeeps
<1>3. /\ i \in Page /\ i.user = s.user /\ i.loading = s.loading /\ i.mustChange = s.mustChange
      /\ i.overlap = s.overlap
  BY <1>2 DEF Kept
<1>4. /\ \/ c.answer = "ok" /\ SetTab(c.tab, ok) /\ stored' = c.token
         \/ c.answer = "mustchange" /\ SetTab(c.tab, must) /\ stored' = c.token
         \/ c.answer \notin {"ok", "mustchange"} /\ SetTab(c.tab, i) /\ stored' = stored
      /\ calls' = calls \ {c}
  <2>1. CASE c.answer = "ok"
    BY <2>1 DEF OnLogin, Take
  <2>2. CASE c.answer = "mustchange"
    BY <2>2 DEF OnLogin, Take
  <2>3. CASE c.answer \notin {"ok", "mustchange"}
    BY <2>3 DEF OnLogin, Take
  <2> QED
    BY <2>1, <2>2, <2>3
<1> HIDE DEF i
<1>5. known \in Passwords \cup {None} /\ i.form \in Form
  BY <1>1, <1>3 DEF Page, Form
<1> HIDE DEF known
<1>6. f \in Form /\ more \in SUBSET Timers
  BY <1>1, <1>5 DEF Form, Page, Timers
<1> HIDE DEF f, more
<1>7. must \in Page /\ must.overlap = s.overlap /\ must.user = s.user /\ must.mustChange = TRUE
      /\ must.loading = s.loading
  BY <1>1, <1>3, <1>6 DEF Page
<1>8. ok \in Page /\ ok.overlap = s.overlap /\ ok.user = c.user /\ ok.mustChange = s.mustChange
      /\ ok.loading = s.loading
  BY <1>1, <1>6 DEF Page
<1> HIDE DEF ok, must
<1>9. SetTab(c.tab, ok) => Becomes(c.tab, c.user, s.loading, s.mustChange)
  BY <1>1, <1>8, Shown
<1>10. SetTab(c.tab, must) => Becomes(c.tab, s.user, s.loading, TRUE)
  BY <1>1, <1>7, Shown
<1>11. SetTab(c.tab, i) => Stays(c.tab)
  BY <1>1, <1>3, Shown DEF Stays
<1> QED
  BY <1>4, <1>9, <1>10, <1>11

LEMMA OnChangePasswordIs ==
  ASSUME IInv, NEW c \in calls, OnChangePassword(c)
  PROVE  /\ calls' = calls \ {c}
         /\ \/ /\ c.answer = "ok" /\ stored' = c.token
               /\ Becomes(c.tab, c.user, tab[c.tab].loading, FALSE)
            \/ c.answer # "ok" /\ Stays(c.tab) /\ stored' = stored
<1> DEFINE s == tab[c.tab]
           i == Idle(s, c)
           ok == [s EXCEPT !.user = c.user, !.mustChange = FALSE, !.pending = None]
<1>1. s \in Page /\ c.tab \in Tabs /\ c.user \in Users \cup {None} /\ "home" \in Urls
  BY CallIs DEF Urls
<1>2. Kept(s, i)
  BY <1>1, IdleKeeps
<1>3. /\ \/ c.answer = "ok" /\ SetTab(c.tab, Moved(c.tab, ok, "home")) /\ stored' = c.token
         \/ c.answer # "ok" /\ SetTab(c.tab, i) /\ stored' = stored
      /\ calls' = calls \ {c}
  BY DEF OnChangePassword, Take
<1> HIDE DEF i
<1>4. ok \in Page /\ ok.overlap = s.overlap /\ ok.user = c.user /\ ok.mustChange = FALSE
      /\ ok.loading = s.loading
  BY <1>1 DEF Page
<1> HIDE DEF ok
<1>5. Kept(ok, Moved(c.tab, ok, "home"))
  BY <1>1, <1>4, MovedKeeps, FreeForm DEF IInv
<1>6. SetTab(c.tab, Moved(c.tab, ok, "home")) => Becomes(c.tab, c.user, s.loading, FALSE)
  BY <1>1, <1>4, <1>5, Shown DEF Kept
<1>7. SetTab(c.tab, i) => Stays(c.tab)
  BY <1>1, <1>2, Shown DEF Stays, Kept
<1> QED
  BY <1>3, <1>6, <1>7

LEMMA OnForgotPasswordIs ==
  ASSUME IInv, NEW c \in calls, OnForgotPassword(c)
  PROVE  calls' = calls \ {c} /\ stored' = stored /\ (Stays(c.tab) \/ UNCHANGED tab)
<1> DEFINE s == tab[c.tab]
           i == Idle(s, c)
           more == i.timers \cup {"reset"}
           r == [i EXCEPT !.timers = more]
<1>1. s \in Page /\ c.tab \in Tabs
  BY CallIs
<1>2. Kept(s, i)
  BY <1>1, IdleKeeps
<1>3. (SetTab(c.tab, r) \/ UNCHANGED tab) /\ calls' = calls \ {c} /\ stored' = stored
  BY DEF OnForgotPassword, Take
<1> HIDE DEF i
<1>4. i \in Page /\ more \in SUBSET Timers
  BY <1>2 DEF Page, Kept, Timers
<1> HIDE DEF more
<1>5. Kept(i, r)
  BY <1>4, TimersKept
<1> HIDE DEF r
<1>6. SetTab(c.tab, r) => Stays(c.tab)
  BY <1>1, <1>2, <1>5, Shown DEF Stays, Kept
<1> QED
  BY <1>3, <1>6

LEMMA OnResetPasswordIs ==
  ASSUME IInv, NEW c \in calls, OnResetPassword(c)
  PROVE  /\ calls' = calls \ {c} /\ Stays(c.tab)
         /\ \/ c.answer = "ok" /\ stored' = c.token
            \/ c.answer # "ok" /\ stored' = stored
<1> DEFINE s == tab[c.tab]
           i == Idle(s, c)
           more == i.timers \cup {"reload"}
           r == [i EXCEPT !.timers = more]
<1>1. s \in Page /\ c.tab \in Tabs
  BY CallIs
<1>2. Kept(s, i)
  BY <1>1, IdleKeeps
<1>3. /\ \/ c.answer = "ok" /\ SetTab(c.tab, r) /\ stored' = c.token
         \/ c.answer # "ok" /\ SetTab(c.tab, i) /\ stored' = stored
      /\ calls' = calls \ {c}
  BY DEF OnResetPassword, Take
<1> HIDE DEF i
<1>4. i \in Page /\ more \in SUBSET Timers
  BY <1>2 DEF Page, Kept, Timers
<1> HIDE DEF more
<1>5. Kept(i, r)
  BY <1>4, TimersKept
<1> HIDE DEF r
<1>6. SetTab(c.tab, r) => Stays(c.tab)
  BY <1>1, <1>2, <1>5, Shown DEF Stays, Kept
<1>7. SetTab(c.tab, i) => Stays(c.tab)
  BY <1>1, <1>2, Shown DEF Stays, Kept
<1>8. CASE c.answer = "ok"
  BY <1>3, <1>6, <1>8
<1>9. CASE c.answer # "ok"
  BY <1>3, <1>7, <1>9
<1> QED
  BY <1>3, <1>8, <1>9

LEMMA OnSetupIs ==
  ASSUME IInv, NEW c \in calls, OnSetup(c)
  PROVE  /\ calls' = calls \ {c}
         /\ \/ /\ c.answer = "ok" /\ stored' = c.token
               /\ Becomes(c.tab, c.user, tab[c.tab].loading, tab[c.tab].mustChange)
            \/ c.answer # "ok" /\ Stays(c.tab) /\ stored' = stored
<1> DEFINE s == tab[c.tab]
           i == Idle(s, c)
           ok == [s EXCEPT !.user = c.user, !.needsSetup = FALSE]
<1>1. s \in Page /\ c.tab \in Tabs /\ c.user \in Users \cup {None} /\ "home" \in Urls
  BY CallIs DEF Urls
<1>2. Kept(s, i)
  BY <1>1, IdleKeeps
<1>3. /\ \/ c.answer = "ok" /\ SetTab(c.tab, Moved(c.tab, ok, "home")) /\ stored' = c.token
         \/ c.answer # "ok" /\ SetTab(c.tab, i) /\ stored' = stored
      /\ calls' = calls \ {c}
  BY DEF OnSetup, Take
<1> HIDE DEF i
<1>4. ok \in Page /\ ok.overlap = s.overlap /\ ok.user = c.user /\ ok.mustChange = s.mustChange
      /\ ok.loading = s.loading
  BY <1>1 DEF Page
<1> HIDE DEF ok
<1>5. Kept(ok, Moved(c.tab, ok, "home"))
  BY <1>1, <1>4, MovedKeeps, FreeForm DEF IInv
<1>6. SetTab(c.tab, Moved(c.tab, ok, "home")) => Becomes(c.tab, c.user, s.loading, s.mustChange)
  BY <1>1, <1>4, <1>5, Shown DEF Kept
<1>7. SetTab(c.tab, i) => Stays(c.tab)
  BY <1>1, <1>2, Shown DEF Stays, Kept
<1> QED
  BY <1>3, <1>6, <1>7

\* A step after which the tab shows who was signed in before, or a user whom
\* an answer names.
LEMMA ReceiveStep ==
  ASSUME IInv, NEW c \in calls, Receive(c)
  PROVE  IInv'
<1>0. /\ UNCHANGED server /\ c.answer # "none" /\ c.tab \in Tabs /\ stored \in 0..Len(owner)
      /\ 0 \in 0..Len(owner) /\ c.token \in 0..Len(owner) /\ LetIn(c.tab)
      /\ "login" \in Urls
  BY CallIs DEF Receive, IInv, Urls
<1>1. c.kind \in Opening /\ c.answer = "ok" => ~account[c.user].mustChange
  BY BringsIs
<1>2. CASE OnSetupStatus(c)
  BY <1>0, <1>2, OnSetupStatusIs, StaysStep
<1>3. CASE OnMe(c)
  <2>1. c.kind \in Opening
    BY <1>3 DEF OnMe, Opening
  <2> QED
    BY <1>0, <1>1, <1>3, <2>1, OnMeIs, PageStep DEF LetIn
<1>4. CASE OnLogin(c)
  <2>1. c.kind \in Opening
    BY <1>4 DEF OnLogin, Opening
  <2> QED
    BY <1>0, <1>1, <1>4, <2>1, OnLoginIs, PageStep, StaysStep DEF LetIn
<1>5. CASE OnChangePassword(c)
  <2>1. c.kind \in Opening
    BY <1>5 DEF OnChangePassword, Opening
  <2> QED
    BY <1>0, <1>1, <1>5, <2>1, OnChangePasswordIs, PageStep, StaysStep
<1>6. CASE OnForgotPassword(c)
  <2>1. CASE Stays(c.tab)
    BY <1>0, <1>6, <2>1, OnForgotPasswordIs, StaysStep
  <2>2. CASE UNCHANGED tab
    BY <1>0, <1>6, <2>2, OnForgotPasswordIs, QuietStep
  <2> QED
    BY <1>6, <2>1, <2>2, OnForgotPasswordIs
<1>7. CASE OnResetPassword(c)
  BY <1>0, <1>7, OnResetPasswordIs, StaysStep
<1>8. CASE OnSetup(c)
  <2>1. c.kind \in Opening
    BY <1>8 DEF OnSetup, Opening
  <2> QED
    BY <1>0, <1>1, <1>8, <2>1, OnSetupIs, PageStep, StaysStep DEF LetIn
<1>9. CASE OnPage(c)
  <2>1. CASE Load(c.tab, "login", 0) /\ stored' = 0
    BY <1>0, <2>1, LoadStep
  <2>2. CASE UNCHANGED tab /\ Take(c) /\ stored' \in {0, stored}
    BY <1>0, <2>2, QuietStep DEF Take
  <2> QED
    BY <1>9, <2>1, <2>2 DEF OnPage
<1> QED
  BY <1>2, <1>3, <1>4, <1>5, <1>6, <1>7, <1>8, <1>9 DEF Receive

-----------------------------------------------------------------------------
(* What the user does                                                      *)

LEMMA SwitchViewIs ==
  ASSUME IInv, NEW t \in Tabs, NEW view \in Views, SwitchView(t, view)
  PROVE  /\ UNCHANGED <<server, stored, calls>>
         /\ Stays(t)
<1> DEFINE s == tab[t]
           f == [s.form EXCEPT !.view = view]
           r == [s EXCEPT !.form = f]
<1>1. s \in Page /\ tab \in [Tabs -> Page]
  BY DEF IInv, TypeOK
<1>2. f \in Form
  BY <1>1 DEF Page, Form
<1>3. tab' = [tab EXCEPT ![t] = r]
  BY DEF SwitchView
<1> HIDE DEF f
<1>4. /\ r \in Page /\ r.user = s.user /\ r.loading = s.loading /\ r.mustChange = s.mustChange
      /\ r.overlap = s.overlap /\ r.url = s.url
  BY <1>1, <1>2 DEF Page
<1> HIDE DEF r
<1>5. s.url = "login" /\ ~s.mustChange
  BY DEF SwitchView, Shows, AtLogin
<1> QED
  BY <1>1, <1>3, <1>4 DEF Stays, Becomes, SwitchView, AtLoginSignedOut

LEMMA TimerIs ==
  ASSUME IInv, NEW t \in Tabs, NEW k \in Timers, Timer(t, k)
  PROVE  /\ UNCHANGED <<server, stored>>
         /\ (Stays(t) /\ UNCHANGED calls) \/ Load(t, "home", stored)
<1> DEFINE s == [tab[t] EXCEPT !.timers = @ \ {k}]
           f == [s.form EXCEPT !.view = "reset"]
           r == [s EXCEPT !.form = f]
<1>1. tab[t] \in Page /\ "home" \in Urls /\ "reset" \in Views
  BY DEF IInv, TypeOK, Urls, Views
<1>2. tab[t].timers \ {k} \in SUBSET Timers
  BY <1>1 DEF Page
<1>3. Kept(tab[t], s)
  BY <1>1, <1>2, TimersKept
<1>4. /\ UNCHANGED <<server, stored>>
      /\ \/ SetTab(t, Moved(t, s, "home")) /\ UNCHANGED calls
         \/ SetTab(t, r) /\ UNCHANGED calls
         \/ Load(t, "home", stored)
  <2>1. CASE k = "home"
    BY <2>1 DEF Timer
  <2>2. CASE k = "reset"
    BY <2>2 DEF Timer
  <2>3. CASE k \notin {"home", "reset"}
    BY <2>3 DEF Timer
  <2> QED
    BY <2>1, <2>2, <2>3
<1> HIDE DEF s
<1>5. s \in Page
  BY <1>3 DEF Kept
<1>6. f \in Form
  BY <1>1, <1>5 DEF Page, Form
<1> HIDE DEF f
<1>7. Kept(s, r)
  BY <1>5, <1>6 DEF Page, Kept
<1> HIDE DEF r
<1>8. Kept(s, Moved(t, s, "home"))
  BY <1>1, <1>5, MovedKeeps, FreeForm DEF IInv
<1>9. SetTab(t, Moved(t, s, "home")) => Stays(t)
  BY <1>3, <1>8, Shown DEF Stays, Kept
<1>10. SetTab(t, r) => Stays(t)
  BY <1>3, <1>7, Shown DEF Stays, Kept
<1> QED
  BY <1>4, <1>9, <1>10

LEMMA NavigateIs ==
  ASSUME IInv, NEW t \in Tabs, NEW url \in Urls, Navigate(t, url)
  PROVE  UNCHANGED <<server, stored, calls>> /\ Stays(t)
<1>1. tab[t] \in Page
  BY DEF IInv, TypeOK
<1>2. Kept(tab[t], Moved(t, tab[t], url))
  BY <1>1, MovedKeeps, FreeForm DEF IInv
<1> QED
  BY <1>2, Shown DEF Navigate, Stays, Kept

LEMMA LogoutIs ==
  ASSUME IInv, NEW t \in Tabs, Logout(t)
  PROVE  UNCHANGED <<server, calls>> /\ stored' = 0 /\ Becomes(t, None, tab[t].loading, FALSE)
<1> DEFINE s == tab[t]
           r == [s EXCEPT !.user = None, !.mustChange = FALSE, !.pending = None]
<1>1. s \in Page
  BY DEF IInv, TypeOK
<1>2. /\ r \in Page /\ r.user = None /\ r.loading = s.loading /\ r.mustChange = FALSE
      /\ r.overlap = s.overlap
  BY <1>1 DEF Page
<1>3. UNCHANGED <<server, calls>> /\ stored' = 0 /\ SetTab(t, r)
  BY DEF Logout
<1> HIDE DEF r
<1> QED
  BY <1>2, <1>3, Shown

LEMMA AuthFetchIs ==
  ASSUME IInv, NEW t \in Tabs, AuthFetch(t)
  PROVE  /\ UNCHANGED <<server, stored, tab>>
         /\ \E new \in Call :
              /\ calls' = calls \cup {new} /\ new.tab = t /\ new.kind = "page" /\ new.form = 0
              /\ new.answer = "none" /\ new.token <= Len(owner)
<1>1. stored \in Tokens /\ stored <= Len(owner) /\ "page" \in Kinds
  BY DEF IInv, TypeOK, Tokens, Kinds
<1> DEFINE new == [Request(t, "page") EXCEPT !.token = stored]
<1>2. /\ new \in Call /\ new.tab = t /\ new.token = stored /\ new.answer = "none" /\ new.form = 0
      /\ new.kind = "page"
  BY <1>1, CarryingIs
<1>3. UNCHANGED <<server, stored, tab>> /\ calls' = calls \cup {new}
  BY DEF AuthFetch
<1> HIDE DEF new
<1> QED
  BY <1>1, <1>2, <1>3

LEMMA AuthFetchStep ==
  ASSUME IInv, NEW t \in Tabs, AuthFetch(t)
  PROVE  IInv'
<1>1. PICK new \in Call :
        /\ calls' = calls \cup {new} /\ new.tab = t /\ new.kind = "page" /\ new.form = 0
        /\ new.answer = "none" /\ new.token <= Len(owner)
  BY AuthFetchIs
<1>2. UNCHANGED <<server, stored, tab>>
  BY AuthFetchIs
<1>3. Numbered(t) /\ LetIn(t) /\ tab \in [Tabs -> Page] /\ calls \subseteq Call /\ stored \in 0..Len(owner)
  BY DEF IInv, TypeOK
<1>4. Numbered(t)'
  BY <1>1, <1>2, <1>3 DEF Numbered, FormKinds
<1> QED
  BY <1>1, <1>2, <1>3, <1>4, TabStep DEF LetIn, server

LEMMA StutterStep == IInv /\ UNCHANGED vars => IInv'
<1> SUFFICES ASSUME IInv, UNCHANGED vars PROVE IInv'
  OBVIOUS
<1>1. TypeOK' /\ Issued'
  BY DEF IInv, TypeOK, Issued, Brings, vars, server
<1>2. ASSUME NEW t \in Tabs PROVE Numbered(t)' /\ LetIn(t)'
  BY DEF IInv, Numbered, LetIn, vars, server
<1> QED
  BY <1>1, <1>2 DEF IInv

LEMMA NextInv == IInv /\ [Next]_vars => IInv'
<1> SUFFICES ASSUME IInv, [Next]_vars PROVE IInv'
  OBVIOUS
<1>0. stored \in 0..Len(owner) /\ 0 \in 0..Len(owner) /\ "home" \in Urls
  BY DEF IInv, TypeOK, Urls
<1>1. ASSUME NEW c \in calls, Answer(c) PROVE IInv'
  BY <1>1, AnswerStep
<1>2. ASSUME NEW c \in calls, Receive(c) PROVE IInv'
  BY <1>2, ReceiveStep
<1>3. ASSUME NEW u \in Users, CreateAccount(u) PROVE IInv'
  BY <1>3, CreateAccountStep
<1>4. ASSUME NEW token \in 1..Len(owner), Expire(token) PROVE IInv'
  BY <1>4, ExpireStep
<1>5. ASSUME NEW t \in Tabs,
             HandleLogin(t) \/ HandleChangePassword(t) \/ HandleForgotPassword(t)
               \/ HandleResetPassword(t) \/ HandleSetup(t)
      PROVE  IInv'
  BY <1>5, SubmitSteps
<1>6. ASSUME NEW t \in Tabs, NEW view \in Views, SwitchView(t, view) PROVE IInv'
  BY <1>0, <1>6, SwitchViewIs, StaysStep
<1>7. ASSUME NEW t \in Tabs, NEW k \in Timers, Timer(t, k) PROVE IInv'
  BY <1>0, <1>7, TimerIs, StaysStep, LoadStep
<1>8. ASSUME NEW t \in Tabs, NEW url \in Urls, Navigate(t, url) PROVE IInv'
  BY <1>0, <1>8, NavigateIs, StaysStep
<1>9. ASSUME NEW t \in Tabs, NEW url \in Urls, Reload(t, url) PROVE IInv'
  BY <1>0, <1>9, LoadStep DEF Reload
<1>10. ASSUME NEW t \in Tabs, Logout(t) PROVE IInv'
  BY <1>0, <1>10, LogoutIs, PageStep
<1>11. ASSUME NEW t \in Tabs, AuthFetch(t) PROVE IInv'
  BY <1>11, AuthFetchStep
<1>12. CASE UNCHANGED vars
  BY <1>12, StutterStep
<1> QED
  BY <1>1, <1>2, <1>3, <1>4, <1>5, <1>6, <1>7, <1>8, <1>9, <1>10, <1>11, <1>12 DEF Next

\* Whatever the order of requests, answers, timers and page loads, in any
\* number of tabs, the state stays well typed: an answer brings a token that
\* was issued, and the browser holds one that was, or none.
THEOREM SessionType == Spec => []TypeOK
<1>1. Spec => []IInv
  BY InitInv, NextInv, PTL DEF Spec
<1>2. IInv => TypeOK
  BY DEF IInv
<1> QED
  BY <1>1, <1>2, PTL

\* Nobody is let in whose password has still to be changed, in any number of
\* tabs: the five answers that let somebody in each say that of their account,
\* at the time they are given, and it stays so until they are received.
THEOREM PasswordIsFirst == Spec => []PasswordFirst
<1>1. Spec => []IInv
  BY InitInv, NextInv, PTL DEF Spec
<1>2. IInv => PasswordFirst
  BY DEF IInv, LetIn, PasswordFirst
<1> QED
  BY <1>1, <1>2, PTL

-----------------------------------------------------------------------------
(* A browser with one tab                                                  *)

LEMMA InitOne ==
  ASSUME NEW t, Tabs = {t}
  PROVE  Init => One(t)
<1> SUFFICES ASSUME Init PROVE One(t)
  OBVIOUS
<1>1. tab[t].user = None /\ ~tab[t].loading /\ ~tab[t].mustChange
  BY DEF Init, Fresh
<1>2. \A c \in calls : c.kind = "status"
  BY DEF Init, Request
<1> QED
  BY <1>1, <1>2 DEF One, Restoring, AtLoginSignedOut, Changing, Showing

\* What an answer leaves of its request.
Answering(c, d) ==
  /\ d.kind = c.kind /\ d.form = c.form
  /\ c.kind = "me" => d.token = c.token
  /\ c.kind = "setup" /\ exists # {} => d.answer = "refused"

LEMMA AnswerIs ==
  ASSUME IInv, NEW c \in calls, Answer(c)
  PROVE  /\ UNCHANGED <<stored, tab>> /\ exists \subseteq exists'
         /\ \A i \in 1..Len(owner) : owner'[i] = owner[i]
         /\ \E d : calls' = (calls \ {c}) \cup {d} /\ Answering(c, d)
<1> USE DEF Answering
<1>1. /\ UNCHANGED <<stored, tab>> /\ c \in Call /\ owner \in Seq(Users) /\ exists \subseteq Users
      /\ c.token \in Tokens
  BY DEF Answer, IInv, TypeOK, Call
<1>2. ASSUME NEW u, NEW token, NEW answer, Reply(c, u, token, answer)
      PROVE  \E d : /\ calls' = (calls \ {c}) \cup {d}
                    /\ d.kind = c.kind /\ d.form = c.form /\ d.token = token /\ d.answer = answer
  <2> DEFINE password == IF answer = "mustchange" THEN c.password ELSE None
             d == [c EXCEPT !.user = u, !.token = token, !.answer = answer, !.password = password]
  <2>1. calls' = (calls \ {c}) \cup {d}
    BY <1>2 DEF Reply
  <2> HIDE DEF password
  <2>2. d.kind = c.kind /\ d.form = c.form /\ d.token = token /\ d.answer = answer
    BY <1>1 DEF Call
  <2> HIDE DEF d
  <2> QED
    BY <2>1, <2>2
<1>3. ASSUME NEW u \in Users, Grant(c, u, "ok") \/ Grant(c, u, "mustchange")
      PROVE  /\ \A i \in 1..Len(owner) : owner'[i] = owner[i]
             /\ \E d : calls' = (calls \ {c}) \cup {d} /\ d.kind = c.kind /\ d.form = c.form
  BY <1>1, <1>2, <1>3 DEF Grant
<1>4. Refuse(c) => \E d : /\ calls' = (calls \ {c}) \cup {d}
                          /\ d.kind = c.kind /\ d.form = c.form /\ d.token = c.token
                          /\ d.answer = "refused"
  BY <1>2 DEF Refuse
<1>5. CASE SetupStatusHandler(c)
  BY <1>1, <1>2, <1>5 DEF SetupStatusHandler, server
<1>6. CASE AuthMeHandler(c)
  <2>1. UNCHANGED server /\ c.kind = "me"
    BY <1>6 DEF AuthMeHandler
  <2>2. \E u, answer : Reply(c, u, c.token, answer)
    BY <1>6 DEF AuthMeHandler, Refuse
  <2>3. PICK u, answer : Reply(c, u, c.token, answer)
    BY <2>2
  <2>4. \E d : calls' = (calls \ {c}) \cup {d} /\ d.kind = c.kind /\ d.form = c.form /\ d.token = c.token
    BY <1>2, <2>3
  <2> QED
    BY <1>1, <2>1, <2>4 DEF server
<1>7. CASE LoginHandler(c)
  <2>1. UNCHANGED exists /\ c.kind = "login"
    BY <1>7 DEF LoginHandler
  <2>2. CASE c.user \in exists /\ c.password = account[c.user].password
    BY <1>1, <1>3, <1>7, <2>1, <2>2 DEF LoginHandler, Standing
  <2>3. CASE Refuse(c) /\ UNCHANGED owner
    BY <1>1, <1>4, <2>1, <2>3
  <2> QED
    BY <1>7, <2>2, <2>3 DEF LoginHandler
<1>8. CASE ChangePasswordHandler(c)
  <2>1. UNCHANGED exists /\ c.kind = "change"
    BY <1>8 DEF ChangePasswordHandler
  <2>2. CASE Valid(c.token) /\ c.password = account[owner[c.token]].password
    <3>1. owner[c.token] \in Users
      BY <2>2, HolderIs
    <3> QED
      BY <1>1, <1>3, <1>8, <2>1, <2>2, <3>1 DEF ChangePasswordHandler
  <2>3. CASE Refuse(c) /\ UNCHANGED owner
    BY <1>1, <1>4, <2>1, <2>3
  <2> QED
    BY <1>8, <2>2, <2>3 DEF ChangePasswordHandler
<1>9. CASE ResetPasswordHandler(c)
  <2>1. UNCHANGED exists /\ c.kind = "reset"
    BY <1>9 DEF ResetPasswordHandler
  <2>2. CASE c.user \in exists /\ Grant(c, c.user, "ok")
    BY <1>1, <1>3, <2>1, <2>2
  <2>3. CASE Refuse(c) /\ UNCHANGED owner
    BY <1>1, <1>4, <2>1, <2>3
  <2> QED
    BY <1>9, <2>2, <2>3 DEF ResetPasswordHandler
<1>10. CASE ForgotPasswordHandler(c)
  BY <1>1, <1>2, <1>10 DEF ForgotPasswordHandler, server
<1>11. CASE SetupHandler(c)
  <2>1. c.kind = "setup"
    BY <1>11 DEF SetupHandler
  <2>2. CASE exists = {}
    BY <1>1, <1>3, <1>11, <2>1, <2>2 DEF SetupHandler
  <2>3. CASE exists # {}
    BY <1>1, <1>4, <1>11, <2>1, <2>3 DEF SetupHandler
  <2> QED
    BY <2>2, <2>3
<1>12. CASE PageHandler(c)
  BY <1>1, <1>2, <1>12 DEF PageHandler, server
<1> QED
  BY <1>5, <1>6, <1>7, <1>8, <1>9, <1>10, <1>11, <1>12 DEF Answer

LEMMA AnswerOne ==
  ASSUME NEW t, Tabs = {t}, IInv, One(t), NEW c \in calls, Answer(c)
  PROVE  One(t)'
<1>1. PICK d : calls' = (calls \ {c}) \cup {d} /\ Answering(c, d)
  BY AnswerIs
<1>2. /\ UNCHANGED <<stored, tab>> /\ exists \subseteq exists'
      /\ \A i \in 1..Len(owner) : owner'[i] = owner[i]
      /\ stored \in 0..Len(owner)
  BY AnswerIs, CallIs
<1>3. Restoring(t)'
  BY <1>1, <1>2 DEF Answering, One, Restoring, Refused
<1>4. AtLoginSignedOut(t)'
  BY <1>2 DEF One, AtLoginSignedOut
<1>5. Changing(t)'
  BY <1>1, <1>2 DEF Answering, One, Changing, Refused
<1>6. Showing(t)'
  BY <1>1, <1>2 DEF Answering, One, Showing, Refused
<1> QED
  BY <1>3, <1>4, <1>5, <1>6 DEF One

LEMMA OutsideOne ==
  ASSUME NEW t, Tabs = {t}, IInv, One(t),
         (\E u \in Users : CreateAccount(u)) \/ (\E token \in 1..Len(owner) : Expire(token))
  PROVE  One(t)'
<1>1. UNCHANGED <<owner, stored, tab, calls>> /\ exists \subseteq exists'
  BY DEF CreateAccount, Expire
<1> QED
  BY <1>1 DEF One, Restoring, AtLoginSignedOut, Changing, Showing, Refused

LEMMA StaysOne ==
  ASSUME NEW t, Tabs = {t}, One(t), UNCHANGED <<server, stored>>, Stays(t), calls' \subseteq calls
  PROVE  One(t)'
  BY DEF Stays, Becomes, One, Restoring, AtLoginSignedOut, Changing, Showing, Refused, server

\* A page that is loaded restores the session of the stored token.
LEMMA LoadOne ==
  ASSUME NEW t, Tabs = {t}, IInv, One(t), UNCHANGED server, NEW url \in Urls,
         stored' \in 0..Len(owner), Load(t, url, stored')
  PROVE  One(t)'
<1>1. /\ \A c \in calls' :
           \/ c \in calls /\ c.tab # t
           \/ /\ c.tab = t /\ c.answer = "none" /\ c.form = 0 /\ c.token <= Len(owner)
              /\ c.kind = "status" \/ (c = [Request(t, "me") EXCEPT !.token = stored'] /\ c.kind = "me"
                                       /\ c.token = stored' /\ stored' # 0)
      /\ tab'[t].user = None /\ ~tab'[t].overlap /\ ~tab'[t].mustChange
      /\ tab'[t].loading = (stored' # 0) /\ AtLoginSignedOut(t)'
  BY LoadIs
<1>2. \A c \in calls : c.tab = t
  BY CallIs
<1>3. stored' # 0 => exists' # {}
  BY DEF IInv, TypeOK, Issued, server
<1> DEFINE me == [Request(t, "me") EXCEPT !.token = stored']
<1> HIDE DEF me
<1>4. \A c \in calls' : c.kind = "status" \/ (c = me /\ c.kind = "me" /\ c.token = stored' /\ stored' # 0)
  BY <1>1, <1>2 DEF me
<1>5. Restoring(t)'
  BY <1>1, <1>3, <1>4 DEF Restoring
<1> QED
  BY <1>1, <1>5 DEF One, Changing, Showing

\* The answer to the only form that waits.
LEMMA LastForm ==
  ASSUME NEW t, Tabs = {t}, IInv, NEW c \in calls, calls' = calls \ {c}, c.kind \in FormKinds,
         ~tab[t].overlap
  PROVE  \A d \in calls' : d.form = 0
  BY CallIs DEF IInv, Numbered

\* A form brings a token, which is stored.  Who is shown is whom it was issued
\* to, or remains nobody.
LEMMA OpenOne ==
  ASSUME NEW t, Tabs = {t}, IInv, One(t), UNCHANGED server, NEW c \in calls,
         c.kind \in {"login", "change", "reset", "setup"}, c.answer \in {"ok", "mustchange"},
         calls' = calls \ {c}, stored' = c.token, NEW user, NEW mustChange,
         Becomes(t, user, tab[t].loading, mustChange), user = c.user \/ user = tab[t].user,
         mustChange => user = tab[t].user \/ (tab[t].mustChange /\ c.kind # "change")
  PROVE  One(t)'
<1>0. /\ Restoring(t) /\ AtLoginSignedOut(t) /\ Changing(t) /\ Showing(t)
      /\ \A d \in calls : d.form # 0 <=> d.kind \in FormKinds
  BY CallIs DEF One, IInv, Numbered
<1>1. c.kind \in Opening /\ c.kind \in FormKinds /\ ~Refused(c) /\ c.form # 0
  BY <1>0 DEF Opening, FormKinds, Refused
<1>2. c.token # 0 /\ c.user # None /\ owner'[c.token] = c.user /\ exists' # {}
  BY <1>1, BringsIs, CallIs DEF server
<1>3. ~tab[t].loading /\ \A d \in calls' : d.kind # "me"
  BY <1>0, <1>1 DEF Restoring
<1>4. ~tab[t].overlap => \A d \in calls' : d.form = 0
  BY <1>1, LastForm
<1>5. ~tab[t].overlap => tab[t].user = None /\ (tab[t].mustChange => c.kind = "change")
  BY <1>0, <1>1 DEF Showing, Changing
<1>6. AtLoginSignedOut(t)'
  BY <1>0 DEF Becomes
<1>7. /\ tab'[t].user = user /\ tab'[t].loading = tab[t].loading /\ tab'[t].mustChange = mustChange
      /\ tab'[t].overlap = tab[t].overlap
  BY DEF Becomes
<1>8. Restoring(t)'
  BY <1>3, <1>7 DEF Restoring
<1>9. Changing(t)'
  BY <1>2, <1>4, <1>5, <1>7 DEF Changing
<1>10. Showing(t)'
  BY <1>2, <1>4, <1>5, <1>7 DEF Showing
<1> QED
  BY <1>6, <1>8, <1>9, <1>10 DEF One

\* An answer is received that no page shows.
LEMMA QuietOne ==
  ASSUME NEW t, Tabs = {t}, One(t), UNCHANGED <<server, stored, tab>>, calls' \subseteq calls
  PROVE  One(t)'
  BY DEF One, Restoring, AtLoginSignedOut, Changing, Showing, Refused, server

LEMMA ReceiveOne ==
  ASSUME NEW t, Tabs = {t}, IInv, One(t), NEW c \in calls, Receive(c)
  PROVE  One(t)'
<1>0. /\ UNCHANGED server /\ c.answer # "none" /\ c.tab = t /\ stored \in 0..Len(owner)
      /\ Restoring(t) /\ AtLoginSignedOut(t) /\ Changing(t) /\ Showing(t)
      /\ \A d \in calls : d.form # 0 <=> d.kind \in FormKinds
  BY CallIs DEF Receive, One, IInv, Numbered
<1>1. ASSUME c.kind \in Opening, c.answer \in {"ok", "mustchange"}
      PROVE  c.token # 0 /\ c.user # None /\ owner'[c.token] = c.user /\ exists' # {}
  BY <1>0, <1>1, BringsIs, CallIs DEF server
<1>2. CASE OnSetupStatus(c)
  BY <1>0, <1>2, OnSetupStatusIs, StaysOne
<1>3. CASE OnMe(c)
  <2>1. /\ c.kind = "me" /\ tab[t].loading /\ c.token = stored /\ exists' # {}
        /\ tab[t].user = None /\ ~tab[t].mustChange
        /\ c.kind \in Opening
    BY <1>0, <1>3 DEF OnMe, Restoring, Refused, Opening, server
  <2>2. calls' = calls \ {c} /\ \A d \in calls' : d.kind = "status" \/ Refused(d)
    BY <1>0, <1>3, <2>1, OnMeIs DEF Restoring
  <2>3. \A d \in calls' : d.form # 0 => Refused(d)
    BY <1>0, <2>2 DEF FormKinds
  <2>4. \A d \in calls' : d.kind # "me"
    BY <2>2 DEF Refused
  <2>5. CASE c.answer = "ok" /\ Becomes(t, c.user, FALSE, FALSE) /\ stored' = stored
    BY <1>0, <1>1, <2>1, <2>3, <2>4, <2>5 DEF Becomes, One, Restoring, Changing, Showing, Refused
  <2>6. CASE c.answer = "mustchange" /\ Becomes(t, None, FALSE, TRUE)
    BY <1>0, <2>1, <2>3, <2>4, <2>6 DEF Becomes, One, Restoring, Changing, Showing, Refused
  <2>7. CASE Becomes(t, None, FALSE, FALSE)
    BY <1>0, <2>4, <2>7 DEF Becomes, One, Restoring, Changing, Showing
  <2>8. tab[t].mustChange = FALSE
    BY <2>1, CallIs, <1>0 DEF Page
  <2> QED
    BY <1>0, <1>3, <2>1, <2>5, <2>6, <2>7, <2>8, OnMeIs
<1>4. CASE OnLogin(c)
  <2>1. c.kind \in Opening /\ c.kind = "login"
    BY <1>4 DEF OnLogin, Opening
  <2> QED
    BY <1>0, <1>4, <2>1, OnLoginIs, OpenOne, StaysOne DEF server
<1>5. CASE OnChangePassword(c)
  <2>1. c.kind \in Opening /\ c.kind = "change"
    BY <1>5 DEF OnChangePassword, Opening
  <2> QED
    BY <1>0, <1>5, <2>1, OnChangePasswordIs, OpenOne, StaysOne DEF server
<1>6. CASE OnForgotPassword(c)
  <2>1. CASE Stays(t)
    BY <1>0, <1>6, <2>1, OnForgotPasswordIs, StaysOne
  <2>2. CASE UNCHANGED tab
    BY <1>0, <1>6, <2>2, OnForgotPasswordIs, QuietOne DEF server
  <2> QED
    BY <1>0, <1>6, <2>1, <2>2, OnForgotPasswordIs
<1>7. CASE OnResetPassword(c)
  <2>1. c.kind \in Opening /\ c.kind = "reset"
    BY <1>7 DEF OnResetPassword, Opening
  <2>2. calls' = calls \ {c} /\ Stays(t)
    BY <1>0, <1>7, OnResetPasswordIs
  <2>3. CASE c.answer = "ok" /\ stored' = c.token
    BY <1>0, <2>1, <2>2, <2>3, OpenOne DEF Stays
  <2>4. CASE stored' = stored
    BY <1>0, <2>2, <2>4, StaysOne
  <2> QED
    BY <1>0, <1>7, <2>3, <2>4, OnResetPasswordIs
<1>8. CASE OnSetup(c)
  <2>1. c.kind \in Opening /\ c.kind = "setup"
    BY <1>8 DEF OnSetup, Opening
  <2>2. CASE /\ c.answer = "ok" /\ stored' = c.token /\ calls' = calls \ {c}
            /\ Becomes(t, c.user, tab[t].loading, tab[t].mustChange)
    BY <1>0, <2>1, <2>2, OpenOne
  <2>3. CASE stored' = stored /\ calls' = calls \ {c} /\ Stays(t)
    BY <1>0, <2>3, StaysOne
  <2>4. /\ calls' = calls \ {c}
        /\ \/ /\ c.answer = "ok" /\ stored' = c.token
              /\ Becomes(t, c.user, tab[t].loading, tab[t].mustChange)
           \/ Stays(t) /\ stored' = stored
    <3>1. c.tab = t
      BY <1>0
    <3> QED
      BY <1>8, <3>1, OnSetupIs
  <2> QED
    BY <2>2, <2>3, <2>4
<1>9. CASE OnPage(c)
  <2>1. CASE Load(t, "login", 0) /\ stored' = 0
    <3>1. Load(t, "login", stored') /\ "login" \in Urls /\ stored' \in 0..Len(owner)
      BY <1>0, <2>1 DEF Urls
    <3> QED
      BY <1>0, <3>1, LoadOne
  <2>2. CASE c.answer # "refused" /\ UNCHANGED <<stored, tab>> /\ Take(c)
    BY <1>0, <2>2, QuietOne DEF Take
  <2>3. CASE tab[t].url = "login" /\ UNCHANGED tab /\ Take(c) /\ stored' = 0
    <3>1. ~tab[t].loading
      BY <1>0, <1>9 DEF OnPage, Restoring, Refused
    <3>2. tab[t].user # None => tab[t].overlap
      BY <1>0, <2>3, <3>1 DEF AtLoginSignedOut, Changing
    <3> QED
      BY <1>0, <2>3, <3>1, <3>2 DEF Take, One, Restoring, AtLoginSignedOut, Changing, Showing, server
  <2> QED
    BY <1>0, <1>9, <2>1, <2>2, <2>3 DEF OnPage
<1> QED
  BY <1>2, <1>3, <1>4, <1>5, <1>6, <1>7, <1>8, <1>9 DEF Receive

\* A form is sent only where it may be answered.
LEMMA SubmitOne ==
  ASSUME NEW t, Tabs = {t}, IInv, One(t), NEW call \in Call, Submit(t, call),
         \/ call.kind \in FormKinds /\ AtLogin(t) /\ ~tab[t].mustChange
         \/ call.kind = "change" /\ AtLogin(t)
         \/ call.kind = "setup" /\ call.answer = "none"
  PROVE  One(t)'
<1>1. PICK new \in Call :
        /\ calls' = calls \cup {new}
        /\ new.kind = call.kind /\ new.answer = call.answer
        /\ tab'[t].user = tab[t].user /\ tab'[t].loading = tab[t].loading
        /\ tab'[t].mustChange = tab[t].mustChange /\ tab'[t].url = tab[t].url
        /\ ~tab[t].overlap
  BY SubmitIs
<1>2. UNCHANGED <<exists, owner, stored>>
  BY DEF Submit, server
<1>3. /\ Restoring(t) /\ AtLoginSignedOut(t) /\ Changing(t) /\ Showing(t)
  BY DEF One
<1>4. Refused(new) \/ AtLogin(t)
  BY <1>1 DEF Refused
<1>5. new.kind # "me"
  BY <1>1 DEF FormKinds
<1>6. AtLogin(t) => ~tab[t].loading /\ tab[t].user = None
  BY <1>1, <1>3 DEF AtLogin, AtLoginSignedOut, Changing
<1>7. Restoring(t)'
  BY <1>1, <1>2, <1>3, <1>4, <1>5, <1>6 DEF Restoring, Refused
<1>8. AtLoginSignedOut(t)'
  BY <1>1, <1>3 DEF AtLoginSignedOut
<1>9. Changing(t)'
  BY <1>1, <1>2, <1>3, <1>4 DEF Changing, Refused
<1>10. Showing(t)'
  BY <1>1, <1>2, <1>3, <1>4, <1>6 DEF Showing, Refused
<1> QED
  BY <1>7, <1>8, <1>9, <1>10 DEF One

LEMMA FormsOne ==
  ASSUME NEW t, Tabs = {t}, IInv, One(t),
         HandleLogin(t) \/ HandleChangePassword(t) \/ HandleForgotPassword(t)
           \/ HandleResetPassword(t) \/ HandleSetup(t)
  PROVE  One(t)'
<1>1. {"forgot", "setup"} \subseteq Kinds /\ t \in Tabs
  BY DEF Kinds
<1>2. CASE HandleLogin(t)
  <2>1. PICK u \in Users, p \in Passwords : Submit(t, LoginOf(t, u, p))
    BY <1>2 DEF HandleLogin, LoginOf
  <2> DEFINE call == LoginOf(t, u, p)
  <2>2. call \in Call /\ call.kind = "login"
    BY <1>1, LoginCall
  <2> QED
    BY <1>2, <2>1, <2>2, SubmitOne DEF HandleLogin, Shows, FormKinds
<1>3. CASE HandleChangePassword(t)
  <2> DEFINE call == [Request(t, "change") EXCEPT !.token = stored, !.password = tab[t].form.current]
  <2>1. call \in Call /\ call.kind = "change"
    BY <1>1, ChangeCall
  <2>2. Submit(t, call) /\ AtLogin(t)
    BY <1>3 DEF HandleChangePassword
  <2> HIDE DEF call
  <2> QED
    BY <2>1, <2>2, SubmitOne
<1>4. CASE HandleForgotPassword(t)
  BY <1>1, <1>4, RequestIs, SubmitOne DEF FormKinds, HandleForgotPassword, Shows
<1>5. CASE HandleResetPassword(t)
  <2>1. PICK u \in Users : Submit(t, [Request(t, "reset") EXCEPT !.user = u])
    BY <1>5 DEF HandleResetPassword
  <2> DEFINE call == [Request(t, "reset") EXCEPT !.user = u]
  <2>2. call \in Call /\ call.kind = "reset"
    BY <1>1, ResetCall
  <2>3. Submit(t, call)
    BY <2>1
  <2> HIDE DEF call
  <2> QED
    BY <1>5, <2>2, <2>3, SubmitOne DEF HandleResetPassword, Shows, FormKinds
<1>6. CASE HandleSetup(t)
  BY <1>1, <1>6, RequestIs, SubmitOne DEF HandleSetup
<1> QED
  BY <1>2, <1>3, <1>4, <1>5, <1>6

LEMMA NextOne ==
  ASSUME NEW t, Tabs = {t}
  PROVE  IInv /\ One(t) /\ [Next]_vars => One(t)'
<1> SUFFICES ASSUME IInv, One(t), [Next]_vars PROVE One(t)'
  OBVIOUS
<1>0. stored \in 0..Len(owner) /\ "home" \in Urls /\ t \in Tabs
  BY DEF IInv, TypeOK, Urls
<1>1. ASSUME NEW c \in calls, Answer(c) PROVE One(t)'
  BY <1>1, AnswerOne
<1>2. ASSUME NEW c \in calls, Receive(c) PROVE One(t)'
  BY <1>2, ReceiveOne
<1>3. CASE (\E u \in Users : CreateAccount(u)) \/ (\E token \in 1..Len(owner) : Expire(token))
  BY <1>3, OutsideOne
<1>4. CASE HandleLogin(t) \/ HandleChangePassword(t) \/ HandleForgotPassword(t)
             \/ HandleResetPassword(t) \/ HandleSetup(t)
  BY <1>4, FormsOne
<1>5. ASSUME NEW view \in Views, SwitchView(t, view) PROVE One(t)'
  BY <1>0, <1>5, SwitchViewIs, StaysOne
<1>6. ASSUME NEW k \in Timers, Timer(t, k) PROVE One(t)'
  <2>1. UNCHANGED <<server, stored>> /\ ((Stays(t) /\ UNCHANGED calls) \/ Load(t, "home", stored'))
    BY <1>0, <1>6, TimerIs
  <2> QED
    BY <1>0, <2>1, StaysOne, LoadOne
<1>7. ASSUME NEW url \in Urls, Navigate(t, url) PROVE One(t)'
  BY <1>0, <1>7, NavigateIs, StaysOne
<1>8. ASSUME NEW url \in Urls, Reload(t, url) PROVE One(t)'
  <2>1. UNCHANGED <<server, stored>> /\ Load(t, url, stored')
    BY <1>8 DEF Reload
  <2> QED
    BY <1>0, <2>1, LoadOne
<1>9. CASE Logout(t)
  <2>1. UNCHANGED <<server, calls>> /\ Becomes(t, None, tab[t].loading, FALSE) /\ ~tab[t].loading
    BY <1>0, <1>9, LogoutIs DEF Logout, InApp
  <2> QED
    BY <2>1 DEF Becomes, One, Restoring, Changing, Showing
<1>10. CASE AuthFetch(t)
  <2>1. PICK new \in Call : calls' = calls \cup {new} /\ new.kind = "page" /\ new.form = 0
    BY <1>0, <1>10, AuthFetchIs
  <2>2. UNCHANGED <<server, stored, tab>> /\ ~tab[t].loading
    BY <1>0, <1>10, AuthFetchIs DEF AuthFetch, InApp
  <2> QED
    BY <2>1, <2>2 DEF One, Restoring, AtLoginSignedOut, Changing, Showing, Refused, server
<1>11. CASE UNCHANGED vars
  BY <1>11 DEF vars, server, One, Restoring, AtLoginSignedOut, Changing, Showing, Refused
<1> QED
  BY <1>1, <1>2, <1>3, <1>4, <1>5, <1>6, <1>7, <1>8, <1>9, <1>10, <1>11 DEF Next

\* In a browser with one tab, whom the application shows as signed in is whom
\* its requests are made for, unless two forms have waited at a time.
THEOREM ShownUser ==
  ASSUME NEW t, Tabs = {t}
  PROVE  Spec => []ShownUserHoldsToken
<1>1. Init => IInv /\ One(t)
  BY InitInv, InitOne
<1>2. IInv /\ One(t) /\ [Next]_vars => (IInv /\ One(t))'
  BY NextInv, NextOne
<1>3. IInv /\ One(t) => ShownUserHoldsToken
  BY DEF One, Showing, ShownUserHoldsToken
<1> QED
  BY <1>1, <1>2, <1>3, PTL DEF Spec

\* In a browser with one tab, an attempt to restore a session that fails ends
\* no other session: while it is on its way nobody signs in.
THEOREM RestoreEndsItsOwnSession ==
  ASSUME NEW t, Tabs = {t}
  PROVE  Spec => RestoreEndsItsOwn
<1>1. Init => IInv /\ One(t)
  BY InitInv, InitOne
<1>2. IInv /\ One(t) /\ [Next]_vars => (IInv /\ One(t))'
  BY NextInv, NextOne
<1>3. IInv /\ One(t) =>
        [\A c \in calls \ calls' : c.kind = "me" /\ stored' # stored => stored = c.token]_vars
  BY DEF One, Restoring, Refused
<1> QED
  BY <1>1, <1>2, <1>3, PTL DEF Spec, RestoreEndsItsOwn
=============================================================================
