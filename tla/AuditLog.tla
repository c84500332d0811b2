------------------------------- MODULE AuditLog -----------------------------
(***************************************************************************)
(* AuditLogPage: entries by page, filter and search.  An effect asks for   *)
(* them when the page or a filter changes; a search asks by itself, with   *)
(* the page of the render it was submitted in.                             *)
(***************************************************************************)
EXTENDS Naturals, Sequences, Removal

CONSTANTS
  LastPage,     \* of the whole log; a filter or a search leaves one page
  MaxTurns      \* bound: what the user does

VARIABLES
  page, search,
  actionFilter,  \* actionFilter and entityFilter
  entries,       \* what the entries that are shown were asked for with
  total,         \* pages there are, as last told
  logFetches,    \* on their way, in the order they were sent
  logsCrossed,   \* history: answered out of order
  logLost,       \* history: a request was lost or refused since the last that was not
  hasty,         \* history: the search was edited, or a page turned on an old total, since page 0 was asked for
  turns

audit == <<page, actionFilter, search, entries, total, logFetches, logsCrossed, logLost, hasty, turns>>

\* The empty texts are "all" and "none".
Filters == {"all", "plan"}
Searches == {"none", "text"}
Query == [page : 0..LastPage, filter : Filters, search : Searches]
Pages(filt, text) == IF filt = "all" /\ text = "none" THEN LastPage + 1 ELSE 1

TypeOK ==
  /\ page \in 0..LastPage /\ actionFilter \in Filters /\ search \in Searches
  /\ entries \in Query /\ total \in 0..(LastPage + 1)
  /\ logFetches \in Seq(Query)
  /\ logsCrossed \in BOOLEAN /\ logLost \in BOOLEAN /\ hasty \in BOOLEAN /\ turns \in 0..MaxTurns

FirstPage == [page |-> 0, filter |-> "all", search |-> "none"]

Init ==
  /\ page = 0 /\ actionFilter = "all" /\ search = "none"
  /\ entries = FirstPage /\ total = 0
  /\ logFetches = <<FirstPage>>
  /\ logsCrossed = FALSE /\ logLost = FALSE /\ hasty = FALSE /\ turns = 0

Turn == turns < MaxTurns /\ turns' = turns + 1

\* A request of the effect, if it runs: the page or the filter changed.
Effect(sent) ==
  logFetches' = IF page' # page \/ actionFilter' # actionFilter
             THEN Append(sent, [page |-> page', filter |-> actionFilter', search |-> search'])
             ELSE sent

SelectFilter(f) ==
  /\ f # actionFilter /\ Turn
  /\ actionFilter' = f /\ page' = 0 /\ hasty' = FALSE
  /\ UNCHANGED <<search, entries, total, logsCrossed, logLost>>
  /\ Effect(logFetches)

TypeSearch(text) ==
  /\ text # search /\ Turn
  /\ search' = text /\ hasty' = TRUE
  /\ UNCHANGED <<page, actionFilter, entries, total, logFetches, logsCrossed, logLost>>

\* Seeded: the search is only sent, with the page it was submitted on.
HandleSearchHere ==
  /\ Turn
  /\ hasty' = FALSE
  /\ logFetches' = Append(logFetches, [page |-> page, filter |-> actionFilter, search |-> search])
  /\ UNCHANGED <<page, actionFilter, search, entries, total, logsCrossed, logLost>>

HandleSearch ==
  /\ Turn
  /\ page' = 0 /\ hasty' = FALSE
  /\ UNCHANGED <<actionFilter, search, entries, total, logsCrossed, logLost>>
  /\ Effect(Append(logFetches, [page |-> page, filter |-> actionFilter, search |-> search]))

SetPage(p) ==
  /\ total > 1 /\ Turn
  /\ page' = p
  /\ hasty' = (hasty \/ logLost \/ logFetches # << >>)
  /\ UNCHANGED <<actionFilter, search, entries, total, logsCrossed, logLost>>
  /\ Effect(logFetches)

Previous == page > 0 /\ SetPage(page - 1)
\* Seeded: the button of the last page can be pressed.
NextPageOn == page + 1 <= total /\ SetPage(page + 1)

NextPage == page + 1 < total /\ SetPage(page + 1)

\* The rows of the page asked for, and how many there are in all.
OnEntries(i) ==
  /\ entries' = logFetches[i]
  /\ total' = Pages(logFetches[i].filter, logFetches[i].search)
  /\ logFetches' = Without(logFetches, i)
  /\ logsCrossed' = (logsCrossed \/ i # 1)
  /\ logLost' = FALSE
  /\ UNCHANGED <<page, actionFilter, search, hasty, turns>>

OnLost(i) ==
  /\ logFetches' = Without(logFetches, i)
  /\ logsCrossed' = (logsCrossed \/ i # 1)
  /\ logLost' = TRUE
  /\ UNCHANGED <<page, actionFilter, search, entries, total, hasty, turns>>

Next ==
  \/ \E f \in Filters : SelectFilter(f)
  \/ \E text \in Searches : TypeSearch(text)
  \/ HandleSearch \/ Previous \/ NextPage
  \/ \E i \in DOMAIN logFetches : OnEntries(i) \/ OnLost(i)

-----------------------------------------------------------------------------
(* Properties                                                              *)

\* When all is answered in order, what is shown is what the page, the filters
\* and the search say, and there is such a page, unless the search was edited
\* or a page was turned before the pages had been counted
\* (AuditLogPage.js:18-47, 71-106, 157-164).
EntriesAreAsAsked ==
  logFetches = << >> /\ ~logsCrossed /\ ~logLost /\ ~hasty =>
    /\ entries = [page |-> page, filter |-> actionFilter, search |-> search]
    /\ page < total

=============================================================================
