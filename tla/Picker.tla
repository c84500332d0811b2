-------------------------------- MODULE Picker ------------------------------
(***************************************************************************)
(* AwsResourceSelect: a field of the form that offers the resources of the *)
(* region of the form.  The list is asked for again when the region        *)
(* changes; the requests are not cancelled, and the value stays.           *)
(***************************************************************************)
EXTENDS Naturals, Sequences, Removal

CONSTANTS
  Regions,
  PerRegion,    \* bound: resources of a region
  MaxFetches    \* bound

VARIABLES
  formRegion,    \* the prop
  multi,         \* the prop; never changes
  picked,        \* value
  items, loadingItems, error, isOpen, manualMode,
  itemFetches,   \* on their way, in the order they were sent
  itemsCrossed,  \* history: answered out of order
  strays,        \* history: entered by hand, picked while a list was on its way, or before the region changed
  fetched

picker == <<formRegion, multi, picked, items, loadingItems, error, isOpen, manualMode, itemFetches, itemsCrossed,
            strays, fetched>>

Item == [in : Regions, no : 1..PerRegion]
Of(r) == {i \in Item : i.in = r}
Fetch == [region : Regions, phase : {"sent", "ok", "refused"}]

TypeOK ==
  /\ formRegion \in Regions /\ multi \in BOOLEAN
  /\ picked \subseteq Item /\ items \subseteq Item
  /\ loadingItems \in BOOLEAN /\ error \in BOOLEAN /\ isOpen \in BOOLEAN /\ manualMode \in BOOLEAN
  /\ itemFetches \in Seq(Fetch)
  /\ itemsCrossed \in BOOLEAN /\ strays \subseteq Item /\ fetched \in 0..MaxFetches

Request(r) == [region |-> r, phase |-> "sent"]

Init ==
  /\ formRegion \in Regions /\ multi \in BOOLEAN
  /\ picked = {} /\ items = {}
  /\ loadingItems = TRUE /\ error = FALSE /\ isOpen = FALSE /\ manualMode = FALSE
  /\ itemFetches = <<Request(formRegion)>>
  /\ itemsCrossed = FALSE /\ strays = {} /\ fetched = 1

\* What the field is rendered as.
AtManual == manualMode \/ (error /\ items = {})
AtSelect == ~AtManual

\* The list that is shown stays until the answer.
FetchItems(r) ==
  /\ fetched < MaxFetches /\ fetched' = fetched + 1
  /\ loadingItems' = TRUE /\ error' = FALSE
  /\ itemFetches' = Append(itemFetches, Request(r))
  /\ UNCHANGED <<multi, picked, items, isOpen, manualMode, itemsCrossed>>

\* The form selects another region: the effect of fetchItems runs.
ChangeRegion(r) ==
  /\ r # formRegion
  /\ formRegion' = r /\ strays' = picked
  /\ FetchItems(r)

\* The refresh button, and the retry button of an error.
Refresh ==
  /\ AtSelect \/ ~manualMode
  /\ FetchItems(formRegion)
  /\ UNCHANGED <<formRegion, strays>>

ServeList(i) ==
  /\ itemFetches[i].phase = "sent"
  /\ \E phase \in {"ok", "refused"} : itemFetches' = [itemFetches EXCEPT ![i].phase = phase]
  /\ UNCHANGED <<formRegion, multi, picked, items, loadingItems, error, isOpen, manualMode, itemsCrossed,
                 strays, fetched>>

\* Any answer ends the loading, that of an earlier request too.
OnItems(i) ==
  /\ itemFetches[i].phase # "sent"
  /\ items' = IF itemFetches[i].phase = "ok" THEN Of(itemFetches[i].region) ELSE {}
  /\ error' = (error \/ itemFetches[i].phase = "refused")
  /\ loadingItems' = FALSE
  /\ itemFetches' = Without(itemFetches, i)
  /\ itemsCrossed' = (itemsCrossed \/ i # 1)
  /\ UNCHANGED <<formRegion, multi, picked, isOpen, manualMode, strays, fetched>>

SetOpen(open) ==
  /\ isOpen' = open
  /\ UNCHANGED <<formRegion, multi, picked, items, loadingItems, error, manualMode, itemFetches, itemsCrossed,
                 strays, fetched>>

ToggleOpen == AtSelect /\ SetOpen(~isOpen)

\* A click elsewhere; the listener is there whatever is rendered.
ClickOutside == isOpen /\ SetOpen(FALSE)

\* A search narrows what is offered.
ToggleItem(i) ==
  /\ AtSelect /\ isOpen /\ i \in items
  /\ IF multi THEN picked' = (IF i \in picked THEN picked \ {i} ELSE picked \cup {i}) /\ UNCHANGED isOpen
              ELSE picked' = {i} /\ isOpen' = FALSE
  /\ strays' = IF itemFetches # << >> THEN strays \cup {i} ELSE strays \ {i}
  /\ UNCHANGED <<formRegion, multi, items, loadingItems, error, manualMode, itemFetches, itemsCrossed, fetched>>

RemoveItem(i) ==
  /\ AtSelect /\ multi /\ i \in picked
  /\ picked' = picked \ {i}
  /\ UNCHANGED <<formRegion, multi, items, loadingItems, error, isOpen, manualMode, itemFetches, itemsCrossed,
                 strays, fetched>>

SetManualMode(manual) ==
  /\ IF manual THEN AtSelect ELSE manualMode
  /\ manualMode' = manual
  /\ UNCHANGED <<formRegion, multi, picked, items, loadingItems, error, isOpen, itemFetches, itemsCrossed, strays,
                 fetched>>

EnterId(i) ==
  /\ AtManual
  /\ picked' = {i} /\ strays' = {i}
  /\ UNCHANGED <<formRegion, multi, items, loadingItems, error, isOpen, manualMode, itemFetches, itemsCrossed, fetched>>

Next ==
  \/ \E r \in Regions : ChangeRegion(r)
  \/ Refresh \/ ToggleOpen \/ ClickOutside
  \/ \E i \in DOMAIN itemFetches : ServeList(i) \/ OnItems(i)
  \/ \E i \in Item : ToggleItem(i) \/ RemoveItem(i) \/ EnterId(i)
  \/ \E manual \in BOOLEAN : SetManualMode(manual)

-----------------------------------------------------------------------------
(* Properties                                                              *)

\* What is offered once every request is answered is of the region of the
\* form, and loading is over, unless the answers came out of order
\* (AwsResourceSelect.js:70-102).
OffersAreOfTheRegion ==
  itemFetches = << >> => ~loadingItems /\ (itemsCrossed \/ items \subseteq Of(formRegion))

\* A resource that is picked from the list, with no list on its way, is of the
\* region until the region changes (AwsResourceSelect.js:203-222, 353-371).
PicksAreOfTheRegion ==
  itemsCrossed \/ picked \ strays \subseteq Of(formRegion)

=============================================================================
