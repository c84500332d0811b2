---------------------------- MODULE ConsoleProofs ---------------------------
(***************************************************************************)
(* What holds of Console for every number of rows, values, regions,        *)
(* resources, repositories, requests and references: the properties of the *)
(* ten pages.                                                              *)
(*                                                                         *)
(* A visit is of one page, so the inductive invariant (IInv) is one of     *)
(* each page, and a step is of the page that is open.  What a page shows   *)
(* is settled by answers that are on their way; so an invariant says of    *)
(* each request what its answer brings, and of the last one that it is of  *)
(* what the page shows now.  A history variable that says an exception has *)
(* happened ends the obligation.                                           *)
(*                                                                         *)
(* The graph's search and layout are recursive functions.  Induction over  *)
(* them is of sets: the calls (of the search), or the numbers of groups    *)
(* (of the layout), of which something holds; a set of numbers that is not *)
(* empty has a least one.                                                  *)
(***************************************************************************)
EXTENDS Console, Removal, FiniteSetTheorems, SequenceTheorems, TLAPS

-----------------------------------------------------------------------------
(* Sequences                                                               *)

\* No null is a status of an answer.
LEMMA Nulls == None \notin {Gone, "sent", "ready", "refused", "success"}
BY NullsAssumption

\* What is left of a sequence keeps its order.
LEMMA WithoutFacts ==
  ASSUME NEW T, NEW s \in Seq(T), NEW i \in DOMAIN s
  PROVE  /\ Without(s, i) \in Seq(T) /\ Len(Without(s, i)) = Len(s) - 1
         /\ \A j \in 1..(Len(s) - 1) : Without(s, i)[j] = IF j < i THEN s[j] ELSE s[j + 1]
<1> DEFINE a == SubSeq(s, 1, i - 1)
           b == SubSeq(s, i + 1, Len(s))
<1>1. i \in 1..Len(s) /\ Len(s) \in Nat
  OBVIOUS
<1>2. /\ \A j \in 1..(i - 1) : s[j] \in T
      /\ \A j \in (i + 1)..Len(s) : s[j] \in T
  BY <1>1
<1>3. /\ a \in Seq(T) /\ Len(a) = i - 1
      /\ \A j \in 1..(i - 1) : a[j] = s[j]
  <2>1. 1 \in Int /\ i - 1 \in Int
    BY <1>1
  <2>2. /\ a \in Seq(T) /\ Len(a) = IF 1 <= i - 1 THEN i - 1 - 1 + 1 ELSE 0
        /\ \A j \in 1..(i - 1 - 1 + 1) : a[j] = s[1 + j - 1]
    BY <1>2, <2>1, SubSeqProperties
  <2>3. QED BY <1>1, <2>2
<1>4. /\ b \in Seq(T) /\ Len(b) = Len(s) - i
      /\ \A j \in 1..(Len(s) - i) : b[j] = s[i + j]
  <2>1. i + 1 \in Int /\ Len(s) \in Int
    BY <1>1
  <2>2. /\ b \in Seq(T) /\ Len(b) = IF i + 1 <= Len(s) THEN Len(s) - (i + 1) + 1 ELSE 0
        /\ \A j \in 1..(Len(s) - (i + 1) + 1) : b[j] = s[i + 1 + j - 1]
    BY <1>2, <2>1, SubSeqProperties
  <2>3. QED BY <1>1, <2>2
<1> HIDE DEF a, b
<1> DEFINE c == a \o b
<1>5. /\ c \in Seq(T) /\ Len(c) = Len(a) + Len(b)
      /\ \A j \in 1..(Len(a) + Len(b)) : c[j] = IF j <= Len(a) THEN a[j] ELSE b[j - Len(a)]
  BY <1>3, <1>4, ConcatProperties
<1> HIDE DEF c
<1>6. Len(c) = Len(s) - 1
  BY <1>1, <1>3, <1>4, <1>5
<1>7. ASSUME NEW j \in 1..(Len(s) - 1) PROVE c[j] = IF j < i THEN s[j] ELSE s[j + 1]
  <2>0. j \in 1..(Len(a) + Len(b)) /\ Len(a) = i - 1
    BY <1>1, <1>3, <1>4
  <2>1. c[j] = IF j <= i - 1 THEN a[j] ELSE b[j - (i - 1)]
    <3>1. c[j] = IF j <= Len(a) THEN a[j] ELSE b[j - Len(a)]
      BY <1>5, <2>0
    <3>2. QED BY <2>0, <3>1
  <2>2. CASE j < i
    BY <1>1, <1>3, <2>1, <2>2
  <2>3. CASE ~(j < i)
    BY <1>1, <1>4, <2>1, <2>3
  <2>4. QED BY <2>2, <2>3
<1>8. QED BY <1>5, <1>6, <1>7 DEF Without, a, b, c

LEMMA OneOrMore == ASSUME NEW n \in Nat \ {0} PROVE n = 1 \/ n > 1
OBVIOUS

\* What a sequence holds, and what it holds beside its element i.
Held(s) == {s[j] : j \in 1..Len(s)}
Beside(s, i) == {s[j] : j \in (1..Len(s)) \ {i}}

\* What a sequence holds as it is extended, cut and overwritten.
LEMMA HeldAfterAppend ==
  ASSUME NEW T, NEW s \in Seq(T), NEW e \in T
  PROVE  /\ Append(s, e) \in Seq(T) /\ Append(s, e) # << >>
         /\ Held(Append(s, e)) = Held(s) \cup {e}
<1> DEFINE t == Append(s, e)
<1>1. /\ Len(s) \in Nat /\ t \in Seq(T) /\ t # << >> /\ Len(t) = Len(s) + 1
      /\ \A j \in 1..Len(s) : t[j] = s[j]
      /\ t[Len(s) + 1] = e
  BY AppendProperties
<1> HIDE DEF t
<1>2. ASSUME NEW j \in 1..Len(t) PROVE t[j] \in Held(s) \cup {e}
  <2>1. j \in 1..Len(s) \/ j = Len(s) + 1
    BY <1>1
  <2>2. QED BY <1>1, <2>1 DEF Held
<1>3. ASSUME NEW j \in 1..Len(s) PROVE s[j] \in Held(t)
  <2>1. j \in 1..Len(t)
    BY <1>1
  <2>2. QED BY <1>1, <2>1 DEF Held
<1>4. e \in Held(t)
  <2>1. Len(s) + 1 \in 1..Len(t)
    BY <1>1
  <2>2. QED BY <1>1, <2>1 DEF Held
<1>5. Held(t) = Held(s) \cup {e}
  <2>1. Held(t) \subseteq Held(s) \cup {e}
    BY <1>2 DEF Held
  <2>2. Held(s) \subseteq Held(t)
    BY <1>3 DEF Held
  <2>3. QED BY <1>4, <2>1, <2>2
<1>6. QED BY <1>1, <1>5 DEF t

LEMMA HeldWithout ==
  ASSUME NEW T, NEW s \in Seq(T), NEW i \in 1..Len(s)
  PROVE  /\ Without(s, i) \in Seq(T) /\ Held(Without(s, i)) = Beside(s, i)
         /\ Held(s) = Beside(s, i) \cup {s[i]}
<1> DEFINE w == Without(s, i)
<1>1. /\ Len(s) \in Nat /\ w \in Seq(T) /\ Len(w) = Len(s) - 1
      /\ \A j \in 1..(Len(s) - 1) : w[j] = IF j < i THEN s[j] ELSE s[j + 1]
  BY WithoutFacts
<1> HIDE DEF w
<1>2. ASSUME NEW j \in 1..Len(w) PROVE w[j] \in Beside(s, i)
  <2>1. j \in 1..(Len(s) - 1) /\ j \in 1..Len(s) /\ j + 1 \in 1..Len(s)
    BY <1>1
  <2>2. (j < i => j # i) /\ (~(j < i) => j + 1 # i)
    BY <1>1
  <2>3. QED BY <1>1, <2>1, <2>2 DEF Beside
<1>3. ASSUME NEW j \in 1..Len(s), j # i PROVE s[j] \in Held(w)
  <2>1. CASE j < i
    <3>1. j \in 1..(Len(s) - 1) /\ j \in 1..Len(w)
      BY <1>1, <2>1
    <3>2. QED BY <1>1, <2>1, <3>1 DEF Held
  <2>2. CASE ~(j < i)
    <3>1. j - 1 \in 1..(Len(s) - 1) /\ j - 1 \in 1..Len(w) /\ ~(j - 1 < i) /\ j - 1 + 1 = j
      BY <1>1, <1>3, <2>2
    <3>2. w[j - 1] = s[j]
      BY <1>1, <3>1
    <3>3. QED BY <3>1, <3>2 DEF Held
  <2>3. QED BY <2>1, <2>2
<1>4. Held(w) = Beside(s, i)
  BY <1>2, <1>3 DEF Held, Beside
<1>5. Held(s) = Beside(s, i) \cup {s[i]}
  BY DEF Held, Beside
<1>6. QED BY <1>1, <1>4, <1>5 DEF w

LEMMA HeldAfterExcept ==
  ASSUME NEW T, NEW s \in Seq(T), NEW i \in 1..Len(s), NEW e \in T
  PROVE  /\ [s EXCEPT ![i] = e] \in Seq(T) /\ Held([s EXCEPT ![i] = e]) = Beside(s, i) \cup {e}
         /\ Len([s EXCEPT ![i] = e]) = Len(s)
         /\ Held(s) = Beside(s, i) \cup {s[i]}
<1> DEFINE t == [s EXCEPT ![i] = e]
<1>1. /\ t \in Seq(T) /\ Len(t) = Len(s)
      /\ \A j \in 1..Len(s) : t[j] = IF j = i THEN e ELSE s[j]
  BY ExceptSeq
<1> HIDE DEF t
<1>2. Held(t) = Beside(s, i) \cup {e}
  BY <1>1 DEF Held, Beside
<1>3. Held(s) = Beside(s, i) \cup {s[i]}
  BY DEF Held, Beside
<1>4. QED BY <1>1, <1>2, <1>3 DEF t

LEMMA HeldOne ==
  ASSUME NEW T, NEW e \in T
  PROVE  <<e>> \in Seq(T) /\ Len(<<e>>) = 1 /\ Held(<<e>>) = {e} /\ <<e>> # << >> /\ <<e>>[1] = e
<1> DEFINE s == <<e>>
<1>1. s \in Seq(T) /\ Len(s) = 1 /\ s[1] = e /\ s # << >>
  OBVIOUS
<1> HIDE DEF s
<1>2. Held(s) = {e}
  BY <1>1 DEF Held
<1>3. QED BY <1>1, <1>2 DEF s

-----------------------------------------------------------------------------
(* The import wizard                                                       *)

\* A scan is answered before the next one starts, and what is shown, or is being
\* imported, is of a scan that was served.
ScansAreInOrder ==
  /\ served <= scans /\ found.no <= served
  /\ scan # None =>
       /\ scan.no = scans /\ found = W!Nothing
       /\ IF scan.phase = "sent" THEN served < scan.no ELSE served = scan.no
       /\ scan.phase # "ok" => scan.items = {}
  /\ import # None =>
       /\ import.of <= served
       /\ import.of <= found.no \/ found.items = {}
       /\ scan # None => import.of < scan.no

Unmanaged(set) == \A i \in set : managed[i] = 0

\* What is listed has no row yet, unless it was imported from this very list.
Listed ==
  /\ \A i \in Items : managed[i] <= 1
  /\ scan # None => Unmanaged(scan.items)
  /\ step = 4 \/ Unmanaged(found.items) \/ (import # None /\ import.phase # "sent" /\ import.of = found.no)
  /\ import # None /\ import.phase = "sent" /\ import.of = served => Unmanaged(import.items)

ListedAreUnmanaged == raced \/ importLost \/ Listed

UnderWay == IF import # None /\ import.phase = "sent" THEN 1 ELSE 0
\* A row is the work of one import; one that is under way is still to make its own.
RowsAreOfImports == \A i \in Items : managed[i] + UnderWay <= imports

ImportInv == W!TypeOK /\ ScansAreInOrder /\ ListedAreUnmanaged /\ RowsAreOfImports

LEMMA BoundsAreNatural ==
  /\ MaxScans \in Nat \ {0} /\ MaxImports \in Nat \ {0}
  /\ Shared \in Items
BY ConstantsAssumption DEF ConstantsAssumption

LEMMA ItemsOfAreItems == ASSUME NEW s \in Scopes PROVE ItemsOf[s] \subseteq Items
BY BoundsAreNatural DEF ItemsOf

LEMMA ImportInit == ASSUME W!Init PROVE ImportInv
<1> USE BoundsAreNatural DEF W!Init, W!Nothing
<1>1. W!TypeOK
  <2>1. managed \in [Items -> 0..MaxImports] /\ found \in [no : 0..MaxScans, items : SUBSET Items]
    OBVIOUS
  <2>2. raced \in BOOLEAN /\ importLost \in BOOLEAN
    OBVIOUS
  <2>3. QED BY <2>1, <2>2 DEF W!TypeOK
<1>2. ScansAreInOrder
  BY DEF ScansAreInOrder
<1>3. Listed /\ RowsAreOfImports
  BY DEF Listed, Unmanaged, RowsAreOfImports, UnderWay
<1>4. QED BY <1>1, <1>2, <1>3 DEF ImportInv, ListedAreUnmanaged

\* The scan that is answered lists resources without a row, or nothing.
LEMMA ScanIsServed ==
  ASSUME ImportInv, W!ImportScanHandler
  PROVE  /\ scan # None /\ scan \in W!Scan /\ scan.phase = "sent"
         /\ scan' \in W!Scan /\ scan'.no = scan.no /\ served' = scan.no
         /\ scan'.phase \in {"ok", "refused"} /\ Unmanaged(scan'.items)
         /\ scan'.phase # "ok" => scan'.items = {}
<1> DEFINE listed == {i \in ItemsOf[scan.scope] : managed[i] = 0}
<1>1. scan # None /\ scan \in W!Scan /\ scan.phase = "sent" /\ served' = scan.no
  BY DEF W!ImportScanHandler, ImportInv, W!TypeOK
<1>2. scan.items = {}
  BY <1>1 DEF ImportInv, ScansAreInOrder
<1>3. listed \in SUBSET Items /\ Unmanaged(listed)
  BY <1>1, ItemsOfAreItems DEF W!Scan, Unmanaged
<1>4. \/ scan' = [scan EXCEPT !.phase = "ok", !.items = listed]
      \/ scan' = [scan EXCEPT !.phase = "refused"]
  BY DEF W!ImportScanHandler
<1> HIDE DEF listed
<1>5. QED BY <1>1, <1>2, <1>3, <1>4 DEF W!Scan, Unmanaged

LEMMA ImportTypes == ASSUME ImportInv, W!Next PROVE W!TypeOK'
<1> USE BoundsAreNatural DEF ImportInv, W!TypeOK, W!Nothing, W!history
<1>1. ASSUME NEW s \in Scopes, W!SelectScope(s) PROVE W!TypeOK'
  BY <1>1 DEF W!SelectScope
<1>2. CASE W!HandleScan
  BY <1>2 DEF W!HandleScan, W!Scan
<1>3. CASE W!ImportScanHandler
  BY <1>3, ScanIsServed DEF W!ImportScanHandler, W!Scan
<1>4. CASE W!OnScan
  BY <1>4 DEF W!OnScan, W!Scan
<1>5. CASE W!OnScanLost
  BY <1>5 DEF W!OnScanLost
<1>6. ASSUME NEW i \in Items, W!ToggleSelect(i) PROVE W!TypeOK'
  BY <1>6 DEF W!ToggleSelect, W!Tick
<1>7. CASE W!SelectAll
  BY <1>7 DEF W!SelectAll, W!Tick
<1>8. CASE W!Back
  BY <1>8 DEF W!Back, W!GoTo
<1>9. CASE W!Configure
  BY <1>9 DEF W!Configure, W!GoTo
<1>10. CASE W!HandleImport
  BY <1>10 DEF W!HandleImport, W!Import
<1>11. CASE W!ImportExecuteHandler
  <2>1. import \in W!Import /\ import' \in W!Import
    BY <1>11 DEF W!ImportExecuteHandler, W!Import
  <2>2. managed' \in [Items -> 0..MaxImports]
    BY <1>11, <2>1 DEF W!ImportExecuteHandler, RowsAreOfImports, UnderWay
  <2>3. QED BY <1>11, <2>1, <2>2 DEF W!ImportExecuteHandler
<1>12. CASE W!OnImport
  BY <1>12 DEF W!OnImport, W!Import
<1>13. CASE W!OnImportLost
  BY <1>13 DEF W!OnImportLost
<1>14. CASE W!ImportMore
  BY <1>14 DEF W!ImportMore
<1>15. QED
  BY <1>1, <1>2, <1>3, <1>4, <1>5, <1>6, <1>7, <1>8, <1>9, <1>10, <1>11, <1>12, <1>13, <1>14 DEF W!Next

\* Each part of the invariant is kept.
LEMMA ScansStayInOrder == ASSUME ImportInv, W!Next PROVE ScansAreInOrder'
<1> USE BoundsAreNatural DEF ImportInv, W!TypeOK, W!Nothing, W!history, W!Scan, W!Import, ScansAreInOrder
<1>1. ASSUME NEW s \in Scopes, W!SelectScope(s) PROVE ScansAreInOrder'
  BY <1>1 DEF W!SelectScope
<1>2. CASE W!HandleScan
  BY <1>2 DEF W!HandleScan
<1>3. CASE W!ImportScanHandler
  BY <1>3, ScanIsServed DEF W!ImportScanHandler
<1>4. CASE W!OnScan
  BY <1>4 DEF W!OnScan
<1>5. CASE W!OnScanLost
  BY <1>5 DEF W!OnScanLost
<1>6. ASSUME NEW i \in Items, W!ToggleSelect(i) PROVE ScansAreInOrder'
  BY <1>6 DEF W!ToggleSelect, W!Tick
<1>7. CASE W!SelectAll
  BY <1>7 DEF W!SelectAll, W!Tick
<1>8. CASE W!Back
  BY <1>8 DEF W!Back, W!GoTo
<1>9. CASE W!Configure
  BY <1>9 DEF W!Configure, W!GoTo
<1>10. CASE W!HandleImport
  BY <1>10 DEF W!HandleImport
<1>11. CASE W!ImportExecuteHandler
  BY <1>11 DEF W!ImportExecuteHandler
<1>12. CASE W!OnImport
  BY <1>12 DEF W!OnImport
<1>13. CASE W!OnImportLost
  BY <1>13 DEF W!OnImportLost
<1>14. CASE W!ImportMore
  <2>1. found' = [found EXCEPT !.items = {}] /\ UNCHANGED <<scan, import, scans, served>>
    BY <1>14 DEF W!ImportMore
  <2>2. found'.no = found.no /\ (scan # None => found' = W!Nothing)
    BY <2>1
  <2>3. QED BY <2>1, <2>2
<1>15. QED
  BY <1>1, <1>2, <1>3, <1>4, <1>5, <1>6, <1>7, <1>8, <1>9, <1>10, <1>11, <1>12, <1>13, <1>14 DEF W!Next

LEMMA RowsStayOfImports == ASSUME ImportInv, W!Next PROVE RowsAreOfImports'
<1> USE BoundsAreNatural DEF ImportInv, W!TypeOK, W!Nothing, W!history, W!Scan, W!Import, RowsAreOfImports, UnderWay
<1>1. ASSUME NEW s \in Scopes, W!SelectScope(s) PROVE RowsAreOfImports'
  BY <1>1 DEF W!SelectScope
<1>2. CASE W!HandleScan
  BY <1>2 DEF W!HandleScan
<1>3. CASE W!ImportScanHandler
  BY <1>3, ScanIsServed DEF W!ImportScanHandler
<1>4. CASE W!OnScan
  BY <1>4 DEF W!OnScan
<1>5. CASE W!OnScanLost
  BY <1>5 DEF W!OnScanLost
<1>6. ASSUME NEW i \in Items, W!ToggleSelect(i) PROVE RowsAreOfImports'
  BY <1>6 DEF W!ToggleSelect, W!Tick
<1>7. CASE W!SelectAll
  BY <1>7 DEF W!SelectAll, W!Tick
<1>8. CASE W!Back
  BY <1>8 DEF W!Back, W!GoTo
<1>9. CASE W!Configure
  BY <1>9 DEF W!Configure, W!GoTo
<1>10. CASE W!HandleImport
  BY <1>10 DEF W!HandleImport
<1>11. CASE W!ImportExecuteHandler
  BY <1>11 DEF W!ImportExecuteHandler
<1>12. CASE W!OnImport
  BY <1>12 DEF W!OnImport
<1>13. CASE W!OnImportLost
  BY <1>13 DEF W!OnImportLost
<1>14. CASE W!ImportMore
  BY <1>14 DEF W!ImportMore
<1>15. QED
  BY <1>1, <1>2, <1>3, <1>4, <1>5, <1>6, <1>7, <1>8, <1>9, <1>10, <1>11, <1>12, <1>13, <1>14 DEF W!Next

LEMMA ListedStayUnmanaged == ASSUME ImportInv, W!Next PROVE ListedAreUnmanaged'
<1> USE BoundsAreNatural DEF ImportInv, W!TypeOK, W!Nothing, W!history, W!Scan, W!Import, ScansAreInOrder, ListedAreUnmanaged, Listed, Unmanaged
<1>1. ASSUME NEW s \in Scopes, W!SelectScope(s) PROVE ListedAreUnmanaged'
  BY <1>1 DEF W!SelectScope
<1>2. CASE W!HandleScan
  BY <1>2 DEF W!HandleScan
<1>3. CASE W!ImportScanHandler
  BY <1>3, ScanIsServed DEF W!ImportScanHandler
<1>4. CASE W!OnScan
  BY <1>4 DEF W!OnScan
<1>5. CASE W!OnScanLost
  BY <1>5 DEF W!OnScanLost
<1>6. ASSUME NEW i \in Items, W!ToggleSelect(i) PROVE ListedAreUnmanaged'
  BY <1>6 DEF W!ToggleSelect, W!Tick
<1>7. CASE W!SelectAll
  BY <1>7 DEF W!SelectAll, W!Tick
<1>8. CASE W!Back
  BY <1>8 DEF W!Back, W!GoTo
<1>9. CASE W!Configure
  BY <1>9 DEF W!Configure, W!GoTo
<1>10. CASE W!HandleImport
  BY <1>10 DEF W!HandleImport
<1>11. CASE W!ImportExecuteHandler
  <2>1. /\ import # None /\ import \in W!Import /\ import.phase = "sent" /\ import' # None
        /\ import'.of = import.of /\ import'.items = import.items /\ import'.phase # "sent"
    BY <1>11, NullsAssumption DEF W!ImportExecuteHandler
  <2>2. CASE \E inserted \in SUBSET import.items :
               /\ managed' = [i \in Items |-> IF i \in inserted THEN managed[i] + 1 ELSE managed[i]]
               /\ raced' = (raced \/ served > import.of)
    <3>1. SUFFICES ASSUME ~raced, ~importLost, served <= import.of PROVE Listed'
      <4>1. served > import.of => raced'
        BY <2>2
      <4>2. raced => raced'
        BY <2>2
      <4>3. importLost' = importLost
        BY <1>11 DEF W!ImportExecuteHandler
      <4>4. served \in Nat /\ import.of \in Nat
        BY <2>1
      <4>5. QED BY <4>1, <4>2, <4>3, <4>4
    <3>2. PICK inserted \in SUBSET import.items :
                 managed' = [i \in Items |-> IF i \in inserted THEN managed[i] + 1 ELSE managed[i]]
      BY <2>2
    <3>3. served = import.of /\ Unmanaged(import.items) /\ \A i \in Items : managed[i] <= 1
      BY <2>1, <3>1
    <3>4. \A i \in Items : managed'[i] <= 1
      BY <3>2, <3>3, <2>1
    <3>5. scan # None => scan.items = {}
      BY <2>1, <3>3
    <3>6. found.items = {} \/ import.of = found.no
      BY <2>1, <3>3
    <3>7. UNCHANGED <<scan, found>>
      BY <1>11 DEF W!ImportExecuteHandler
    <3>8. QED BY <2>1, <3>4, <3>5, <3>6, <3>7
  <2>3. CASE UNCHANGED <<managed, raced>>
    BY <1>11, <2>1, <2>3 DEF W!ImportExecuteHandler
  <2>4. QED BY <1>11, <2>2, <2>3 DEF W!ImportExecuteHandler
<1>12. CASE W!OnImport
  BY <1>12 DEF W!OnImport
<1>13. CASE W!OnImportLost
  BY <1>13 DEF W!OnImportLost
<1>14. CASE W!ImportMore
  BY <1>14 DEF W!ImportMore
<1>15. QED
  BY <1>1, <1>2, <1>3, <1>4, <1>5, <1>6, <1>7, <1>8, <1>9, <1>10, <1>11, <1>12, <1>13, <1>14 DEF W!Next

\* The invariant is kept, by the steps of the wizard and by those of other pages, and
\* is what the properties need.
LEMMA ImportStep == ASSUME ImportInv, W!Next PROVE ImportInv'
BY ImportTypes, ScansStayInOrder, RowsStayOfImports, ListedStayUnmanaged DEF ImportInv

LEMMA ImportStutter == ASSUME ImportInv, UNCHANGED wizard PROVE ImportInv'
BY DEF ImportInv, W!TypeOK, ScansAreInOrder, ListedAreUnmanaged, Listed, Unmanaged, RowsAreOfImports,
       UnderWay, wizard, W!Nothing

LEMMA ImportSafe == ASSUME ImportInv PROVE W!TypeOK /\ W!ImportedOnce
BY DEF ImportInv, ListedAreUnmanaged, Listed, W!ImportedOnce

-----------------------------------------------------------------------------
(* The lists                                                               *)

Lines == [Ids -> L!Row \cup {None}]
Read == [filter : L!Filters, list : Lines \cup {None}]

\* What is listed there was in the table at some time.
WasThere(list) == \A i \in Ids : list[i] # None => rows[i] # None

\* The deletion of a user: the page takes the row out by itself.
Drops(c) == at = "users" /\ c.op = "delete"

\* What a change can be: a user is deleted who was shown, and is gone once that is done.
CallFits(c) ==
  /\ at = "users" => c.op \in {"create", "delete"}
  /\ c.op # "create" => c.id \in Ids
  /\ Drops(c) => rows[c.id] # None /\ (c.phase = "ok" => rows[c.id] = Gone)
  /\ c.op = "update" => c.of = c.id

\* No list holds a row that was never there, and the form is of the row it edits.
RowsAreKnown ==
  /\ WasThere(shown)
  /\ \A r \in Held(reads) : r.list # None => WasThere(r.list)
  /\ \A c \in calls : CallFits(c)
  /\ form.editing # None => form.of = form.editing

\* A list is that of the server, but for the changes that were made and not
\* heard of; a row that is yet to be taken out is its own exception.
Answers(list) ==
  \/ \E c \in calls : c.phase = "ok" /\ ~Drops(c)
  \/ \A i \in Ids : \/ list[i] = L!View(statusFilter)[i]
                    \/ \E c \in calls : c.phase = "ok" /\ Drops(c) /\ c.id = i

\* The list that was asked for last is of the filter that is set, and will be right.
LastAnswers ==
  overtaken \/ missed \/
    IF reads = << >> THEN Answers(shown)
    ELSE LET r == reads[Len(reads)] IN r.filter = statusFilter /\ (r.list # None => Answers(r.list))

ListsInv ==
  /\ L!TypeOK /\ reads \in Seq(Read)
  /\ IF at \in L!Sections THEN RowsAreKnown /\ LastAnswers ELSE calls = {} /\ form.editing = None

LEMMA PressesAreBounded == MaxPresses \in Nat \ {0}
BY ConstantsAssumption DEF ConstantsAssumption

LEMMA RowsAreNotNull == None # Gone /\ \A row \in L!Row : row # None
BY NullsAssumption

LEMMA ReadsAreTyped ==
  ASSUME NEW s \in Seq(Read)
  PROVE  \A i \in DOMAIN s :
           s[i] \in [filter : L!Filters, list : [Ids -> L!Row \cup {None}] \cup {None}]
<1>1. DOMAIN s = 1..Len(s)
  OBVIOUS
<1>2. \A i \in 1..Len(s) : s[i] \in Read
  OBVIOUS
<1>3. QED BY <1>1, <1>2 DEF Read, Lines

\* The invariant holds as a list is opened.
LEMMA ListsInit == ASSUME L!Init PROVE ListsInv
<1> DEFINE r == [filter |-> "pending", list |-> None]
<1>1. r \in Read
  BY DEF Read, L!Filters, L!Statuses
<1>2. reads = <<r>>
  BY DEF L!Init
<1>3. r.filter = "pending" /\ r.list = None
  OBVIOUS
<1> HIDE DEF r
<1>4. reads \in Seq(Read) /\ Len(reads) = 1 /\ Held(reads) = {r} /\ reads # << >> /\ reads[1] = r
  BY <1>1, <1>2, HeldOne
<1>5. L!TypeOK
  <2>1. {"pending"} \in L!Row /\ {"default"} \in L!Row /\ {"active"} \in L!Row /\ {} \in L!Row
    BY DEF L!Row, L!Statuses
  <2>2. rows \in L!Table
    BY <2>1 DEF L!Init, L!Table
  <2>3. form \in L!Form
    BY <2>1 DEF L!Init, L!ClosedForm, L!Form
  <2>4. presses \in 0..MaxPresses
    BY PressesAreBounded DEF L!Init
  <2>5. shown \in [Ids -> L!Row \cup {None}] /\ statusFilter \in L!Filters /\ busy \in Ids \cup {None} /\ calls \subseteq L!Call
    BY DEF L!Init, L!Filters, L!Statuses
  <2>6. \A i \in DOMAIN reads : reads[i] \in [filter : L!Filters, list : [Ids -> L!Row \cup {None}] \cup {None}]
    BY <1>4, ReadsAreTyped
  <2>7. overtaken \in BOOLEAN /\ missed \in BOOLEAN
    BY DEF L!Init
  <2>8. QED BY <2>2, <2>3, <2>4, <2>5, <2>6, <2>7 DEF L!TypeOK
<1>6. RowsAreKnown
  BY <1>3, <1>4 DEF L!Init, L!ClosedForm, RowsAreKnown, WasThere
<1>7. LastAnswers
  BY <1>3, <1>4 DEF L!Init, LastAnswers
<1>8. calls = {} /\ form.editing = None
  BY DEF L!Init, L!ClosedForm
<1>9. QED BY <1>4, <1>5, <1>6, <1>7, <1>8 DEF ListsInv

\* A request for a change is sent.
SendsCall(c) ==
  /\ calls' = calls \cup {c} /\ c \in L!Call /\ c.phase = "sent"
  /\ at = "users" => c.op \in {"create", "delete"}
  /\ c.op # "create" => c.id \in Ids
  /\ Drops(c) => shown[c.id] # None
  /\ c.op = "update" => c.of = c.id
  /\ busy' \in Ids \cup {None} /\ presses' \in 0..MaxPresses
  /\ UNCHANGED <<rows, shown, statusFilter, form, reads, overtaken, missed>>

\* The actions that send a change.
SendActions ==
  \/ \E i \in Ids, op \in {"approve", "reject"} : L!Review(op, i)
  \/ L!SavePolicy \/ L!CreateBudget \/ L!GenerateKey \/ L!ConnectAccount \/ L!CreateUser
  \/ \E i \in Ids : \/ L!TogglePolicy(i) \/ L!DeletePolicy(i) \/ L!DeleteBudget(i) \/ L!RevokeKey(i)
                    \/ L!VerifyAccount(i) \/ L!SetDefault(i) \/ L!RemoveAccount(i) \/ L!DeleteUser(i)

LEMMA SendIsOfACall ==
  ASSUME L!TypeOK, NEW op \in L!Ops, NEW id \in Ids \cup {None}, NEW of \in Ids \cup {None},
         NEW row \in L!Row, L!Send(op, id, of, row), UNCHANGED form, busy' \in Ids \cup {None},
         at = "users" => op \in {"create", "delete"},
         op # "create" => id \in Ids,
         at = "users" /\ op = "delete" => shown[id] # None,
         op = "update" => of = id
  PROVE  \E c : SendsCall(c)
<1> DEFINE c == [n |-> presses + 1, op |-> op, id |-> id, of |-> of, row |-> row,
                 filter |-> statusFilter, phase |-> "sent"]
<1>1. presses + 1 \in 1..MaxPresses /\ presses' = presses + 1
  BY PressesAreBounded DEF L!TypeOK, L!Send, L!Press
<1>2. c \in L!Call
  BY <1>1 DEF L!TypeOK, L!Call
<1>3. calls' = calls \cup {c} /\ UNCHANGED <<rows, shown, statusFilter, reads, overtaken, missed>>
  BY DEF L!Send
<1>4. c.phase = "sent" /\ c.op = op /\ c.id = id /\ c.of = of
  OBVIOUS
<1> HIDE DEF c
<1>5. presses' \in 0..MaxPresses
  BY <1>1
<1>6. SendsCall(c)
  BY <1>2, <1>3, <1>4, <1>5 DEF SendsCall, Drops
<1>7. QED BY <1>6

LEMMA SendActionsSend ==
  ASSUME ListsInv, at \in L!Sections, SendActions PROVE \E c : SendsCall(c)
<1>0. /\ L!TypeOK /\ shown \in [Ids -> L!Row \cup {None}] /\ busy \in Ids \cup {None}
      /\ form \in L!Form /\ (form.editing # None => form.of = form.editing)
      /\ {} \in L!Row /\ {"active"} \in L!Row
  BY DEF ListsInv, L!TypeOK, RowsAreKnown, L!Row
<1> USE DEF L!Ops
<1>1. ASSUME NEW i \in Ids, NEW op \in {"approve", "reject", "delete", "default"}, NEW section \in L!Sections,
             section = "users" => op = "delete", L!SendOf(section, op, i)
      PROVE  \E c : SendsCall(c)
  BY <1>0, <1>1, SendIsOfACall DEF L!SendOf
<1>2. ASSUME NEW i \in Ids, NEW op \in {"approve", "reject"}, L!Review(op, i) PROVE \E c : SendsCall(c)
  BY <1>1, <1>2 DEF L!Review, L!Sections
<1>3. ASSUME NEW i \in Ids,
             L!DeletePolicy(i) \/ L!DeleteBudget(i) \/ L!RevokeKey(i) \/ L!SetDefault(i) \/ L!RemoveAccount(i) \/ L!DeleteUser(i)
      PROVE  \E c : SendsCall(c)
  BY <1>1, <1>3
  DEF L!DeletePolicy, L!DeleteBudget, L!RevokeKey, L!SetDefault, L!RemoveAccount, L!DeleteUser, L!Sections
<1>4. CASE L!CreateBudget \/ L!GenerateKey \/ L!ConnectAccount \/ L!CreateUser
  <2>1. \E row \in L!Row : L!Send("create", None, None, row) /\ UNCHANGED <<form, busy>>
    BY <1>0, <1>4 DEF L!CreateBudget, L!GenerateKey, L!ConnectAccount, L!CreateUser
  <2>2. QED BY <1>0, <2>1, SendIsOfACall
<1>5. CASE L!SavePolicy
  <2>1. /\ form.editing \in Ids \cup {None} /\ form.of \in Ids \cup {None} /\ form.row \in L!Row
    BY <1>0 DEF L!Form
  <2>2. CASE form.editing = None
    <3>1. L!Send("create", form.editing, form.of, form.row) /\ UNCHANGED <<form, busy>>
      BY <1>5, <2>2 DEF L!SavePolicy
    <3>2. QED BY <1>0, <2>1, <3>1, SendIsOfACall
  <2>3. CASE form.editing # None
    <3>1. L!Send("update", form.editing, form.of, form.row) /\ UNCHANGED <<form, busy>> /\ at = "policies"
      BY <1>5, <2>3 DEF L!SavePolicy
    <3>2. QED BY <1>0, <2>1, <2>3, <3>1, SendIsOfACall
  <2>4. QED BY <2>2, <2>3
<1>6. ASSUME NEW i \in Ids, L!TogglePolicy(i) PROVE \E c : SendsCall(c)
  <2>1. /\ at = "policies" /\ UNCHANGED <<form, busy>>
        /\ \E row \in L!Row : L!Send("toggle", i, i, row)
    BY <1>0, <1>6 DEF L!TogglePolicy
  <2>2. QED BY <1>0, <2>1, SendIsOfACall
<1>7. ASSUME NEW i \in Ids, L!VerifyAccount(i) PROVE \E c : SendsCall(c)
  <2>1. /\ at = "accounts" /\ UNCHANGED form /\ busy' \in Ids \cup {None}
        /\ L!Send("verify", i, None, {})
    BY <1>0, <1>7 DEF L!VerifyAccount
  <2>2. QED BY <1>0, <2>1, SendIsOfACall
<1>8. QED BY <1>2, <1>3, <1>4, <1>5, <1>6, <1>7 DEF SendActions

\* What no change does to the rows: none is forgotten, and none comes back.
RowsGoOn(t, u) == \A i \in Ids : (t[i] # None => u[i] # None) /\ (t[i] = Gone => u[i] = Gone)

LEMMA PutRow ==
  ASSUME rows \in L!Table, NEW i, NEW row \in L!Row \cup {Gone}
  PROVE  /\ L!Put(i, row) \in L!Table /\ RowsGoOn(rows, L!Put(i, row))
         /\ \A j \in Ids : j # i => L!Put(i, row)[j] = rows[j]
         /\ i \in Ids /\ row = Gone /\ rows[i] # None => L!Put(i, row)[i] = Gone
<1>1. CASE L!There(rows, i)
  <2>1. L!Put(i, row) = [rows EXCEPT ![i] = row]
    BY <1>1 DEF L!Put
  <2>2. row # None
    BY RowsAreNotNull
  <2>3. QED BY <1>1, <2>1, <2>2 DEF L!Table, L!There, RowsGoOn
<1>2. CASE ~L!There(rows, i)
  <2>1. L!Put(i, row) = rows
    BY <1>2 DEF L!Put
  <2>2. QED BY <1>2, <2>1 DEF RowsGoOn, L!There
<1>3. QED BY <1>1, <1>2

\* What the server does to its table on a change it accepts.
LEMMA RowsAfterEffect ==
  ASSUME L!TypeOK, NEW c \in L!Call, CallFits(c), L!Accepts(c)
  PROVE  /\ L!Effect(c) \in L!Table /\ RowsGoOn(rows, L!Effect(c))
         /\ Drops(c) => /\ L!Effect(c)[c.id] = Gone
                        /\ \A i \in Ids : i # c.id => L!Effect(c)[i] = rows[i]
<1> DEFINE e == L!Effect(c)
<1>1. rows \in L!Table /\ c.op \in L!Ops /\ c.row \in L!Row
  BY DEF L!TypeOK, L!Call
<1>2. /\ {"approved"} \in L!Row /\ {"rejected"} \in L!Row /\ {} \in L!Row /\ {"default"} \in L!Row /\ {"active"} \in L!Row
      /\ \A row \in L!Row : row \cup {"default"} \in L!Row /\ row \ {"default"} \in L!Row /\ row \cup {"verified"} \in L!Row
  BY DEF L!Row, L!Statuses
<1>3. CASE c.op \in {"approve", "reject", "update", "toggle", "delete"}
  <2>1. PICK row \in L!Row \cup {Gone} : e = L!Put(c.id, row) /\ (Drops(c) => row = Gone)
    BY <1>1, <1>2, <1>3 DEF L!Effect, Drops
  <2> HIDE DEF e
  <2>2. Drops(c) => c.id \in Ids /\ rows[c.id] # None
    BY DEF CallFits, Drops
  <2>3. e \in L!Table /\ RowsGoOn(rows, e) /\ (\A j \in Ids : j # c.id => e[j] = rows[j])
    BY <1>1, <2>1, PutRow
  <2>4. Drops(c) => e[c.id] = Gone
    BY <1>1, <2>1, <2>2, PutRow
  <2>5. QED BY <2>3, <2>4 DEF e
<1>4. CASE c.op = "create"
  <2>1. L!New \in L!Row
    BY <1>2 DEF L!New
  <2> DEFINE k == CHOOSE i \in Ids : rows[i] = None
  <2>2. k \in Ids /\ rows[k] = None
    BY <1>4 DEF L!Accepts
  <2>3. e = [rows EXCEPT ![k] = L!New]
    BY <1>4 DEF L!Effect
  <2> HIDE DEF k, e
  <2>4. e \in L!Table /\ RowsGoOn(rows, e)
    BY <1>1, <2>1, <2>2, <2>3, RowsAreNotNull DEF L!Table, RowsGoOn
  <2>5. ~Drops(c)
    BY <1>4 DEF Drops
  <2>6. QED BY <2>4, <2>5 DEF e
<1>5. CASE c.op = "default"
  <2>1. e = [i \in Ids |-> IF ~L!There(rows, i) THEN rows[i]
                           ELSE IF i = c.id THEN rows[i] \cup {"default"} ELSE rows[i] \ {"default"}]
    BY <1>5 DEF L!Effect
  <2> HIDE DEF e
  <2>2. ASSUME NEW i \in Ids
        PROVE  /\ e[i] \in L!Row \cup {None, Gone} /\ (rows[i] # None => e[i] # None)
               /\ (rows[i] = Gone => e[i] = Gone)
    <3>1. CASE ~L!There(rows, i)
      <4>1. e[i] = rows[i]
        BY <2>1, <3>1
      <4>2. QED BY <1>1, <4>1 DEF L!Table
    <3>2. CASE L!There(rows, i)
      <4>1. rows[i] \in L!Row /\ rows[i] # Gone
        BY <1>1, <3>2 DEF L!Table, L!There
      <4>2. e[i] = rows[i] \cup {"default"} \/ e[i] = rows[i] \ {"default"}
        BY <2>1, <3>2
      <4>3. e[i] \in L!Row
        BY <1>2, <4>1, <4>2
      <4>4. QED BY <4>1, <4>3, RowsAreNotNull
    <3>3. QED BY <3>1, <3>2
  <2>3. e \in L!Table
    <3>1. DOMAIN e = Ids /\ e = [i \in Ids |-> e[i]]
      BY <2>1
    <3>2. QED BY <2>2, <3>1 DEF L!Table
  <2>4. RowsGoOn(rows, e)
    BY <2>2 DEF RowsGoOn
  <2>5. ~Drops(c)
    BY <1>5 DEF Drops
  <2>6. QED BY <2>3, <2>4, <2>5 DEF e
<1>6. CASE c.op = "verify"
  <2>1. e = [rows EXCEPT ![c.id] = rows[c.id] \cup {"verified"}]
    BY <1>6 DEF L!Effect
  <2>2. c.id \in Ids /\ L!There(rows, c.id)
    BY <1>6 DEF L!Accepts, CallFits
  <2>3. rows[c.id] \in L!Row /\ rows[c.id] # Gone
    BY <1>1, <2>2 DEF L!Table, L!There
  <2> DEFINE row == rows[c.id] \cup {"verified"}
  <2>4. row \in L!Row /\ row # None
    BY <1>2, <2>3, RowsAreNotNull
  <2>5. e = [rows EXCEPT ![c.id] = row]
    BY <2>1
  <2> HIDE DEF e, row
  <2>6. e \in L!Table /\ RowsGoOn(rows, e)
    BY <1>1, <2>2, <2>3, <2>4, <2>5 DEF L!Table, RowsGoOn
  <2>7. ~Drops(c)
    BY <1>6 DEF Drops
  <2>8. QED BY <2>6, <2>7 DEF e
<1>7. QED BY <1>1, <1>3, <1>4, <1>5, <1>6 DEF L!Ops

LEMMA ViewIsOfTheTable ==
  ASSUME rows \in L!Table, NEW f
  PROVE  /\ L!View(f) \in Lines /\ WasThere(L!View(f))
         /\ \A i \in Ids : rows[i] = Gone => L!View(f)[i] = None
BY DEF L!View, L!There, L!Table, Lines, WasThere

LEMMA CallSent ==
  ASSUME ListsInv, at \in L!Sections, at' = at, NEW c, SendsCall(c)
  PROVE  ListsInv'
<1>1. L!TypeOK /\ reads \in Seq(Read) /\ RowsAreKnown /\ LastAnswers
  BY DEF ListsInv
<1>2. L!TypeOK'
  BY <1>1 DEF L!TypeOK, SendsCall
<1>3. reads' \in Seq(Read)
  BY <1>1 DEF SendsCall
<1>4. RowsAreKnown'
  <2>1. CallFits(c)
    <3>1. c.phase # "ok"
      BY DEF SendsCall
    <3>2. Drops(c) => c.id \in Ids /\ rows[c.id] # None
      BY <1>1 DEF SendsCall, RowsAreKnown, WasThere, Drops
    <3>3. QED BY <3>1, <3>2 DEF CallFits, SendsCall
  <2>2. \A d \in calls' : CallFits(d)
    BY <1>1, <2>1 DEF SendsCall, RowsAreKnown
  <2>3. \A d \in calls' : CallFits(d)'
    BY <2>2 DEF CallFits, Drops, SendsCall
  <2>4. QED BY <1>1, <2>3 DEF RowsAreKnown, WasThere, Held, SendsCall
<1>5. ASSUME NEW list, Answers(list) PROVE Answers(list)'
  <2>1. L!View(statusFilter)' = L!View(statusFilter)
    BY DEF L!View, L!There, SendsCall
  <2>2. calls \subseteq calls'
    BY DEF SendsCall
  <2>3. QED BY <1>5, <2>1, <2>2 DEF Answers, Drops
<1>6. LastAnswers'
  <2>1. UNCHANGED <<reads, shown, overtaken, missed, statusFilter>>
    BY DEF SendsCall
  <2>2. QED BY <1>1, <1>5, <2>1 DEF LastAnswers, Answers
<1>7. QED BY <1>2, <1>3, <1>4, <1>6 DEF ListsInv

\* The server does a change, or refuses it: the lists on their way may be old now, but the
\* answer is under way too.
LEMMA CallServed ==
  ASSUME ListsInv, at \in L!Sections, at' = at, NEW c \in calls, L!Serve(c)
  PROVE  ListsInv'
<1>1. L!TypeOK /\ reads \in Seq(Read) /\ RowsAreKnown /\ LastAnswers
  BY DEF ListsInv
<1>2. /\ c \in L!Call /\ CallFits(c) /\ c.phase = "sent" /\ rows \in L!Table /\ calls \subseteq L!Call
      /\ UNCHANGED <<reads, shown, statusFilter, form, busy, overtaken, missed, presses>>
  BY <1>1 DEF L!TypeOK, RowsAreKnown, L!Serve, L!history
<1> DEFINE d == [c EXCEPT !.phase = "ok"]
           e == [c EXCEPT !.phase = "refused"]
<1>3. /\ d \in L!Call /\ d.op = c.op /\ d.id = c.id /\ d.of = c.of /\ d.phase = "ok"
      /\ e \in L!Call /\ e.op = c.op /\ e.id = c.id /\ e.of = c.of /\ e.phase = "refused"
  BY <1>2 DEF L!Call
<1>4. \/ L!Accepts(c) /\ rows' = L!Effect(c) /\ calls' = (calls \ {c}) \cup {d}
      \/ rows' = rows /\ calls' = (calls \ {c}) \cup {e}
  BY DEF L!Serve
<1> HIDE DEF d, e
<1>5. /\ rows' \in L!Table /\ RowsGoOn(rows, rows')
      /\ Drops(c) /\ d \in calls' => /\ rows'[c.id] = Gone
                                     /\ \A i \in Ids : i # c.id => rows'[i] = rows[i]
  <2>1. CASE L!Accepts(c) /\ rows' = L!Effect(c)
    BY <1>1, <1>2, <2>1, RowsAfterEffect
  <2>2. CASE rows' = rows /\ calls' = (calls \ {c}) \cup {e}
    <3>1. d \notin calls' \/ d \in calls
      BY <1>3, <2>2
    <3>2. d \in calls /\ Drops(c) => Drops(d) /\ rows[d.id] = Gone
      BY <1>1, <1>3 DEF RowsAreKnown, CallFits, Drops
    <3>3. QED BY <1>2, <1>3, <2>2, <3>1, <3>2 DEF RowsGoOn
  <2>3. QED BY <1>4, <2>1, <2>2
<1>6. L!TypeOK'
  <2>1. calls' \subseteq L!Call
    BY <1>2, <1>3, <1>4
  <2>2. QED BY <1>1, <1>2, <1>5, <2>1 DEF L!TypeOK
<1>7. RowsAreKnown'
  <2>1. ASSUME NEW list, WasThere(list) PROVE WasThere(list)'
    BY <1>5, <2>1 DEF WasThere, RowsGoOn
  <2>2. ASSUME NEW x \in calls' PROVE CallFits(x)'
    <3>1. CASE x \in calls
      <4>1. CallFits(x)
        BY <1>1, <3>1 DEF RowsAreKnown
      <4>2. x.id \in Ids => (rows[x.id] # None => rows'[x.id] # None) /\ (rows[x.id] = Gone => rows'[x.id] = Gone)
        BY <1>5 DEF RowsGoOn
      <4>3. Drops(x) => x.id \in Ids
        BY <4>1 DEF CallFits, Drops
      <4>4. QED BY <4>1, <4>2, <4>3 DEF CallFits, Drops
    <3>2. CASE x = e
      <4>1. Drops(c) => c.id \in Ids /\ rows[c.id] # None
        BY <1>2 DEF CallFits, Drops
      <4>2. Drops(c) => rows'[c.id] # None
        BY <1>5, <4>1 DEF RowsGoOn
      <4>3. QED BY <1>2, <1>3, <3>2, <4>2 DEF CallFits, Drops
    <3>3. CASE x = d
      <4>1. Drops(c) => rows'[c.id] # None /\ rows'[c.id] = Gone
        BY <1>5, <3>3, RowsAreNotNull
      <4>2. QED BY <1>2, <1>3, <3>3, <4>1 DEF CallFits, Drops
    <3>4. QED BY <1>4, <3>1, <3>2, <3>3
  <2>3. WasThere(shown)'
    <3>1. WasThere(shown)
      BY <1>1 DEF RowsAreKnown
    <3>2. QED BY <1>2, <2>1, <3>1 DEF WasThere
  <2>4. \A r \in Held(reads') : r.list # None => WasThere(r.list)'
    BY <1>1, <1>2, <2>1 DEF RowsAreKnown
  <2>5. form'.editing # None => form'.of = form'.editing
    BY <1>1, <1>2 DEF RowsAreKnown
  <2>6. QED BY <1>2, <2>2, <2>3, <2>4, <2>5 DEF RowsAreKnown, WasThere, Held
<1>8. ASSUME NEW list, Answers(list) PROVE Answers(list)'
  <2>1. \A b \in calls : b.phase = "ok" => b \in calls'
    BY <1>2, <1>4
  <2>2. CASE \E b \in calls : b.phase = "ok" /\ ~Drops(b)
    BY <2>1, <2>2 DEF Answers, Drops
  <2>3. CASE /\ \A i \in Ids : \/ list[i] = L!View(statusFilter)[i]
                               \/ \E b \in calls : b.phase = "ok" /\ Drops(b) /\ b.id = i
             /\ d \in calls' /\ ~Drops(c)
    BY <1>3, <2>3 DEF Answers, Drops
  <2>4. CASE /\ \A i \in Ids : \/ list[i] = L!View(statusFilter)[i]
                               \/ \E b \in calls : b.phase = "ok" /\ Drops(b) /\ b.id = i
             /\ d \in calls' => Drops(c)
    <3>1. ASSUME NEW i \in Ids
          PROVE  \/ list[i] = L!View(statusFilter)'[i]
                 \/ \E b \in calls' : b.phase = "ok" /\ Drops(b) /\ b.id = i
      <4>1. CASE \E b \in calls : b.phase = "ok" /\ Drops(b) /\ b.id = i
        BY <2>1, <4>1
      <4>2. CASE d \in calls' /\ i = c.id
        BY <1>3, <2>4, <4>2 DEF Drops
      <4>3. CASE list[i] = L!View(statusFilter)[i] /\ ~(d \in calls' /\ i = c.id)
        <5>1. rows'[i] = rows[i]
          BY <1>4, <1>5, <2>4, <4>3
        <5>2. L!View(statusFilter)'[i] = L!View(statusFilter)[i]
          BY <1>2, <5>1 DEF L!View, L!There
        <5>3. QED BY <4>3, <5>2
      <4>4. QED BY <2>4, <4>1, <4>2, <4>3
    <3>2. \A i \in Ids : \/ list[i] = L!View(statusFilter)'[i]
                         \/ \E b \in calls' : b.phase = "ok" /\ Drops(b)' /\ b.id = i
      BY <3>1 DEF Drops
    <3>3. QED BY <3>2 DEF Answers
  <2>5. QED BY <1>8, <2>2, <2>3, <2>4 DEF Answers
<1>9. LastAnswers'
  BY <1>1, <1>2, <1>8 DEF LastAnswers, Answers
<1>10. QED BY <1>1, <1>2, <1>6, <1>7, <1>9 DEF ListsInv

\* The server answers with its list, which is right if it was asked for last.
LEMMA ListServed ==
  ASSUME ListsInv, at \in L!Sections, at' = at, NEW i \in DOMAIN reads, L!ServeRead(i)
  PROVE  ListsInv'
<1>1. L!TypeOK /\ reads \in Seq(Read) /\ RowsAreKnown /\ LastAnswers /\ rows \in L!Table
  BY DEF ListsInv, L!TypeOK
<1> DEFINE q == [filter |-> reads[i].filter, list |-> L!View(reads[i].filter)]
           next == [reads EXCEPT ![i] = q]
<1>2. i \in 1..Len(reads) /\ reads[i] \in Read
  BY <1>1
<1>3. q \in Read
  BY <1>1, <1>2, ViewIsOfTheTable DEF Read
<1>4. q.filter = reads[i].filter /\ q.list = L!View(reads[i].filter) /\ WasThere(q.list)
  BY <1>1, ViewIsOfTheTable
<1>5. [reads[i] EXCEPT !.list = L!View(reads[i].filter)] = q
  BY <1>2 DEF Read
<1>6. UNCHANGED <<rows, calls, shown, statusFilter, form, busy, overtaken, missed, presses>>
  BY DEF L!ServeRead, L!history
<1>7. reads' = next
  BY <1>5 DEF L!ServeRead
<1> HIDE DEF q
<1>8. /\ next \in Seq(Read) /\ Held(next) = Beside(reads, i) \cup {q} /\ Len(next) = Len(reads)
      /\ Held(reads) = Beside(reads, i) \cup {reads[i]}
  BY <1>1, <1>2, <1>3, HeldAfterExcept
<1>9. \A j \in 1..Len(reads) : next[j] = IF j = i THEN q ELSE reads[j]
  BY <1>1, <1>2, <1>3, ExceptSeq
<1> HIDE DEF next
<1>10. L!TypeOK'
  BY <1>1, <1>6, <1>7, <1>8, ReadsAreTyped DEF L!TypeOK
<1>11. RowsAreKnown'
  <2>1. \A r \in Held(next) : r.list # None => WasThere(r.list)
    BY <1>1, <1>4, <1>8 DEF RowsAreKnown
  <2>2. \A r \in Held(next) : r.list # None => WasThere(r.list)'
    BY <1>6, <2>1 DEF WasThere
  <2>3. WasThere(shown)' /\ \A d \in calls' : CallFits(d)'
    BY <1>1, <1>6 DEF RowsAreKnown, WasThere, CallFits, Drops
  <2>4. form'.editing # None => form'.of = form'.editing
    BY <1>1, <1>6 DEF RowsAreKnown
  <2>5. QED BY <1>7, <2>2, <2>3, <2>4 DEF RowsAreKnown, Held, WasThere
<1>12. LastAnswers'
  <2> DEFINE n == Len(reads)
  <2>1. n \in Nat /\ n \in 1..n /\ reads # << >> /\ next # << >>
    BY <1>1, <1>2, <1>8
  <2>2. CASE overtaken \/ missed
    BY <1>6, <2>2 DEF LastAnswers
  <2>3. CASE reads[n].filter = statusFilter /\ (reads[n].list # None => Answers(reads[n].list))
    <3>1. next[n].filter = statusFilter /\ (next[n].list # None => Answers(next[n].list))
      <4>1. CASE n = i
        <5>1. next[n] = q /\ q.list = L!View(statusFilter) /\ q.filter = statusFilter
          BY <1>4, <1>9, <2>1, <2>3, <4>1
        <5>2. QED BY <5>1 DEF Answers
      <4>2. CASE n # i
        BY <1>9, <2>1, <2>3, <4>2
      <4>3. QED BY <4>1, <4>2
    <3>2. ASSUME NEW list, Answers(list) PROVE Answers(list)'
      <4>1. L!View(statusFilter)' = L!View(statusFilter)
        BY <1>6 DEF L!View, L!There
      <4>2. QED BY <1>6, <3>2, <4>1 DEF Answers, Drops
    <3>3. reads' # << >> /\ Len(reads') = n /\ reads'[n] = next[n] /\ statusFilter' = statusFilter
      BY <1>6, <1>7, <1>8, <2>1
    <3>4. QED BY <3>1, <3>2, <3>3 DEF LastAnswers, Answers
  <2>4. QED BY <1>1, <2>1, <2>2, <2>3 DEF LastAnswers
<1>13. QED BY <1>7, <1>8, <1>10, <1>11, <1>12 DEF ListsInv

\* A list is shown; another one that was asked for later is still to come, or it is right.
LEMMA ListShown ==
  ASSUME ListsInv, at \in L!Sections, at' = at, NEW i \in DOMAIN reads, L!TakeRead(i)
  PROVE  ListsInv'
<1>1. L!TypeOK /\ reads \in Seq(Read) /\ RowsAreKnown /\ LastAnswers
  BY DEF ListsInv
<1>2. /\ i \in 1..Len(reads) /\ reads[i] \in Read /\ Len(reads) \in Nat /\ i \in Nat
      /\ reads[i].list # None /\ shown' = reads[i].list /\ overtaken' = (overtaken \/ i # 1)
      /\ UNCHANGED <<rows, calls, statusFilter, form, busy, missed, presses>>
  BY <1>1 DEF L!TakeRead
<1>3. reads' = Without(reads, i)
  BY DEF L!TakeRead, L!Without, Without
<1>4. /\ reads' \in Seq(Read) /\ Len(reads') = Len(reads) - 1
      /\ \A j \in 1..(Len(reads) - 1) : reads'[j] = IF j < i THEN reads[j] ELSE reads[j + 1]
  BY <1>1, <1>2, <1>3, WithoutFacts
<1>5. Held(reads') = Beside(reads, i) /\ Held(reads) = Beside(reads, i) \cup {reads[i]}
  BY <1>1, <1>2, <1>3, HeldWithout
<1>6. L!TypeOK'
  <2>1. shown' \in [Ids -> L!Row \cup {None}]
    BY <1>2 DEF Read, Lines
  <2>2. overtaken' \in BOOLEAN
    BY <1>1, <1>2 DEF L!TypeOK
  <2>3. QED BY <1>1, <1>2, <1>4, <2>1, <2>2, ReadsAreTyped DEF L!TypeOK
<1>7. RowsAreKnown'
  <2>1. WasThere(shown)'
    BY <1>1, <1>2, <1>5 DEF RowsAreKnown, WasThere
  <2>2. \A r \in Held(reads') : r.list # None => WasThere(r.list)'
    BY <1>1, <1>2, <1>5 DEF RowsAreKnown, WasThere
  <2>3. (\A d \in calls' : CallFits(d)') /\ (form'.editing # None => form'.of = form'.editing)
    BY <1>1, <1>2 DEF RowsAreKnown, CallFits, Drops
  <2>4. QED BY <2>1, <2>2, <2>3 DEF RowsAreKnown, Held, WasThere
<1>8. ASSUME NEW list, Answers(list) PROVE Answers(list)'
  <2>1. L!View(statusFilter)' = L!View(statusFilter)
    BY <1>2 DEF L!View, L!There
  <2>2. QED BY <1>2, <1>8, <2>1 DEF Answers, Drops
<1>9. LastAnswers'
  <2> DEFINE n == Len(reads)
  <2>1. CASE overtaken \/ missed \/ i # 1
    BY <1>2, <2>1 DEF LastAnswers
  <2>2. CASE i = 1 /\ reads[n].filter = statusFilter /\ (reads[n].list # None => Answers(reads[n].list))
    <3>1. CASE n = 1
      <4>1. reads' = << >>
        BY <1>4, <3>1
      <4>2. Answers(shown)'
        BY <1>2, <1>8, <2>2, <3>1
      <4>3. QED BY <4>1, <4>2 DEF LastAnswers, Answers
    <3>2. CASE n # 1
      <4>0. i = 1 /\ n # 1 /\ n \in Nat /\ n \in 1..n /\ n >= i
        BY <1>2, <2>2, <3>2
      <4>00. /\ Len(reads') = n - 1
             /\ \A j \in 1..(n - 1) : reads'[j] = IF j < i THEN reads[j] ELSE reads[j + 1]
        BY <1>4
      <4> HIDE DEF n
      <4>1. n - 1 \in 1..(n - 1) /\ ~(n - 1 < i) /\ n - 1 + 1 = n
        BY <4>0
      <4>2. reads'[n - 1] = reads[n] /\ Len(reads') = n - 1 /\ reads' # << >>
        BY <4>0, <4>00, <4>1
      <4>3. reads'[Len(reads')] = reads[n] /\ statusFilter' = statusFilter
        BY <1>2, <4>2
      <4>4. QED BY <1>8, <2>2, <4>2, <4>3 DEF LastAnswers, Answers, n
    <3>3. QED BY <3>1, <3>2
  <2>3. reads # << >>
    BY <1>2
  <2>4. QED BY <1>1, <2>1, <2>2, <2>3 DEF LastAnswers
<1>10. QED BY <1>2, <1>4, <1>6, <1>7, <1>9 DEF ListsInv

\* A list is lost, which is one of the exceptions.
LEMMA ListLost ==
  ASSUME ListsInv, at \in L!Sections, at' = at, NEW i \in DOMAIN reads, L!LoseRead(i)
  PROVE  ListsInv'
<1>1. L!TypeOK /\ reads \in Seq(Read) /\ RowsAreKnown
  BY DEF ListsInv
<1>2. /\ i \in 1..Len(reads) /\ missed'
      /\ UNCHANGED <<rows, shown, calls, statusFilter, form, busy, overtaken, presses>>
  BY <1>1 DEF L!LoseRead
<1>3. reads' = Without(reads, i)
  BY DEF L!LoseRead, L!Without, Without
<1>4. /\ reads' \in Seq(Read) /\ Held(reads') = Beside(reads, i)
      /\ Held(reads) = Beside(reads, i) \cup {reads[i]}
  BY <1>1, <1>2, <1>3, HeldWithout
<1>5. L!TypeOK'
  <2>1. missed' \in BOOLEAN
    BY DEF L!LoseRead
  <2>2. QED BY <1>1, <1>2, <1>4, <2>1, ReadsAreTyped DEF L!TypeOK
<1>6. RowsAreKnown'
  <2>1. \A r \in Held(reads') : r.list # None => WasThere(r.list)'
    BY <1>1, <1>2, <1>4 DEF RowsAreKnown, WasThere
  <2>2. WasThere(shown)' /\ (\A d \in calls' : CallFits(d)') /\ (form'.editing # None => form'.of = form'.editing)
    BY <1>1, <1>2 DEF RowsAreKnown, CallFits, Drops, WasThere
  <2>3. QED BY <2>1, <2>2 DEF RowsAreKnown, Held, WasThere
<1>7. QED BY <1>2, <1>4, <1>5, <1>6 DEF ListsInv, LastAnswers

\* The page asks for its list with the filter f.
LEMMA ListAsked ==
  ASSUME reads \in Seq(Read), NEW f \in L!Filters, L!Ask(f)
  PROVE  /\ reads' \in Seq(Read) /\ reads' # << >>
         /\ reads'[Len(reads')] = [filter |-> f, list |-> None]
         /\ Held(reads') = Held(reads) \cup {[filter |-> f, list |-> None]}
<1> DEFINE q == [filter |-> f, list |-> None]
<1>1. q \in Read
  BY DEF Read
<1>2. reads' = Append(reads, q)
  BY DEF L!Ask
<1> HIDE DEF q
<1>3. reads' \in Seq(Read) /\ reads' # << >> /\ Held(reads') = Held(reads) \cup {q}
  BY <1>1, <1>2, HeldAfterAppend
<1>4. reads'[Len(reads')] = q
  BY <1>1, <1>2, AppendProperties
<1>5. QED BY <1>3, <1>4 DEF q

\* An answer is heard: the page asks again, takes out the row that is gone, or the change
\* was refused.
LEMMA ChangeAnswered ==
  ASSUME ListsInv, at \in L!Sections, at' = at, NEW c \in calls,
         NEW answer \in {"ok", "refused", "lost"}, L!Receive(c, answer)
  PROVE  ListsInv'
<1>1. /\ L!TypeOK /\ reads \in Seq(Read) /\ RowsAreKnown /\ LastAnswers
      /\ shown \in [Ids -> L!Row \cup {None}] /\ rows \in L!Table
  BY DEF ListsInv, L!TypeOK
<1>2. /\ c \in L!Call /\ CallFits(c) /\ answer \in {c.phase, "lost"} /\ calls' = calls \ {c}
      /\ UNCHANGED <<rows, statusFilter, presses>>
  BY <1>1 DEF L!TypeOK, RowsAreKnown, L!Receive
<1>3. PICK reaction \in L!Reactions(c.op, answer) :
        /\ IF reaction = "reread" THEN L!Ask(c.filter) ELSE UNCHANGED reads
        /\ shown' = IF reaction = "drop" THEN [shown EXCEPT ![c.id] = None] ELSE shown
        /\ missed' = \/ missed
                     \/ answer = "lost" /\ reaction # "reread"
                     \/ answer # "ok" /\ reaction = "drop"
                     \/ c.filter # statusFilter
        /\ overtaken' = (overtaken \/ (reaction = "drop" /\ reads # << >>))
  BY DEF L!Receive
<1>4. /\ reaction = "drop" => Drops(c)
      /\ reaction \in {"reread", "drop"} \/ (reaction = "keep" /\ answer # "ok")
  BY <1>2, <1>3
  DEF L!Sections, L!Call, L!Ops, CallFits, Drops, L!Reactions, L!Reviewed, L!PolicyChanged,
      L!BudgetChanged, L!KeyChanged, L!AccountChanged, L!UserChanged
<1>5. /\ reads' \in Seq(Read)
      /\ \A r \in Held(reads') : r \in Held(reads) \/ r.list = None
  <2>1. CASE reaction = "reread"
    <3>1. c.filter \in L!Filters /\ L!Ask(c.filter)
      BY <1>2, <1>3, <2>1 DEF L!Call
    <3>2. reads' \in Seq(Read) /\ Held(reads') = Held(reads) \cup {[filter |-> c.filter, list |-> None]}
      BY <1>1, <3>1, ListAsked
    <3>3. QED BY <3>2
  <2>2. CASE reaction # "reread"
    BY <1>1, <1>3, <2>2 DEF Held
  <2>3. QED BY <2>1, <2>2
<1>6. /\ shown' \in [Ids -> L!Row \cup {None}]
      /\ \A i \in Ids : shown'[i] = shown[i] \/ shown'[i] = None
      /\ reaction = "drop" => \A i \in Ids : shown'[i] = IF i = c.id THEN None ELSE shown[i]
      /\ reaction # "drop" => shown' = shown
  <2>1. CASE reaction = "drop"
    BY <1>1, <1>3, <2>1
  <2>2. CASE reaction # "drop"
    BY <1>1, <1>3, <2>2
  <2>3. QED BY <2>1, <2>2
<1>7. L!TypeOK'
  <2>1. form' \in L!Form /\ busy' \in Ids \cup {None}
    BY <1>1 DEF L!TypeOK, L!Receive, L!ClosedForm, L!Form, L!Row
  <2>2. missed' \in BOOLEAN /\ overtaken' \in BOOLEAN
    BY <1>1, <1>3 DEF L!TypeOK
  <2>3. calls' \subseteq L!Call
    BY <1>1, <1>2 DEF L!TypeOK
  <2>4. QED BY <1>1, <1>2, <1>5, <1>6, <2>1, <2>2, <2>3, ReadsAreTyped DEF L!TypeOK
<1>8. RowsAreKnown'
  <2>1. WasThere(shown)'
    BY <1>1, <1>2, <1>6 DEF RowsAreKnown, WasThere
  <2>2. \A r \in Held(reads') : r.list # None => WasThere(r.list)'
    BY <1>1, <1>2, <1>5 DEF RowsAreKnown, WasThere
  <2>3. \A d \in calls' : CallFits(d)'
    BY <1>1, <1>2 DEF RowsAreKnown, CallFits, Drops
  <2>4. form'.editing # None => form'.of = form'.editing
    BY <1>1 DEF RowsAreKnown, L!Receive, L!ClosedForm
  <2>5. QED BY <2>1, <2>2, <2>3, <2>4 DEF RowsAreKnown, Held, WasThere
<1>9. LastAnswers'
  <2>1. CASE reaction = "reread"
    <3>1. c.filter # statusFilter => missed'
      BY <1>3
    <3>2. /\ reads' # << >> /\ reads'[Len(reads')].filter = c.filter
          /\ reads'[Len(reads')].list = None
      <4>1. c.filter \in L!Filters /\ L!Ask(c.filter)
        BY <1>2, <1>3, <2>1 DEF L!Call
      <4>2. reads' # << >> /\ reads'[Len(reads')] = [filter |-> c.filter, list |-> None]
        BY <1>1, <4>1, ListAsked
      <4>3. QED BY <4>2
    <3>3. QED BY <1>2, <3>1, <3>2 DEF LastAnswers
  <2>2. CASE reaction = "keep" /\ answer # "ok"
    <3>1. CASE answer = "lost"
      BY <1>3, <2>2, <3>1 DEF LastAnswers
    <3>2. CASE c.phase # "ok"
      <4>1. ASSUME NEW list, Answers(list) PROVE Answers(list)'
        <5>1. L!View(statusFilter)' = L!View(statusFilter)
          BY <1>2 DEF L!View, L!There
        <5>2. \A b \in calls : b.phase = "ok" => b \in calls'
          BY <1>2, <3>2
        <5>3. QED BY <4>1, <5>1, <5>2 DEF Answers, Drops
      <4>2. UNCHANGED <<reads, shown, statusFilter>> /\ (overtaken \/ missed => overtaken' \/ missed')
        BY <1>2, <1>3, <2>2
      <4>3. QED BY <1>1, <4>1, <4>2 DEF LastAnswers, Answers
    <3>3. QED BY <1>2, <2>2, <3>1, <3>2
  <2>3. CASE reaction = "drop"
    <3>1. CASE overtaken \/ missed \/ reads # << >> \/ answer # "ok"
      BY <1>3, <2>3, <3>1 DEF LastAnswers
    <3>2. CASE reads = << >> /\ answer = "ok" /\ Answers(shown)
      <4>1. Drops(c) /\ c.phase = "ok" /\ c.id \in Ids /\ rows[c.id] = Gone
        BY <1>2, <1>4, <2>3, <3>2 DEF CallFits, Drops
      <4>2. L!View(statusFilter)' = L!View(statusFilter) /\ L!View(statusFilter)[c.id] = None
        <5>1. L!View(statusFilter)' = L!View(statusFilter)
          BY <1>2 DEF L!View, L!There
        <5>2. QED BY <1>1, <4>1, <5>1, ViewIsOfTheTable
      <4>3. CASE \E b \in calls : b.phase = "ok" /\ ~Drops(b)
        <5>1. \E b \in calls' : b.phase = "ok" /\ ~Drops(b)'
          BY <1>2, <4>1, <4>3 DEF Drops
        <5>2. Answers(shown)'
          BY <5>1 DEF Answers
        <5>3. QED BY <1>3, <2>3, <3>2, <5>2 DEF LastAnswers, Answers
      <4>4. CASE \A i \in Ids : \/ shown[i] = L!View(statusFilter)[i]
                                \/ \E b \in calls : b.phase = "ok" /\ Drops(b) /\ b.id = i
        <5>1. ASSUME NEW i \in Ids
              PROVE  \/ shown'[i] = L!View(statusFilter)[i]
                     \/ \E b \in calls' : b.phase = "ok" /\ Drops(b)' /\ b.id = i
          <6>1. CASE i = c.id
            BY <1>6, <2>3, <4>2, <6>1
          <6>2. CASE i # c.id
            BY <1>2, <1>6, <2>3, <4>4, <6>2 DEF Drops
          <6>3. QED BY <6>1, <6>2
        <5>2. Answers(shown)'
          BY <4>2, <5>1 DEF Answers
        <5>3. QED BY <1>3, <2>3, <3>2, <5>2 DEF LastAnswers, Answers
      <4>5. QED BY <3>2, <4>3, <4>4 DEF Answers
    <3>3. QED BY <1>1, <3>1, <3>2 DEF LastAnswers
  <2>4. QED BY <1>4, <2>1, <2>2, <2>3
<1>10. QED BY <1>2, <1>5, <1>7, <1>8, <1>9 DEF ListsInv

\* The list is asked for with the filter that is selected.
LEMMA FilterSelected ==
  ASSUME ListsInv, at \in L!Sections, at' = at, NEW f \in L!Filters, L!SelectFilter(f)
  PROVE  ListsInv'
<1>1. L!TypeOK /\ reads \in Seq(Read) /\ RowsAreKnown
  BY DEF ListsInv
<1>2. /\ L!Ask(f) /\ statusFilter' = f
      /\ UNCHANGED <<rows, shown, form, busy, calls, overtaken, missed>>
  BY DEF L!SelectFilter
<1>3. presses' \in 0..MaxPresses
  BY <1>1, PressesAreBounded DEF L!SelectFilter, L!Press, L!TypeOK
<1>4. /\ reads' \in Seq(Read) /\ reads' # << >>
      /\ reads'[Len(reads')] = [filter |-> f, list |-> None]
      /\ Held(reads') = Held(reads) \cup {[filter |-> f, list |-> None]}
  BY <1>1, <1>2, ListAsked
<1>5. L!TypeOK'
  BY <1>1, <1>2, <1>3, <1>4, ReadsAreTyped DEF L!TypeOK
<1>6. RowsAreKnown'
  <2>1. \A r \in Held(reads') : r.list # None => WasThere(r.list)'
    BY <1>1, <1>2, <1>4 DEF RowsAreKnown, WasThere
  <2>2. WasThere(shown)' /\ (\A d \in calls' : CallFits(d)') /\ (form'.editing # None => form'.of = form'.editing)
    BY <1>1, <1>2 DEF RowsAreKnown, CallFits, Drops, WasThere
  <2>3. QED BY <2>1, <2>2 DEF RowsAreKnown, Held, WasThere
<1>7. LastAnswers'
  BY <1>2, <1>4 DEF LastAnswers
<1>8. QED BY <1>4, <1>5, <1>6, <1>7 DEF ListsInv

\* What changes nothing but the form and the choice of a row.
LEMMA PageChanged ==
  ASSUME ListsInv, at \in L!Sections, at' = at, form' \in L!Form, busy' \in Ids \cup {None},
         form'.editing # None => form'.of = form'.editing,
         UNCHANGED <<rows, shown, statusFilter, calls, reads, overtaken, missed, presses>>
  PROVE  ListsInv'
<1>1. L!TypeOK /\ reads \in Seq(Read) /\ RowsAreKnown /\ LastAnswers
  BY DEF ListsInv
<1>2. L!TypeOK' /\ reads' \in Seq(Read)
  BY <1>1 DEF L!TypeOK
<1>3. RowsAreKnown'
  BY <1>1 DEF RowsAreKnown, WasThere, Held, CallFits, Drops
<1>4. LastAnswers'
  <2>1. ASSUME NEW list, Answers(list) PROVE Answers(list)'
    <3>1. L!View(statusFilter)' = L!View(statusFilter)
      BY DEF L!View, L!There
    <3>2. QED BY <2>1, <3>1 DEF Answers, Drops
  <2>2. QED BY <1>1, <2>1 DEF LastAnswers, Answers
<1>5. QED BY <1>2, <1>3, <1>4 DEF ListsInv

\* The invariant of a list that is open is kept.
LEMMA ListsStep == ASSUME ListsInv, at \in L!Sections, at' = at, L!Next PROVE ListsInv'
<1>1. /\ form \in L!Form /\ busy \in Ids \cup {None} /\ shown \in [Ids -> L!Row \cup {None}]
      /\ form.editing # None => form.of = form.editing
  BY DEF ListsInv, L!TypeOK, RowsAreKnown
<1>2. CASE SendActions
  BY <1>2, SendActionsSend, CallSent
<1>3. ASSUME NEW f, L!SetForm(f), f \in L!Form, f.editing # None => f.of = f.editing PROVE ListsInv'
  <2>1. UNCHANGED <<rows, shown, statusFilter, busy, calls, reads, overtaken, missed, presses>> /\ form' = f
    BY <1>3 DEF L!SetForm, L!history
  <2>2. QED BY <1>1, <1>3, <2>1, PageChanged
<1>4. CASE L!NewPolicy \/ L!ApplyTemplate
  <2>1. PICK open \in BOOLEAN : L!SetForm([L!ClosedForm EXCEPT !.open = open])
    BY <1>1, <1>4 DEF L!NewPolicy, L!ApplyTemplate, L!Form
  <2> DEFINE f == [L!ClosedForm EXCEPT !.open = open]
  <2>2. f \in L!Form /\ f.editing = None
    BY DEF L!Form, L!ClosedForm, L!Row
  <2> HIDE DEF f
  <2>3. L!SetForm(f)
    BY <2>1 DEF f
  <2>4. QED BY <1>3, <2>2, <2>3
<1>5. CASE L!ShowBudgetForm
  <2> DEFINE f == [form EXCEPT !.open = ~@]
  <2>1. f \in L!Form /\ f.editing = form.editing /\ f.of = form.of
    BY <1>1 DEF L!Form
  <2> HIDE DEF f
  <2>2. L!SetForm(f)
    BY <1>5 DEF L!ShowBudgetForm, f
  <2>3. QED BY <1>1, <1>3, <2>1, <2>2
<1>6. ASSUME NEW i \in Ids, L!EditPolicy(i) PROVE ListsInv'
  <2> DEFINE f == [open |-> TRUE, editing |-> i, of |-> i, row |-> shown[i]]
  <2>1. f \in L!Form /\ f.editing = i /\ f.of = i
    BY <1>1, <1>6 DEF L!Form, L!EditPolicy
  <2>2. L!SetForm(f)
    BY <1>6 DEF L!EditPolicy
  <2> HIDE DEF f
  <2>3. QED BY <1>3, <2>1, <2>2
<1>7. ASSUME NEW choice \in Ids \cup {None}, L!ConfirmDelete(choice) PROVE ListsInv'
  BY <1>1, <1>7, PageChanged DEF L!ConfirmDelete, L!history
<1>8. ASSUME NEW f \in L!Filters, L!SelectFilter(f) PROVE ListsInv'
  BY <1>8, FilterSelected
<1>9. ASSUME NEW c \in calls, L!Serve(c) PROVE ListsInv'
  BY <1>9, CallServed
<1>10. ASSUME NEW c \in calls, NEW answer \in {"ok", "refused", "lost"}, L!Receive(c, answer) PROVE ListsInv'
  BY <1>10, ChangeAnswered
<1>11. ASSUME NEW i \in DOMAIN reads, L!ServeRead(i) \/ L!TakeRead(i) \/ L!LoseRead(i) PROVE ListsInv'
  BY <1>11, ListServed, ListShown, ListLost
<1>12. QED
  BY <1>2, <1>4, <1>5, <1>6, <1>7, <1>8, <1>9, <1>10, <1>11 DEF L!Next, SendActions

LEMMA ListsStutter == ASSUME ListsInv, UNCHANGED <<at, lists>> PROVE ListsInv'
<1>1. CASE at \in L!Sections
  <2>1. form \in L!Form /\ busy \in Ids \cup {None} /\ (form.editing # None => form.of = form.editing)
    BY <1>1 DEF ListsInv, L!TypeOK, RowsAreKnown
  <2>2. QED BY <1>1, <2>1, PageChanged DEF lists
<1>2. CASE at \notin L!Sections
  <2>1. L!TypeOK /\ reads \in Seq(Read) /\ calls = {} /\ form.editing = None
    BY <1>2 DEF ListsInv
  <2>2. QED BY <1>2, <2>1 DEF ListsInv, L!TypeOK, lists
<1>3. QED BY <1>1, <1>2

LEMMA ListsSafe ==
  ASSUME ListsInv PROVE L!TypeOK /\ L!ListFollowsServer /\ L!FormIsOfItsPolicy
<1>1. L!TypeOK /\ shown \in [Ids -> L!Row \cup {None}]
  BY DEF ListsInv, L!TypeOK
<1>2. L!ListFollowsServer
  <2> SUFFICES ASSUME at \in L!Sections, calls = {}, reads = << >>, ~overtaken, ~missed
               PROVE  shown = L!View(statusFilter)
    BY DEF L!ListFollowsServer
  <2>1. \A i \in Ids : shown[i] = L!View(statusFilter)[i]
    BY DEF ListsInv, LastAnswers, Answers
  <2>2. L!View(statusFilter) = [i \in Ids |-> L!View(statusFilter)[i]]
    BY DEF L!View
  <2>3. QED BY <1>1, <2>1, <2>2
<1>3. L!FormIsOfItsPolicy
  BY DEF ListsInv, RowsAreKnown, CallFits, L!FormIsOfItsPolicy
<1>4. QED BY <1>1, <1>2, <1>3

-----------------------------------------------------------------------------
(* The forms of the settings                                               *)

Credentials == {"aws", "github", "infracost"}
Silent == {"approval", "drift"}
Good == typed \cup {S!Old} \cup (IF at = "state" THEN {S!NoValue} ELSE {})

Drafts == [{"pat", "app", "only"} -> Values \cup {Blank}]
NewSave(v, test) == [kind |-> "save", value |-> v, testing |-> test, phase |-> "sent"]
Busy(q) == q.kind \in {"save", "read"} /\ ~q.testing
Unserved(q) == q.kind = "save" /\ q.phase = "sent"
Loads(s) == \E q \in Held(s) : q.kind = "load"

\* What a request can be; only GitHub has two methods.
Fits(q) ==
  /\ q.testing => at = "notifications" /\ q.kind \in {"save", "test"}
  /\ q.kind = "test" => q.testing
  /\ q.kind = "read" => at \in Credentials
  /\ at # "github" => q.value.of = "only"

\* Every request is one this form sends.
RequestsFit ==
  /\ \A q \in Held(requests) : Fits(q)
  /\ at # "github" => method = "only" /\ stored.of = "only"

NoneIsRefused == failed \/ \A q \in Held(requests) : q.phase # "refused"

\* At most one request keeps the buttons off.
OneBusy(s, b) ==
  /\ b = \E q \in Held(s) : Busy(q)
  /\ \A i, j \in 1..Len(s) : Busy(s[i]) /\ Busy(s[j]) => i = j

SavingIsBusy == IF at \in Silent THEN ~saving ELSE OneBusy(requests, saving)

\* A save that is told is the last one, and it is stored.
SavedIsLast ==
  at \in Credentials =>
    /\ message = "saved" => stored = last
    /\ \A q \in Held(requests) : q.kind = "save" =>
         q.value = last /\ message # "saved" /\ (q.phase = "ok" => stored = last)

\* What is stored, is being saved or has been loaded was typed, or was there before.
StoredIsGood ==
  early \/ failed \/
    /\ stored \in Good
    /\ \A q \in Held(requests) : q.kind = "save" \/ (q.kind = "load" /\ q.phase = "ok") => q.value \in Good
    /\ IF at \in S!LoadsDraft THEN Loads(requests) \/ [of |-> "only", value |-> draft["only"]] \in Good
       ELSE \A m \in {"pat", "app", "only"} : draft[m] # Blank => [of |-> m, value |-> draft[m]] \in typed

\* The draft d is the value that will be stored: of the last save that was not
\* served, or else the stored one.
DraftIsOf(s, st, d) ==
  /\ (\A i \in 1..Len(s) : ~Unserved(s[i])) => d = st
  /\ \A i \in 1..Len(s) :
       Unserved(s[i]) /\ (\A j \in 1..Len(s) : j > i => ~Unserved(s[j])) => d = s[i].value

\* What was loaded or read is what is stored, and the draft is what will be.
StoreIsShown ==
  early \/ failed \/ savesCrossed \/
    /\ Loads(requests) => Len(requests) = 1
    /\ \A q \in Held(requests) :
         q.phase = "ok" /\ (q.kind = "load" \/ (at \in S!WithStatus /\ q.kind \in {"read", "save"})) => q.value = stored
    /\ at \in S!WithStatus /\ requests = << >> => shownStatus = stored
    /\ at \in S!LoadsDraft => dirty \/ Loads(requests) \/ DraftIsOf(requests, stored, S!Drafted)

SettingsInv ==
  /\ S!TypeOK
  /\ at \in S!Forms =>
       /\ RequestsFit /\ NoneIsRefused /\ SavingIsBusy
       /\ SavedIsLast /\ StoredIsGood /\ StoreIsShown

LEMMA ActsAreBounded == MaxActs \in Nat \ {0} /\ Values # {}
BY ConstantsAssumption DEF ConstantsAssumption

LEMMA ValuesOfTheStore ==
  /\ S!NoValue \in S!Value /\ S!Old \in S!Value
  /\ at # "github" => S!NoValue.of = "only" /\ S!Old.of = "only"
<1>1. (CHOOSE v \in Values : TRUE) \in Values
  BY ActsAreBounded
<1>2. QED BY <1>1 DEF S!NoValue, S!Old, S!Value

\* A form whose buttons are on waits for nothing that keeps them off.
LEMMA NoSaveIsBusy ==
  ASSUME NEW s \in Seq(S!Request), NEW b \in BOOLEAN, OneBusy(s, b), NEW i \in 1..Len(s), Busy(s[i])
  PROVE  b /\ \A q \in Beside(s, i) : ~Busy(q)
BY DEF OneBusy, Held, Beside

LEMMA BusyAfterAppend ==
  ASSUME NEW s \in Seq(S!Request), NEW b \in BOOLEAN, OneBusy(s, b), NEW q \in S!Request, Busy(q) => ~b
  PROVE  OneBusy(Append(s, q), b \/ Busy(q))
<1> DEFINE t == Append(s, q)
<1>1. /\ Len(s) \in Nat /\ Len(t) = Len(s) + 1
      /\ \A j \in 1..Len(s) : t[j] = s[j]
      /\ t[Len(s) + 1] = q
  BY AppendProperties
<1>2. Held(t) = Held(s) \cup {q}
  BY HeldAfterAppend
<1> HIDE DEF t
<1>3. ASSUME NEW i \in 1..Len(t), NEW j \in 1..Len(t), Busy(t[i]), Busy(t[j]) PROVE i = j
  <2>1. i \in 1..Len(s) \/ i = Len(s) + 1
    BY <1>1
  <2>2. j \in 1..Len(s) \/ j = Len(s) + 1
    BY <1>1
  <2>3. Busy(q) => \A k \in 1..Len(s) : ~Busy(s[k])
    BY DEF OneBusy, Held
  <2>4. QED BY <1>1, <1>3, <2>1, <2>2, <2>3 DEF OneBusy
<1>4. (b \/ Busy(q)) = \E p \in Held(t) : Busy(p)
  BY <1>2 DEF OneBusy, Busy
<1>5. QED BY <1>3, <1>4 DEF OneBusy, t

LEMMA BusyWithout ==
  ASSUME NEW s \in Seq(S!Request), NEW b \in BOOLEAN, OneBusy(s, b), NEW i \in 1..Len(s)
  PROVE  OneBusy(Without(s, i), b /\ ~Busy(s[i]))
<1> DEFINE w == Without(s, i)
<1>1. /\ Len(s) \in Nat /\ Len(w) = Len(s) - 1
      /\ \A j \in 1..(Len(s) - 1) : w[j] = IF j < i THEN s[j] ELSE s[j + 1]
  <2>1. DOMAIN s = 1..Len(s) /\ Len(s) \in Nat
    OBVIOUS
  <2>2. QED BY <2>1, WithoutFacts
<1>2. Held(w) = Beside(s, i) /\ Held(s) = Beside(s, i) \cup {s[i]}
  BY HeldWithout
<1> HIDE DEF w
<1>3. ASSUME NEW j \in 1..Len(w), NEW k \in 1..Len(w), Busy(w[j]), Busy(w[k]) PROVE j = k
  <2>1. j \in 1..(Len(s) - 1) /\ j \in 1..Len(s) /\ j + 1 \in 1..Len(s)
    BY <1>1
  <2>2. k \in 1..(Len(s) - 1) /\ k \in 1..Len(s) /\ k + 1 \in 1..Len(s)
    BY <1>1
  <2>3. \A x, y \in 1..Len(s) : Busy(s[x]) /\ Busy(s[y]) => x = y
    BY DEF OneBusy
  <2> DEFINE x == IF j < i THEN j ELSE j + 1
             y == IF k < i THEN k ELSE k + 1
  <2>4. x \in 1..Len(s) /\ y \in 1..Len(s) /\ w[j] = s[x] /\ w[k] = s[y]
    BY <1>1, <2>1, <2>2
  <2>5. x = y
    BY <1>3, <2>3, <2>4
  <2>6. QED BY <1>1, <2>1, <2>2, <2>5
<1>4. (b /\ ~Busy(s[i])) = \E p \in Held(w) : Busy(p)
  <2>1. Busy(s[i]) => \A q \in Beside(s, i) : ~Busy(q)
    BY NoSaveIsBusy
  <2>2. b = \E q \in Held(s) : Busy(q)
    BY DEF OneBusy
  <2>3. QED BY <1>2, <2>1, <2>2
<1>5. QED BY <1>3, <1>4 DEF OneBusy, w

LEMMA BusyAfterExcept ==
  ASSUME NEW s \in Seq(S!Request), NEW b \in BOOLEAN, OneBusy(s, b), NEW i \in 1..Len(s),
         NEW q \in S!Request, Busy(q) = Busy(s[i])
  PROVE  OneBusy([s EXCEPT ![i] = q], b)
<1> DEFINE t == [s EXCEPT ![i] = q]
<1>1. /\ Len(t) = Len(s)
      /\ \A j \in 1..Len(s) : t[j] = IF j = i THEN q ELSE s[j]
  BY ExceptSeq
<1>2. Held(t) = Beside(s, i) \cup {q} /\ Held(s) = Beside(s, i) \cup {s[i]}
  BY HeldAfterExcept
<1> HIDE DEF t
<1>3. \A j \in 1..Len(t) : Busy(t[j]) = Busy(s[j])
  BY <1>1
<1>4. b = \E p \in Held(t) : Busy(p)
  BY <1>2 DEF OneBusy
<1>5. QED BY <1>1, <1>3, <1>4 DEF OneBusy, t

\* What the draft is to the saves that wait, as one is sent, answered or served.
LEMMA DraftAfterAppend ==
  ASSUME NEW s \in Seq(S!Request), NEW st, NEW d, NEW q \in S!Request,
         IF Unserved(q) THEN d = q.value ELSE DraftIsOf(s, st, d)
  PROVE  DraftIsOf(Append(s, q), st, d)
<1> DEFINE t == Append(s, q)
<1>1. /\ Len(s) \in Nat /\ Len(t) = Len(s) + 1
      /\ \A j \in 1..Len(s) : t[j] = s[j] /\ j \in 1..Len(t) /\ j < Len(t)
      /\ t[Len(t)] = q /\ Len(t) \in 1..Len(t)
      /\ \A j \in 1..Len(t) : j \in 1..Len(s) \/ j = Len(t)
  <2>1. /\ Len(s) \in Nat /\ Len(t) = Len(s) + 1
        /\ \A j \in 1..Len(s) : t[j] = s[j]
        /\ t[Len(s) + 1] = q
    BY AppendProperties
  <2> HIDE DEF t
  <2>2. QED BY <2>1
<1> HIDE DEF t
<1>2. CASE Unserved(q)
  <2>1. ~\A i \in 1..Len(t) : ~Unserved(t[i])
    BY <1>1, <1>2
  <2>2. ASSUME NEW i \in 1..Len(t), \A j \in 1..Len(t) : j > i => ~Unserved(t[j]) PROVE i = Len(t)
    BY <1>1, <1>2, <2>2
  <2>3. QED BY <1>1, <1>2, <2>1, <2>2 DEF DraftIsOf, t
<1>3. CASE ~Unserved(q)
  <2>1. ASSUME \A i \in 1..Len(t) : ~Unserved(t[i]) PROVE d = st
    BY <1>1, <1>3, <2>1 DEF DraftIsOf
  <2>2. ASSUME NEW i \in 1..Len(t), Unserved(t[i]), \A j \in 1..Len(t) : j > i => ~Unserved(t[j])
        PROVE  d = t[i].value
    <3>1. i \in 1..Len(s) /\ t[i] = s[i]
      BY <1>1, <1>3, <2>2
    <3>2. \A j \in 1..Len(s) : j > i => ~Unserved(s[j])
      BY <1>1, <2>2
    <3>3. QED BY <1>3, <2>2, <3>1, <3>2 DEF DraftIsOf
  <2>3. QED BY <2>1, <2>2 DEF DraftIsOf, t
<1>4. QED BY <1>2, <1>3

LEMMA DraftWithout ==
  ASSUME NEW s \in Seq(S!Request), NEW st, NEW d, DraftIsOf(s, st, d), NEW i \in 1..Len(s), ~Unserved(s[i])
  PROVE  DraftIsOf(Without(s, i), st, d)
<1> DEFINE w == Without(s, i)
           In(j) == IF j < i THEN j ELSE j + 1
           Out(j) == IF j < i THEN j ELSE j - 1
<1>1. /\ Len(s) \in Nat /\ Len(w) = Len(s) - 1
      /\ \A j \in 1..(Len(s) - 1) : w[j] = IF j < i THEN s[j] ELSE s[j + 1]
  <2>1. DOMAIN s = 1..Len(s) /\ Len(s) \in Nat
    OBVIOUS
  <2>2. QED BY <2>1, WithoutFacts
<1> HIDE DEF w
<1>2. \A j \in 1..Len(w) : In(j) \in 1..Len(s) /\ w[j] = s[In(j)]
  BY <1>1
<1>3. \A j \in 1..Len(s) : j # i => Out(j) \in 1..Len(w) /\ In(Out(j)) = j
  BY <1>1
<1>4. \A j \in 1..Len(w) : \A k \in 1..Len(s) : k > In(j) /\ k # i => Out(k) > j
  BY <1>1
<1> HIDE DEF In, Out
<1>5. \A j \in 1..Len(s) : j # i => w[Out(j)] = s[j]
  BY <1>2, <1>3
<1>6. ASSUME \A j \in 1..Len(w) : ~Unserved(w[j]) PROVE d = st
  <2>1. \A j \in 1..Len(s) : ~Unserved(s[j])
    BY <1>3, <1>5, <1>6
  <2>2. QED BY <2>1 DEF DraftIsOf
<1>7. ASSUME NEW j \in 1..Len(w), Unserved(w[j]), \A k \in 1..Len(w) : k > j => ~Unserved(w[k])
      PROVE  d = w[j].value
  <2>1. \A k \in 1..Len(s) : k > In(j) => ~Unserved(s[k])
    BY <1>3, <1>4, <1>5, <1>7
  <2>2. In(j) \in 1..Len(s) /\ w[j] = s[In(j)]
    BY <1>2
  <2>3. QED BY <1>7, <2>1, <2>2 DEF DraftIsOf
<1>8. QED BY <1>6, <1>7 DEF DraftIsOf, w

\* A request is served: the first one of those that were not.
LEMMA DraftAfterExcept ==
  ASSUME NEW s \in Seq(S!Request), NEW st, NEW d, DraftIsOf(s, st, d), NEW i \in 1..Len(s),
         NEW q \in S!Request, ~Unserved(q), NEW new,
         IF Unserved(s[i]) THEN new = s[i].value /\ \A j \in 1..Len(s) : j < i => ~Unserved(s[j])
                           ELSE new = st
  PROVE  DraftIsOf([s EXCEPT ![i] = q], new, d)
<1> DEFINE t == [s EXCEPT ![i] = q]
<1>1. /\ Len(s) \in Nat /\ Len(t) = Len(s)
      /\ \A j \in 1..Len(s) : t[j] = IF j = i THEN q ELSE s[j]
  BY ExceptSeq
<1> HIDE DEF t
<1>2. ASSUME \A j \in 1..Len(t) : ~Unserved(t[j]) PROVE d = new
  <2>1. \A j \in 1..Len(s) : j # i => ~Unserved(s[j])
    BY <1>1, <1>2
  <2>2. CASE Unserved(s[i])
    <3>1. \A j \in 1..Len(s) : j > i => ~Unserved(s[j])
      BY <1>1, <2>1
    <3>2. d = s[i].value
      BY <2>2, <3>1 DEF DraftIsOf
    <3>3. QED BY <2>2, <3>2
  <2>3. CASE ~Unserved(s[i])
    BY <2>1, <2>3 DEF DraftIsOf
  <2>4. QED BY <2>2, <2>3
<1>3. ASSUME NEW j \in 1..Len(t), Unserved(t[j]), \A k \in 1..Len(t) : k > j => ~Unserved(t[k])
      PROVE  d = t[j].value
  <2>1. j \in 1..Len(s) /\ j # i /\ t[j] = s[j] /\ Unserved(s[j])
    BY <1>1, <1>3
  <2>2. Unserved(s[i]) => i < j
    BY <2>1, <1>1
  <2>3. ASSUME NEW k \in 1..Len(s), k > j PROVE ~Unserved(s[k])
    <3>1. CASE k = i
      BY <1>1, <2>2, <2>3, <3>1
    <3>2. CASE k # i
      BY <1>1, <1>3, <2>3, <3>2
    <3>3. QED BY <3>1, <3>2
  <2>4. d = s[j].value
    BY <2>1, <2>3 DEF DraftIsOf
  <2>5. QED BY <2>1, <2>4
<1>4. QED BY <1>2, <1>3 DEF DraftIsOf, t

LEMMA NothingUnderWay ==
  ASSUME NEW s \in Seq(S!Request), Held(s) = {}
  PROVE  s = << >> /\ \A st : DraftIsOf(s, st, st)
<1>1. Len(s) \in Nat /\ ~\E i \in 1..Len(s) : TRUE
  BY DEF Held
<1>2. Len(s) = 0
  BY <1>1
<1>3. s = << >>
  BY <1>2
<1>4. QED BY <1>1, <1>3 DEF DraftIsOf

\* The invariant holds as a form is opened.
LEMMA SettingsInit == ASSUME S!Init PROVE SettingsInv
<1> DEFINE q == [kind |-> "load", value |-> S!NoValue, testing |-> FALSE, phase |-> "sent"]
<1>1. S!NoValue \in S!Value /\ S!Old \in S!Value
  BY ValuesOfTheStore
<1>2. q \in S!Request
  BY <1>1 DEF S!Request
<1>3. requests = <<q>>
  BY DEF S!Init
<1> HIDE DEF q
<1>4. /\ requests \in Seq(S!Request) /\ Len(requests) = 1 /\ Held(requests) = {q}
      /\ requests # << >> /\ requests[1] = q
  BY <1>2, <1>3, HeldOne
<1>5. S!TypeOK
  <2>1. method \in {"pat", "app", "only"} /\ stored \in S!Value
    BY <1>1 DEF S!Init, S!NoValue
  <2>2. acts \in 0..MaxActs /\ draft \in Drafts
    BY ActsAreBounded DEF S!Init, Drafts
  <2>3. QED BY <1>1, <1>4, <2>1, <2>2 DEF S!Init, S!TypeOK, Drafts
<1>6. q.kind = "load" /\ q.phase = "sent" /\ ~q.testing /\ q.value = S!NoValue
  BY DEF q
<1>7. RequestsFit
  BY <1>4, <1>6, ValuesOfTheStore DEF S!Init, RequestsFit, Fits, S!NoValue
<1>8. NoneIsRefused
  BY <1>4, <1>6 DEF NoneIsRefused
<1>9. SavingIsBusy
  <2>1. OneBusy(requests, FALSE)
    BY <1>4, <1>6 DEF OneBusy, Busy
  <2>2. QED BY <2>1 DEF SavingIsBusy, S!Init
<1>10. SavedIsLast
  BY <1>4, <1>6 DEF SavedIsLast, S!Init
<1>11. StoredIsGood
  <2>1. stored \in Good /\ \A m \in {"pat", "app", "only"} : draft[m] = Blank
    BY DEF S!Init, Good
  <2>2. Loads(requests)
    BY <1>4, <1>6 DEF Loads
  <2>3. QED BY <1>4, <1>6, <2>1, <2>2 DEF StoredIsGood
<1>12. StoreIsShown
  BY <1>4, <1>6 DEF StoreIsShown, Loads
<1>13. QED BY <1>5, <1>7, <1>8, <1>9, <1>10, <1>11, <1>12 DEF SettingsInv

\* What the six actions that send a save have in common.
Saves(v, test) ==
  /\ requests' = Append(requests, NewSave(v, test))
  /\ early' = (early \/ Loads(requests)) /\ dirty' = FALSE /\ last' = v
  /\ v \in S!Value /\ test \in BOOLEAN /\ acts' \in 0..MaxActs
  /\ draft' \in Drafts /\ typed \subseteq typed' /\ typed' \subseteq S!Value
  /\ saving' \in BOOLEAN
  /\ \/ at \notin Silent /\ ~test /\ ~saving /\ saving'
     \/ at = "notifications" /\ test /\ saving' = saving
     \/ at \in Silent /\ ~test /\ saving' = saving
  /\ IF at \in Credentials \cup {"state"} THEN message' = "none" ELSE message' = message
  /\ IF at = "state" THEN v = S!Old ELSE v = [of |-> method, value |-> draft'[method]]
  /\ \/ draft' = draft /\ typed' = typed
     \/ at = "approval" /\ v \in typed' /\ \A m \in {"pat", "app", "only"} : m # method => draft'[m] = draft[m]
  /\ at \in {"github", "infracost"} => draft[method] # Blank
  /\ UNCHANGED <<stored, shownStatus, method, savesCrossed, failed>>

LEMMA LoadsOfRequests ==
  ASSUME S!TypeOK PROVE Loads(requests) = \E i \in DOMAIN requests : requests[i].kind = "load"
BY DEF Loads, Held, S!TypeOK

LEMMA SaveActions ==
  ASSUME S!TypeOK,
         \/ \E v \in Values : S!ToggleApproval(v)
         \/ S!SaveCredentials \/ S!InitStateBackend \/ S!SaveNotifications \/ S!TestChannel \/ S!SaveDrift
  PROVE  \E v \in S!Value, test \in BOOLEAN : Saves(v, test)
<1>0. /\ draft \in Drafts /\ method \in {"pat", "app", "only"} /\ typed \subseteq S!Value
      /\ saving \in BOOLEAN /\ acts \in 0..MaxActs
  BY DEF S!TypeOK, Drafts
<1>1. S!Drafted \in S!Value /\ S!Drafted = [of |-> method, value |-> draft[method]]
  BY <1>0 DEF S!Drafted, S!Value, Drafts
<1>2. ASSUME NEW v, NEW test, S!SendSave(v, test)
      PROVE  /\ requests' = Append(requests, NewSave(v, test))
             /\ early' = (early \/ Loads(requests)) /\ dirty' = FALSE /\ last' = v /\ acts' \in 0..MaxActs
  <2>1. acts' \in 0..MaxActs
    BY <1>0, <1>2, ActsAreBounded DEF S!SendSave, S!Act
  <2>2. QED BY <1>2, <2>1, LoadsOfRequests DEF S!SendSave, S!Send, NewSave
<1>3. ASSUME NEW v \in Values, S!ToggleApproval(v) PROVE \E w \in S!Value, test \in BOOLEAN : Saves(w, test)
  <2> DEFINE w == [of |-> method, value |-> v]
  <2>1. w \in S!Value
    BY <1>0 DEF S!Value
  <2>2. draft' \in Drafts /\ draft'[method] = v /\ \A m \in {"pat", "app", "only"} : m # method => draft'[m] = draft[m]
    BY <1>0, <1>3 DEF S!ToggleApproval, Drafts
  <2>3. /\ at = "approval" /\ typed' = typed \cup {w} /\ S!SendSave(w, FALSE)
        /\ UNCHANGED <<stored, shownStatus, method, saving, message, savesCrossed, failed>>
    BY <1>3 DEF S!ToggleApproval
  <2>4. w = [of |-> method, value |-> draft'[method]]
    BY <2>2
  <2> HIDE DEF w
  <2>5. Saves(w, FALSE)
    BY <1>0, <1>2, <2>1, <2>2, <2>3, <2>4 DEF Saves, Silent, Credentials
  <2>6. QED BY <2>1, <2>5
<1>4. CASE S!SaveCredentials
  <2>1. Saves(S!Drafted, FALSE)
    BY <1>0, <1>1, <1>2, <1>4 DEF S!SaveCredentials, Saves, Silent, Credentials
  <2>2. QED BY <1>1, <2>1
<1>5. CASE S!InitStateBackend
  <2>1. Saves(S!Old, FALSE)
    BY <1>0, <1>2, <1>5, ValuesOfTheStore DEF S!InitStateBackend, Saves, Silent, Credentials
  <2>2. QED BY <2>1, ValuesOfTheStore
<1>6. CASE S!SaveNotifications
  <2>1. Saves(S!Drafted, FALSE)
    BY <1>0, <1>1, <1>2, <1>6 DEF S!SaveNotifications, Saves, Silent, Credentials
  <2>2. QED BY <1>1, <2>1
<1>7. CASE S!TestChannel
  <2>1. Saves(S!Drafted, TRUE)
    BY <1>0, <1>1, <1>2, <1>7 DEF S!TestChannel, Saves, Silent, Credentials
  <2>2. QED BY <1>1, <2>1
<1>8. CASE S!SaveDrift
  <2>1. Saves(S!Drafted, FALSE)
    BY <1>0, <1>1, <1>2, <1>8 DEF S!SaveDrift, Saves, Silent, Credentials
  <2>2. QED BY <1>1, <2>1
<1>9. QED BY <1>3, <1>4, <1>5, <1>6, <1>7, <1>8

\* A save that is sent is typed.
LEMMA ASaveIsARequest ==
  ASSUME NEW v \in S!Value, NEW test \in BOOLEAN
  PROVE  NewSave(v, test) \in S!Request
BY DEF NewSave, S!Request

\* What a request sent for an answer is.
Asked(p) == p.kind \in {"read", "test"} /\ p.phase = "sent" /\ Fits(p)

DraftIsGood ==
  IF at \in S!LoadsDraft THEN Loads(requests) \/ [of |-> "only", value |-> draft["only"]] \in Good
  ELSE \A m \in {"pat", "app", "only"} : draft[m] # Blank => [of |-> m, value |-> draft[m]] \in typed

PageIsRight ==
  /\ at \in S!WithStatus /\ requests = << >> => shownStatus = stored
  /\ at \in S!LoadsDraft => dirty \/ Loads(requests) \/ DraftIsOf(requests, stored, S!Drafted)

LEMMA NothingBeside ==
  ASSUME NEW s \in Seq(S!Request), Len(s) = 1, NEW i \in 1..Len(s) PROVE Beside(s, i) = {}
BY DEF Beside

LEMMA Taken ==
  ASSUME SettingsInv, at \in S!Forms, NEW i \in 1..Len(requests)
  PROVE  /\ Without(requests, i) \in Seq(S!Request)
         /\ Held(Without(requests, i)) = Beside(requests, i)
         /\ Held(requests) = Beside(requests, i) \cup {requests[i]}
         /\ requests[i] \in S!Request /\ Fits(requests[i])
         /\ at \notin Silent => OneBusy(Without(requests, i), saving /\ ~Busy(requests[i]))
<1>1. requests \in Seq(S!Request) /\ saving \in BOOLEAN
  BY DEF SettingsInv, S!TypeOK
<1>2. /\ Without(requests, i) \in Seq(S!Request)
      /\ Held(Without(requests, i)) = Beside(requests, i)
      /\ Held(requests) = Beside(requests, i) \cup {requests[i]}
  BY <1>1, HeldWithout
<1>3. requests[i] \in S!Request /\ Fits(requests[i])
  BY <1>1, <1>2 DEF SettingsInv, RequestsFit
<1>4. at \notin Silent => OneBusy(Without(requests, i), saving /\ ~Busy(requests[i]))
  BY <1>1, BusyWithout DEF SettingsInv, SavingIsBusy
<1>5. QED BY <1>2, <1>3, <1>4

\* An answer is taken, and perhaps a request sent for it.
LEMMA Answered ==
  ASSUME SettingsInv, at \in S!Forms, at' = at, NEW i \in 1..Len(requests), S!TypeOK',
         UNCHANGED <<stored, typed, last, dirty, early>>, failed => failed', savesCrossed => savesCrossed',
         \A p \in Held(requests') : p \in Beside(requests, i) \/ Asked(p),
         at # "github" => method' = "only",
         IF at \in Silent THEN ~saving' ELSE OneBusy(requests', saving'),
         at \in Credentials /\ message' = "saved" =>
           stored = last /\ \A p \in Held(requests') : p.kind # "save",
         early \/ failed' \/ DraftIsGood',
         early \/ failed' \/ savesCrossed' \/ PageIsRight'
  PROVE  SettingsInv'
<1>0. /\ Held(requests) = Beside(requests, i) \cup {requests[i]}
      /\ at' \in S!Forms /\ requests \in Seq(S!Request)
      /\ RequestsFit /\ NoneIsRefused /\ SavedIsLast /\ StoredIsGood /\ StoreIsShown
  BY Taken DEF SettingsInv, S!TypeOK, S!Forms
<1> DEFINE h == Held(requests')
<1>1. \A p \in h : (p \in Held(requests) /\ p \in Beside(requests, i)) \/ Asked(p)
  BY <1>0
<1> HIDE DEF h
<1>2. RequestsFit'
  <2>1. \A p \in h : Fits(p)
    BY <1>0, <1>1 DEF RequestsFit, Asked
  <2>2. \A p \in h : Fits(p)'
    BY <2>1 DEF Fits, Credentials
  <2>3. \A p \in Held(requests)' : Fits(p)'
    BY <2>2 DEF h, Held
  <2>4. QED BY <1>0, <2>3 DEF RequestsFit
<1>3. NoneIsRefused'
  <2>1. failed \/ \A p \in h : p.phase # "refused"
    BY <1>0, <1>1 DEF NoneIsRefused, Asked
  <2>2. QED BY <2>1 DEF NoneIsRefused, h, Held
<1>4. SavedIsLast'
  <2>1. ASSUME at \in Credentials, NEW p \in h, p.kind = "save"
        PROVE  p.value = last /\ message' # "saved" /\ (p.phase = "ok" => stored = last)
    <3>1. p \in Held(requests)
      BY <1>1, <2>1 DEF Asked
    <3>2. QED BY <1>0, <2>1, <3>1 DEF SavedIsLast, h
  <2>2. QED BY <2>1 DEF SavedIsLast, h, Held, Credentials
<1>5. Good' = Good
  BY DEF Good, S!Old, S!NoValue
<1>6. StoredIsGood'
  <2>1. early \/ failed' \/ (stored \in Good /\ \A p \in h : p.kind = "save" \/ (p.kind = "load" /\ p.phase = "ok") => p.value \in Good)
    BY <1>0, <1>1 DEF StoredIsGood, Asked
  <2>2. QED BY <1>5, <2>1 DEF StoredIsGood, DraftIsGood, h, Held, Loads
<1>7. StoreIsShown'
  <2>1. SUFFICES ASSUME ~early, ~failed', ~savesCrossed' PROVE StoreIsShown'
    BY DEF StoreIsShown
  <2>2. ~failed /\ ~savesCrossed
    BY <2>1
  <2>3. ~\E p \in h : p.kind = "load"
    <3>1. SUFFICES ASSUME NEW p \in h, p.kind = "load" PROVE FALSE
      OBVIOUS
    <3>2. p \in Beside(requests, i) /\ Loads(requests)
      BY <1>1, <3>1 DEF Asked, Loads
    <3>3. Len(requests) = 1
      BY <1>0, <2>1, <2>2, <3>2 DEF StoreIsShown
    <3>4. QED BY <1>0, <3>2, <3>3, NothingBeside
  <2>4. \A p \in h : p.phase = "ok" /\ (p.kind = "load" \/ (at \in S!WithStatus /\ p.kind \in {"read", "save"})) => p.value = stored
    BY <1>0, <1>1, <2>1, <2>2 DEF StoreIsShown, Asked
  <2>5. /\ ~Loads(requests)'
        /\ \A p \in Held(requests)' : p.phase = "ok" /\ (p.kind = "load" \/ (at' \in S!WithStatus' /\ p.kind \in {"read", "save"})) => p.value = stored'
    BY <2>3, <2>4 DEF Loads, h, Held, S!WithStatus
  <2>6. QED BY <2>1, <2>5 DEF StoreIsShown, PageIsRight
<1>8. SavingIsBusy'
  BY DEF SavingIsBusy, OneBusy, Held
<1>9. QED BY <1>0, <1>2, <1>3, <1>4, <1>6, <1>7, <1>8 DEF SettingsInv

\* The form takes what was loaded.
LEMMA LoadAnswered ==
  ASSUME SettingsInv, at \in S!Forms, at' = at, NEW i \in 1..Len(requests), S!OnLoad(i)
  PROVE  SettingsInv'
<1> DEFINE r == requests[i]
           w == Without(requests, i)
<1>1. /\ w \in Seq(S!Request) /\ Held(w) = Beside(requests, i)
      /\ Held(requests) = Beside(requests, i) \cup {r}
      /\ r \in S!Request /\ Fits(r)
      /\ at \notin Silent => OneBusy(w, saving /\ ~Busy(r))
  BY Taken
<1>2. /\ r.kind = "load" /\ r.phase = "ok" /\ requests' = w
      /\ method' = r.value.of
      /\ shownStatus' = (IF at \in S!WithStatus THEN r.value ELSE shownStatus)
      /\ draft' = (IF at \in S!LoadsDraft THEN [draft EXCEPT !["only"] = r.value.value] ELSE draft)
      /\ savesCrossed' = (savesCrossed \/ i # 1)
      /\ UNCHANGED <<stored, typed, last, dirty, early, acts, saving, message, failed>>
  BY DEF S!OnLoad, S!Done, Without, S!Without
<1> HIDE DEF r, w
<1>3. /\ r.value \in S!Value /\ r.value = [of |-> r.value.of, value |-> r.value.value]
      /\ r.value.of \in {"pat", "app", "only"} /\ r.value.value \in Values \cup {Blank}
  BY <1>1 DEF S!Request, S!Value
<1>4. S!TypeOK /\ RequestsFit /\ SavingIsBusy /\ SavedIsLast /\ StoredIsGood /\ StoreIsShown
  BY DEF SettingsInv
<1>5. S!TypeOK'
  <2>1. draft' \in [{"pat", "app", "only"} -> Values \cup {Blank}]
    BY <1>2, <1>3, <1>4 DEF S!TypeOK
  <2>2. savesCrossed' \in BOOLEAN /\ method' \in {"pat", "app", "only"} /\ shownStatus' \in S!Value
    BY <1>2, <1>3, <1>4 DEF S!TypeOK
  <2>3. QED BY <1>1, <1>2, <1>4, <2>1, <2>2 DEF S!TypeOK, S!Value, S!Request
<1>6. at # "github" => method' = "only"
  BY <1>1, <1>2 DEF Fits
<1>7. IF at \in Silent THEN ~saving' ELSE OneBusy(requests', saving')
  <2>1. saving' = (saving /\ ~Busy(r)) /\ saving \in BOOLEAN
    BY <1>2, <1>4 DEF S!TypeOK, Busy
  <2>2. QED BY <1>1, <1>2, <1>4, <2>1 DEF SavingIsBusy
<1>8. at \in Credentials /\ message' = "saved" => stored = last /\ \A p \in Held(requests') : p.kind # "save"
  BY <1>1, <1>2, <1>4 DEF SavedIsLast
<1>9. early \/ failed' \/ DraftIsGood'
  <2>1. Good' = Good /\ typed' = typed
    BY <1>2 DEF Good, S!Old, S!NoValue
  <2>2. CASE at \in S!LoadsDraft
    <3>1. at \notin {"github"}
      BY <2>2 DEF S!LoadsDraft
    <3>2. [of |-> "only", value |-> draft'["only"]] = r.value
      BY <1>2, <1>3, <1>4, <1>6, <2>2, <3>1 DEF S!TypeOK
    <3>3. early \/ failed \/ r.value \in Good
      BY <1>1, <1>2, <1>4 DEF StoredIsGood
    <3>4. QED BY <1>2, <2>1, <2>2, <3>2, <3>3 DEF DraftIsGood, S!LoadsDraft
  <2>3. CASE at \notin S!LoadsDraft
    BY <1>2, <1>4, <2>1, <2>3 DEF StoredIsGood, DraftIsGood, S!LoadsDraft
  <2>4. QED BY <2>2, <2>3
<1>10. early \/ failed' \/ savesCrossed' \/ PageIsRight'
  <2>1. SUFFICES ASSUME ~early, ~failed, ~savesCrossed PROVE PageIsRight'
    BY <1>2
  <2>2. Loads(requests)
    BY <1>1, <1>2 DEF Loads
  <2>3. Len(requests) = 1 /\ r.value = stored
    BY <1>1, <1>2, <1>4, <2>1, <2>2 DEF StoreIsShown
  <2>4. Held(w) = {}
    BY <1>1, <1>4, <2>3, NothingBeside DEF S!TypeOK
  <2>5. \A st : DraftIsOf(requests', st, st)
    BY <1>1, <1>2, <2>4, NothingUnderWay
  <2>6. at \in S!LoadsDraft => S!Drafted' = stored'
    <3>1. SUFFICES ASSUME at \in S!LoadsDraft PROVE S!Drafted' = stored'
      OBVIOUS
    <3>2. method' = "only" /\ r.value.of = "only"
      BY <1>2, <1>6, <3>1 DEF S!LoadsDraft
    <3>3. draft'["only"] = r.value.value
      BY <1>2, <1>4, <3>1 DEF S!TypeOK
    <3>4. QED BY <1>2, <1>3, <2>3, <3>2, <3>3 DEF S!Drafted
  <2>7. at' \in S!WithStatus' => shownStatus' = stored'
    BY <1>2, <2>3 DEF S!WithStatus
  <2>8. at' \in S!LoadsDraft' => DraftIsOf(requests', stored', S!Drafted')
    BY <2>5, <2>6 DEF S!LoadsDraft
  <2>9. QED BY <2>7, <2>8 DEF PageIsRight, DraftIsOf
<1>11. \A p \in Held(requests') : p \in Beside(requests, i)
  BY <1>1, <1>2
<1>12. QED BY <1>2, <1>5, <1>6, <1>7, <1>8, <1>9, <1>10, <1>11, Answered

\* An answer other than that of the load.
LEMMA AnswerTaken ==
  ASSUME SettingsInv, at \in S!Forms, at' = at, NEW i \in 1..Len(requests), S!Done(i),
         requests[i].kind # "load", requests[i].phase # "sent",
         \/ requests' = Without(requests, i)
         \/ \E q \in S!Request : Asked(q) /\ requests' = Append(Without(requests, i), q),
         \/ draft' = draft
         \/ at \notin S!LoadsDraft /\ draft' = [m \in DOMAIN draft |-> Blank],
         UNCHANGED <<method, failed>>, message' \in {"none", "saved", "tested", "error"},
         saving' \in BOOLEAN, shownStatus' \in S!Value,
         IF at \in Silent THEN ~saving' ELSE OneBusy(requests', saving'),
         at \in Credentials /\ message' = "saved" =>
           stored = last /\ \A p \in Held(requests') : p.kind # "save",
         early \/ failed \/ savesCrossed \/ (at \in S!WithStatus /\ requests' = << >> => shownStatus' = stored)
  PROVE  SettingsInv'
<1> DEFINE w == Without(requests, i)
           r == requests[i]
<1>1. /\ w \in Seq(S!Request) /\ Held(w) = Beside(requests, i)
      /\ Held(requests) = Beside(requests, i) \cup {r} /\ r \in S!Request
  BY Taken
<1>2. /\ r.kind # "load" /\ r.phase # "sent"
      /\ requests' = w \/ \E q \in S!Request : Asked(q) /\ requests' = Append(w, q)
      /\ savesCrossed' = (savesCrossed \/ i # 1)
      /\ UNCHANGED <<stored, typed, last, dirty, early, acts>>
  BY DEF S!Done
<1>3. S!TypeOK /\ RequestsFit /\ StoredIsGood /\ StoreIsShown
  BY DEF SettingsInv
<1>4. ~Unserved(r)
  BY <1>2 DEF Unserved
<1>5. ASSUME NEW d, DraftIsOf(requests, stored, d) PROVE DraftIsOf(requests', stored, d)
  <2>1. DraftIsOf(w, stored, d)
    BY <1>3, <1>4, <1>5, DraftWithout DEF S!TypeOK
  <2> HIDE DEF w
  <2>2. ASSUME NEW q \in S!Request, Asked(q) PROVE DraftIsOf(Append(w, q), stored, d)
    <3>1. ~Unserved(q)
      BY <2>2 DEF Asked, Unserved
    <3>2. QED BY <1>1, <2>1, <3>1, DraftAfterAppend
  <2>3. QED BY <1>2, <2>1, <2>2
<1> HIDE DEF w, r
<1>6. requests' \in Seq(S!Request) /\ \A p \in Held(requests') : p \in Beside(requests, i) \/ Asked(p)
  <2>1. ASSUME NEW q \in S!Request PROVE Append(w, q) \in Seq(S!Request) /\ Held(Append(w, q)) = Held(w) \cup {q}
    BY <1>1, HeldAfterAppend
  <2>2. CASE requests' = w
    BY <1>1, <2>2
  <2>3. ASSUME NEW q \in S!Request, Asked(q), requests' = Append(w, q)
        PROVE  requests' \in Seq(S!Request) /\ \A p \in Held(requests') : p \in Beside(requests, i) \/ Asked(p)
    <3>1. Held(requests') = Beside(requests, i) \cup {q}
      BY <1>1, <2>1, <2>3
    <3>2. QED BY <2>1, <2>3, <3>1
  <2>4. QED BY <1>2, <2>2, <2>3
<1>7. Beside(requests, i) \subseteq Held(requests')
  <2>1. CASE requests' = w
    BY <1>1, <2>1
  <2>2. ASSUME NEW q \in S!Request, requests' = Append(w, q) PROVE Held(requests') = Held(w) \cup {q}
    BY <1>1, <2>2, HeldAfterAppend
  <2>3. QED BY <1>1, <1>2, <2>1, <2>2
<1>8. draft' \in Drafts
  BY <1>3 DEF S!TypeOK, Drafts
<1>9. S!TypeOK'
  <2>1. savesCrossed' \in BOOLEAN /\ stored' \in S!Value /\ typed' \subseteq S!Value /\ last' \in S!Value
    BY <1>2, <1>3 DEF S!TypeOK
  <2>2. method' \in {"pat", "app", "only"} /\ acts' \in 0..MaxActs /\ dirty' \in BOOLEAN /\ early' \in BOOLEAN /\ failed' \in BOOLEAN
    BY <1>2, <1>3 DEF S!TypeOK
  <2>3. QED BY <1>6, <1>8, <2>1, <2>2 DEF S!TypeOK, S!Value, S!Request, Drafts
<1>10. Loads(requests) => Loads(requests')
  BY <1>1, <1>2, <1>7 DEF Loads
<1>11. early \/ failed' \/ DraftIsGood'
  <2>1. SUFFICES ASSUME ~early, ~failed PROVE DraftIsGood'
    BY <1>3 DEF S!TypeOK
  <2>2. Good' = Good /\ typed' = typed
    BY <1>2 DEF Good, S!Old, S!NoValue
  <2>3. CASE at \in S!LoadsDraft
    <3>1. draft' = draft /\ (Loads(requests) \/ [of |-> "only", value |-> draft["only"]] \in Good)
      BY <1>3, <2>1, <2>3 DEF StoredIsGood
    <3>2. QED BY <1>10, <2>2, <2>3, <3>1 DEF DraftIsGood, Loads, Held, S!LoadsDraft
  <2>4. CASE at \notin S!LoadsDraft
    <3>1. \A m \in {"pat", "app", "only"} : draft[m] # Blank => [of |-> m, value |-> draft[m]] \in typed
      BY <1>3, <2>1, <2>4 DEF StoredIsGood
    <3>2. \A m \in {"pat", "app", "only"} : draft'[m] = draft[m] \/ draft'[m] = Blank
      BY <1>3 DEF S!TypeOK
    <3>3. QED BY <2>2, <2>4, <3>1, <3>2 DEF DraftIsGood, S!LoadsDraft
  <2>5. QED BY <2>3, <2>4
<1>12. early \/ failed' \/ savesCrossed' \/ PageIsRight'
  <2>1. SUFFICES ASSUME ~early, ~failed, ~savesCrossed PROVE PageIsRight'
    BY <1>2, <1>3 DEF S!TypeOK
  <2>2. at \in S!LoadsDraft => draft' = draft /\ (dirty \/ Loads(requests) \/ DraftIsOf(requests, stored, S!Drafted))
    BY <1>3, <2>1 DEF StoreIsShown
  <2>3. at \in S!LoadsDraft => S!Drafted' = S!Drafted
    BY <2>2 DEF S!Drafted
  <2>4. at \in S!LoadsDraft => dirty \/ Loads(requests') \/ DraftIsOf(requests', stored, S!Drafted')
    BY <1>5, <1>10, <2>2, <2>3
  <2>5. at \in S!WithStatus /\ requests' = << >> => shownStatus' = stored
    BY <2>1
  <2>6. QED BY <1>2, <2>4, <2>5 DEF PageIsRight, DraftIsOf, Loads, Held, S!WithStatus, S!LoadsDraft
<1>13. at # "github" => method' = "only"
  BY <1>3 DEF RequestsFit
<1>14. QED BY <1>2, <1>6, <1>9, <1>11, <1>12, <1>13, Answered

\* The status is read again after a save, a test tells its end, an initialisation sends what
\* it found.
LEMMA StatusAnswered ==
  ASSUME SettingsInv, at \in S!Forms, at' = at, NEW i \in 1..Len(requests), S!OnStatus(i)
  PROVE  SettingsInv'
<1> DEFINE r == requests[i]
           w == Without(requests, i)
<1>1. /\ w \in Seq(S!Request) /\ Held(w) = Beside(requests, i)
      /\ Held(requests) = Beside(requests, i) \cup {r} /\ r \in S!Request /\ Fits(r)
      /\ at \notin Silent => OneBusy(w, saving /\ ~Busy(r))
  BY Taken
<1>2. /\ r.kind = "read" /\ r.phase = "ok" /\ requests' = w /\ shownStatus' = r.value
      /\ saving' = FALSE /\ S!Done(i) /\ UNCHANGED <<draft, method, message, failed>>
  BY DEF S!OnStatus, Without, S!Without
<1> HIDE DEF w, r
<1>3. S!TypeOK /\ SavingIsBusy /\ SavedIsLast /\ StoreIsShown
  BY DEF SettingsInv
<1>4. at \in Credentials /\ Busy(r) /\ at \notin Silent
  BY <1>1, <1>2 DEF Fits, Busy, Credentials, Silent
<1>5. OneBusy(requests', saving')
  <2>1. saving' = (saving /\ ~Busy(r))
    BY <1>2, <1>4
  <2>2. QED BY <1>1, <1>2, <1>4, <2>1
<1>6. message' = "saved" => stored = last /\ \A p \in Held(requests') : p.kind # "save"
  BY <1>1, <1>2, <1>3, <1>4 DEF SavedIsLast
<1>7. early \/ failed \/ savesCrossed \/ (at \in S!WithStatus => shownStatus' = stored)
  BY <1>1, <1>2, <1>3 DEF StoreIsShown
<1>8. shownStatus' \in S!Value /\ message' \in {"none", "saved", "tested", "error"} /\ saving' \in BOOLEAN
  BY <1>1, <1>2, <1>3 DEF S!TypeOK, S!Request
<1>9. requests[i].kind # "load" /\ requests[i].phase # "sent" /\ requests' = Without(requests, i)
  BY <1>2 DEF r, w
<1>10. QED BY <1>2, <1>4, <1>5, <1>6, <1>7, <1>8, <1>9, AnswerTaken

LEMMA StateInitAnswered ==
  ASSUME SettingsInv, at \in S!Forms, at' = at, NEW i \in 1..Len(requests), S!OnStateInit(i)
  PROVE  SettingsInv'
<1> DEFINE r == requests[i]
           w == Without(requests, i)
<1>1. /\ w \in Seq(S!Request) /\ Held(w) = Beside(requests, i)
      /\ Held(requests) = Beside(requests, i) \cup {r} /\ r \in S!Request /\ Fits(r)
      /\ at \notin Silent => OneBusy(w, saving /\ ~Busy(r))
  BY Taken
<1>2. /\ at = "state" /\ r.kind = "save" /\ r.phase # "sent" /\ requests' = w
      /\ r.phase = "ok" => shownStatus' = r.value
      /\ shownStatus' \in {shownStatus, r.value} /\ message' \in {message, "error"}
      /\ saving' = FALSE /\ S!Done(i) /\ UNCHANGED <<draft, method, failed>>
  BY DEF S!OnStateInit, Without, S!Without
<1> HIDE DEF w, r
<1>3. S!TypeOK /\ NoneIsRefused /\ StoreIsShown
  BY DEF SettingsInv
<1>4. at \notin Credentials /\ Busy(r) /\ at \notin Silent
  BY <1>1, <1>2 DEF Fits, Busy, Credentials, Silent
<1>5. OneBusy(requests', saving')
  <2>1. saving' = (saving /\ ~Busy(r))
    BY <1>2, <1>4
  <2>2. QED BY <1>1, <1>2, <1>4, <2>1
<1>6. early \/ failed \/ savesCrossed \/ shownStatus' = stored
  <2>1. failed \/ r.phase = "ok"
    BY <1>1, <1>2, <1>3 DEF NoneIsRefused, S!Request
  <2>2. QED BY <1>1, <1>2, <1>3, <2>1 DEF StoreIsShown, S!WithStatus
<1>7. shownStatus' \in S!Value /\ message' \in {"none", "saved", "tested", "error"} /\ saving' \in BOOLEAN
  BY <1>1, <1>2, <1>3 DEF S!TypeOK, S!Request
<1>8. requests[i].kind # "load" /\ requests[i].phase # "sent" /\ requests' = Without(requests, i)
  BY <1>2 DEF r, w
<1>9. QED BY <1>2, <1>4, <1>5, <1>6, <1>7, <1>8, AnswerTaken

LEMMA CredentialsAnswered ==
  ASSUME SettingsInv, at \in S!Forms, at' = at, NEW i \in 1..Len(requests), S!OnCredentials(i)
  PROVE  SettingsInv'
<1> DEFINE r == requests[i]
           w == Without(requests, i)
           q == [r EXCEPT !.kind = "read", !.phase = "sent"]
<1>1. /\ w \in Seq(S!Request) /\ Held(w) = Beside(requests, i)
      /\ Held(requests) = Beside(requests, i) \cup {r} /\ r \in S!Request /\ Fits(r)
      /\ at \notin Silent => OneBusy(w, saving /\ ~Busy(r))
  BY Taken
<1>2. /\ at \in Credentials /\ r.kind = "save" /\ r.phase # "sent"
      /\ \/ /\ r.phase = "ok" /\ message' = "saved" /\ saving' = saving /\ requests' = Append(w, q)
            /\ draft' = (IF at = "aws" THEN draft ELSE [m \in DOMAIN draft |-> Blank])
         \/ /\ r.phase # "ok" /\ message' = "error" /\ saving' = FALSE /\ requests' = w /\ draft' = draft
      /\ S!Done(i) /\ UNCHANGED <<shownStatus, method, failed>>
  BY DEF S!OnCredentials, Without, S!Without, Credentials
<1>3. S!TypeOK /\ SavingIsBusy /\ SavedIsLast /\ NoneIsRefused
  BY DEF SettingsInv
<1>4. at \notin Silent /\ ~r.testing /\ Busy(r) /\ at # "notifications"
  BY <1>1, <1>2 DEF Fits, Busy, Credentials, Silent
<1>5. q \in S!Request /\ Asked(q) /\ Busy(q)
  BY <1>1, <1>2, <1>4 DEF S!Request, Asked, Fits, Busy
<1> HIDE DEF w, r, q
<1>6. saving /\ \A p \in Beside(requests, i) : ~Busy(p)
  <2>1. requests \in Seq(S!Request) /\ saving \in BOOLEAN /\ OneBusy(requests, saving) /\ Busy(requests[i])
    BY <1>3, <1>4 DEF S!TypeOK, SavingIsBusy, r
  <2>2. QED BY <2>1, NoSaveIsBusy
<1>7. requests' = Append(w, q) => Held(requests') = Beside(requests, i) \cup {q}
  BY <1>1, <1>5, HeldAfterAppend
<1>8. OneBusy(requests', saving')
  <2>1. OneBusy(w, FALSE)
    <3>1. (saving /\ ~Busy(r)) = FALSE
      BY <1>4
    <3>2. QED BY <1>1, <1>4, <3>1
  <2>2. CASE saving' = FALSE /\ requests' = w
    BY <2>1, <2>2
  <2>3. CASE saving' = saving /\ requests' = Append(w, q)
    <3>1. OneBusy(Append(w, q), FALSE \/ Busy(q))
      BY <1>1, <1>5, <2>1, BusyAfterAppend
    <3>2. saving' = (FALSE \/ Busy(q))
      BY <1>5, <1>6, <2>3, <1>3 DEF S!TypeOK, Busy
    <3>3. QED BY <2>3, <3>1, <3>2
  <2>4. QED BY <1>2, <2>2, <2>3
<1>9. message' = "saved" => stored = last /\ \A p \in Held(requests') : p.kind # "save"
  <2>1. SUFFICES ASSUME message' = "saved" PROVE stored = last /\ \A p \in Held(requests') : p.kind # "save"
    OBVIOUS
  <2>2. r.phase = "ok" /\ requests' = Append(w, q)
    BY <1>2, <2>1
  <2>3. stored = last
    BY <1>1, <1>2, <1>3, <2>2 DEF SavedIsLast
  <2>4. \A p \in Beside(requests, i) : p.kind # "save"
    <3>1. \A p \in Beside(requests, i) : Fits(p)
      BY <1>1 DEF SettingsInv, RequestsFit
    <3>2. QED BY <1>4, <1>6, <3>1 DEF Busy, Fits
  <2>5. QED BY <1>5, <1>7, <2>2, <2>3, <2>4 DEF Asked
<1>10. early \/ failed \/ savesCrossed \/ requests' # << >>
  <2>1. failed \/ r.phase = "ok"
    BY <1>1, <1>2, <1>3 DEF NoneIsRefused, S!Request
  <2>2. Append(w, q) # << >>
    BY <1>1, <1>5, HeldAfterAppend
  <2>3. QED BY <1>2, <2>1, <2>2
<1>11. shownStatus' \in S!Value /\ message' \in {"none", "saved", "tested", "error"} /\ saving' \in BOOLEAN
  BY <1>2, <1>3 DEF S!TypeOK
<1>12. draft' = draft \/ (at \notin S!LoadsDraft /\ draft' = [m \in DOMAIN draft |-> Blank])
  BY <1>2 DEF S!LoadsDraft, Credentials
<1>13. requests' = w \/ \E p \in S!Request : Asked(p) /\ requests' = Append(w, p)
  BY <1>2, <1>5
<1>14. requests[i].kind # "load" /\ requests[i].phase # "sent"
  BY <1>2 DEF r
<1> USE DEF w
<1>15. QED BY <1>2, <1>4, <1>8, <1>9, <1>10, <1>11, <1>12, <1>13, <1>14, AnswerTaken

LEMMA NotificationsAnswered ==
  ASSUME SettingsInv, at \in S!Forms, at' = at, NEW i \in 1..Len(requests),
         S!OnNotifications(i) \/ S!OnTested(i) \/ S!OnSaved(i)
  PROVE  SettingsInv'
<1> DEFINE r == requests[i]
           w == Without(requests, i)
           q == [r EXCEPT !.kind = "test", !.phase = "sent"]
<1>1. /\ w \in Seq(S!Request) /\ Held(w) = Beside(requests, i)
      /\ Held(requests) = Beside(requests, i) \cup {r} /\ r \in S!Request /\ Fits(r)
      /\ at \notin Silent => OneBusy(w, saving /\ ~Busy(r))
  BY Taken
<1>2. /\ r.kind # "load" /\ r.phase # "sent" /\ message' \in {message, "saved", "tested", "error"}
      /\ \/ at = "notifications" /\ r.kind = "save" /\ r.testing /\ requests' = Append(w, q) /\ saving' = saving
         \/ at = "notifications" /\ r.kind = "save" /\ ~r.testing /\ requests' = w /\ saving' = FALSE
         \/ r.kind = "test" /\ requests' = w /\ saving' = saving
         \/ at \in Silent /\ requests' = w /\ saving' = saving
      /\ S!Done(i) /\ UNCHANGED <<shownStatus, draft, method, failed>>
  BY DEF S!OnNotifications, S!OnTested, S!OnSaved, Without, S!Without, Silent
<1>3. S!TypeOK /\ SavingIsBusy
  BY DEF SettingsInv
<1>4. at \in Silent \cup {"notifications"} /\ at \notin Credentials \cup S!WithStatus
  BY <1>1, <1>2 DEF Fits, Silent, Credentials, S!WithStatus
<1>5. r.testing /\ at = "notifications" => q \in S!Request /\ Asked(q) /\ ~Busy(q)
  BY <1>1, <1>2, <1>4 DEF S!Request, Asked, Fits, Busy, Credentials
<1>6. r.kind = "test" => ~Busy(r) /\ at \notin Silent
  BY <1>1 DEF Busy, Fits, Silent
<1>7. r.testing => ~Busy(r)
  BY DEF Busy
<1>8. r.kind = "save" /\ ~r.testing => Busy(r)
  BY DEF Busy
<1> HIDE DEF w, r, q
<1>9. saving \in BOOLEAN /\ saving' \in BOOLEAN
  BY <1>2, <1>3 DEF S!TypeOK
<1>10. IF at \in Silent THEN ~saving' ELSE OneBusy(requests', saving')
  <2>1. CASE at = "notifications" /\ r.kind = "save" /\ r.testing /\ requests' = Append(w, q) /\ saving' = saving
    <3>1. OneBusy(w, saving)
      <4>1. (saving /\ ~Busy(r)) = saving
        BY <1>7, <1>9, <2>1
      <4>2. QED BY <1>1, <2>1, <4>1 DEF Silent
    <3>2. OneBusy(Append(w, q), saving \/ Busy(q))
      BY <1>1, <1>5, <1>9, <2>1, <3>1, BusyAfterAppend
    <3>3. (saving \/ Busy(q)) = saving
      BY <1>5, <1>9, <2>1
    <3>4. QED BY <2>1, <3>2, <3>3 DEF Silent
  <2>2. CASE at = "notifications" /\ r.kind = "save" /\ ~r.testing /\ requests' = w /\ saving' = FALSE
    <3>1. (saving /\ ~Busy(r)) = FALSE
      BY <1>8, <1>9, <2>2
    <3>2. QED BY <1>1, <2>2, <3>1 DEF Silent
  <2>3. CASE r.kind = "test" /\ requests' = w /\ saving' = saving
    <3>1. (saving /\ ~Busy(r)) = saving
      BY <1>6, <1>9, <2>3
    <3>2. QED BY <1>1, <1>6, <2>3, <3>1
  <2>4. CASE at \in Silent /\ requests' = w /\ saving' = saving
    BY <1>3, <2>4 DEF SavingIsBusy
  <2>5. QED BY <1>2, <2>1, <2>2, <2>3, <2>4
<1>11. shownStatus' \in S!Value /\ message' \in {"none", "saved", "tested", "error"}
  BY <1>2, <1>3 DEF S!TypeOK
<1>12. requests' = w \/ \E p \in S!Request : Asked(p) /\ requests' = Append(w, p)
  BY <1>2, <1>5
<1>13. requests[i].kind # "load" /\ requests[i].phase # "sent"
  BY <1>2 DEF r
<1> USE DEF w
<1>14. QED BY <1>2, <1>4, <1>9, <1>10, <1>11, <1>12, <1>13, AnswerTaken

\* An answer that is lost, or refused, is an exception the form may show.
LEMMA AnswerLost ==
  ASSUME SettingsInv, at \in S!Forms, at' = at, NEW i \in 1..Len(requests), S!OnLost(i)
  PROVE  SettingsInv'
<1> DEFINE r == requests[i]
           w == Without(requests, i)
<1>1. /\ w \in Seq(S!Request) /\ Held(w) = Beside(requests, i)
      /\ Held(requests) = Beside(requests, i) \cup {r} /\ r \in S!Request /\ Fits(r)
      /\ at \notin Silent => OneBusy(w, saving /\ ~Busy(r))
  BY Taken
<1>2. /\ requests' = w /\ failed' = TRUE
      /\ IF r.kind = "load" \/ at \in Silent THEN message' = message /\ saving' = saving
         ELSE message' = "error" /\ saving' = (saving /\ (r.testing \/ r.kind = "test"))
      /\ S!Done(i) /\ UNCHANGED <<shownStatus, draft, method>>
  BY DEF S!OnLost, Without, S!Without, Silent
<1>3. S!TypeOK /\ SavingIsBusy /\ RequestsFit /\ SavedIsLast
  BY DEF SettingsInv
<1>4. Busy(r) = (r.kind # "load" /\ ~(r.testing \/ r.kind = "test"))
  BY <1>1 DEF Busy, S!Request
<1> HIDE DEF w, r
<1>5. saving \in BOOLEAN /\ saving' \in BOOLEAN
  BY <1>2, <1>3 DEF S!TypeOK
<1>6. IF at \in Silent THEN ~saving' ELSE OneBusy(requests', saving')
  <2>1. CASE at \in Silent
    BY <1>2, <1>3, <2>1 DEF SavingIsBusy
  <2>2. CASE at \notin Silent
    <3>1. saving' = (saving /\ ~Busy(r))
      BY <1>1, <1>2, <1>4, <1>5, <2>2 DEF S!Request
    <3>2. QED BY <1>1, <1>2, <2>2, <3>1
  <2>3. QED BY <2>1, <2>2
<1>7. S!TypeOK'
  <2>1. savesCrossed' \in BOOLEAN /\ message' \in {"none", "saved", "tested", "error"}
    BY <1>2, <1>3 DEF S!TypeOK, S!Done
  <2>2. QED BY <1>1, <1>2, <1>3, <1>5, <2>1 DEF S!TypeOK, S!Value, S!Request, S!Done
<1>8. at \in Credentials /\ message' = "saved" => stored = last /\ \A p \in Held(requests') : p.kind # "save"
  BY <1>1, <1>2, <1>3 DEF SavedIsLast
<1>9. at # "github" => method' = "only"
  BY <1>2, <1>3 DEF RequestsFit
<1>10. UNCHANGED <<stored, typed, last, dirty, early>> /\ failed' /\ (savesCrossed => savesCrossed')
  BY <1>2 DEF S!Done
<1>11. \A p \in Held(requests') : p \in Beside(requests, i) \/ Asked(p)
  BY <1>1, <1>2
<1>12. QED BY <1>6, <1>7, <1>8, <1>9, <1>10, <1>11, Answered

LEMMA ServedRequest ==
  ASSUME NEW r \in S!Request, NEW v
  PROVE  /\ [r EXCEPT !.phase = "ok", !.value = v]
              = [kind |-> r.kind, testing |-> r.testing, phase |-> "ok", value |-> v]
         /\ [r EXCEPT !.phase = "refused"]
              = [kind |-> r.kind, testing |-> r.testing, phase |-> "refused", value |-> r.value]
<1> DEFINE t == [r EXCEPT !.phase = "ok"]
<1>1. r = [kind |-> r.kind, value |-> r.value, testing |-> r.testing, phase |-> r.phase]
  BY DEF S!Request
<1>2. t = [kind |-> r.kind, testing |-> r.testing, phase |-> "ok", value |-> r.value]
  BY <1>1
<1>3. [r EXCEPT !.phase = "refused"]
        = [kind |-> r.kind, testing |-> r.testing, phase |-> "refused", value |-> r.value]
  BY <1>1
<1> HIDE DEF t
<1>4. t.kind = r.kind /\ t.testing = r.testing /\ t.phase = "ok"
      /\ t = [kind |-> t.kind, testing |-> t.testing, phase |-> t.phase, value |-> t.value]
  BY <1>2
<1>5. [t EXCEPT !.value = v] = [kind |-> t.kind, testing |-> t.testing, phase |-> t.phase, value |-> v]
  BY <1>4
<1>6. [t EXCEPT !.value = v] = [kind |-> r.kind, testing |-> r.testing, phase |-> "ok", value |-> v]
  BY <1>4, <1>5
<1>7. QED BY <1>3, <1>6 DEF t

\* The server stores, reads or refuses.
LEMMA RequestServed ==
  ASSUME SettingsInv, at \in S!Forms, at' = at, NEW i \in 1..Len(requests), S!Serve(i)
  PROVE  SettingsInv'
<1> DEFINE r == requests[i]
<1>0. S!TypeOK /\ RequestsFit /\ NoneIsRefused /\ SavingIsBusy /\ SavedIsLast /\ StoredIsGood /\ StoreIsShown
  BY DEF SettingsInv
<1>1. requests \in Seq(S!Request) /\ Len(requests) \in Nat /\ r \in S!Request /\ r.phase = "sent"
  BY <1>0 DEF S!TypeOK, S!Serve
<1> DEFINE ok == [kind |-> r.kind, testing |-> r.testing, phase |-> "ok",
                  value |-> IF r.kind \in {"load", "read"} THEN stored ELSE r.value]
           refused == [kind |-> r.kind, testing |-> r.testing, phase |-> "refused", value |-> r.value]
<1>2. PICK a \in {ok, refused} :
        /\ requests' = [requests EXCEPT ![i] = a]
        /\ \/ /\ a = ok /\ failed' = failed /\ stored' = IF r.kind = "save" THEN r.value ELSE stored
           \/ /\ a = refused /\ failed' = TRUE /\ stored' = stored /\ r.kind \in {"save", "test"}
  <2>1. ok = [r EXCEPT !.phase = "ok", !.value = IF r.kind \in {"load", "read"} THEN stored ELSE @]
    BY <1>1, ServedRequest
  <2>2. refused = [r EXCEPT !.phase = "refused"]
    BY <1>1, ServedRequest
  <2>3. CASE /\ stored' = (IF r.kind = "save" THEN r.value ELSE stored) /\ failed' = failed
             /\ requests' = [requests EXCEPT ![i].phase = "ok",
                                             ![i].value = IF r.kind \in {"load", "read"} THEN stored ELSE @]
    <3>1. requests' = [requests EXCEPT ![i] = ok]
      BY <1>1, <2>1, <2>3
    <3> HIDE DEF ok, refused
    <3>2. QED BY <2>3, <3>1
  <2>4. CASE /\ r.kind \in {"save", "test"} /\ requests' = [requests EXCEPT ![i].phase = "refused"]
             /\ failed' = TRUE /\ stored' = stored
    <3>1. requests' = [requests EXCEPT ![i] = refused]
      BY <2>2, <2>4
    <3> HIDE DEF ok, refused
    <3>2. QED BY <2>4, <3>1
  <2>5. QED BY <2>3, <2>4 DEF S!Serve
<1>3. a \in S!Request /\ a.kind = r.kind /\ a.testing = r.testing /\ a.phase # "sent"
  BY <1>0, <1>1 DEF S!Request, S!TypeOK
<1>4. /\ a.phase = "refused" => failed' = TRUE
      /\ a.value = IF r.kind \in {"load", "read"} THEN stored ELSE r.value
      /\ \/ a.phase = "ok" /\ failed' = failed /\ stored' = IF r.kind = "save" THEN r.value ELSE stored
         \/ a.phase = "refused" /\ failed' = TRUE /\ stored' = stored /\ r.kind \in {"save", "test"}
  BY <1>2
<1>5. /\ savesCrossed' = (savesCrossed \/ \E j \in 1..(i - 1) : requests[j].phase = "sent")
      /\ UNCHANGED <<shownStatus, draft, method, saving, message, typed, last, dirty, early, acts>>
  BY DEF S!Serve
<1>6. /\ requests' \in Seq(S!Request) /\ Len(requests') = Len(requests)
      /\ Held(requests') = Beside(requests, i) \cup {a}
      /\ Held(requests) = Beside(requests, i) \cup {r}
  <2> HIDE DEF ok, refused
  <2> DEFINE next == [requests EXCEPT ![i] = a]
  <2>1. requests \in Seq(S!Request) /\ a \in S!Request
    BY <1>1, <1>3
  <2>2. next \in Seq(S!Request) /\ Len(next) = Len(requests)
    BY <2>1, ExceptSeq
  <2>3. Held(next) = Beside(requests, i) \cup {a} /\ Held(requests) = Beside(requests, i) \cup {requests[i]}
    BY <2>1, HeldAfterExcept
  <2>4. requests' = next
    BY <1>2
  <2> HIDE DEF next
  <2>5. QED BY <2>2, <2>3, <2>4
<1> DEFINE h == Held(requests')
<1> HIDE DEF r, ok, refused, h
<1>a. savesCrossed \in BOOLEAN /\ failed \in BOOLEAN
  BY <1>0 DEF S!TypeOK
<1>d. Len(requests) \in Nat /\ i \in Nat
  BY <1>1
<1>b. ~savesCrossed' => ~savesCrossed /\ \A j \in 1..(i - 1) : requests[j].phase # "sent"
  BY <1>5, <1>a
<1>c. ~failed' => ~failed
  BY <1>4, <1>a
<1>7. S!TypeOK'
  <2>1. savesCrossed' \in BOOLEAN /\ failed' \in BOOLEAN
    BY <1>0, <1>4, <1>5 DEF S!TypeOK
  <2>2. stored' \in S!Value
    BY <1>0, <1>1, <1>4 DEF S!TypeOK, S!Request
  <2>3. QED BY <1>0, <1>5, <1>6, <2>1, <2>2 DEF S!TypeOK, S!Value, S!Request
<1>8. RequestsFit'
  <2>1. Fits(r) /\ (at # "github" => stored.of = "only")
    BY <1>0, <1>6 DEF RequestsFit
  <2>2. Fits(a) /\ (at # "github" => stored'.of = "only")
    BY <1>3, <1>4, <2>1 DEF Fits
  <2>3. \A p \in h : Fits(p)
    BY <1>0, <1>6, <2>2 DEF RequestsFit, h
  <2>4. \A p \in h : Fits(p)'
    BY <2>3 DEF Fits, Credentials
  <2>5. QED BY <1>0, <1>5, <2>2, <2>4 DEF RequestsFit, h, Held
<1>9. NoneIsRefused'
  <2>1. failed' \/ \A p \in h : p.phase # "refused"
    BY <1>0, <1>4, <1>6 DEF NoneIsRefused, h
  <2>2. QED BY <2>1 DEF NoneIsRefused, h, Held
<1>10. SavingIsBusy'
  <2>1. CASE at \in Silent
    BY <1>0, <1>5, <2>1 DEF SavingIsBusy, Silent
  <2>2. CASE at \notin Silent
    <3>1. Busy(a) = Busy(requests[i])
      BY <1>3 DEF Busy, r
    <3>2. saving \in BOOLEAN /\ OneBusy(requests, saving)
      BY <1>0, <2>2 DEF SavingIsBusy, S!TypeOK
    <3>3. OneBusy(requests', saving)
      BY <1>1, <1>2, <1>3, <3>1, <3>2, BusyAfterExcept
    <3>4. QED BY <1>5, <2>2, <3>3 DEF SavingIsBusy, Silent, OneBusy, Held
  <2>3. QED BY <2>1, <2>2
<1>11. SavedIsLast'
  <2>1. SUFFICES ASSUME at \in Credentials PROVE SavedIsLast'
    BY DEF SavedIsLast, Credentials
  <2>2. message = "saved" => r.kind # "save" /\ stored' = last
    BY <1>0, <1>4, <1>6, <2>1 DEF SavedIsLast
  <2>3. ASSUME NEW p \in h, p.kind = "save"
        PROVE  p.value = last /\ message # "saved" /\ (p.phase = "ok" => stored' = last)
    <3>1. CASE p = a
      BY <1>0, <1>3, <1>4, <1>6, <2>1, <2>3, <3>1 DEF SavedIsLast
    <3>2. CASE p \in Beside(requests, i)
      <4>1. p.value = last /\ message # "saved" /\ (p.phase = "ok" => stored = last)
        BY <1>0, <1>6, <2>1, <2>3, <3>2 DEF SavedIsLast
      <4>2. r.kind = "save" => r.value = last
        BY <1>0, <1>6, <2>1 DEF SavedIsLast
      <4>3. QED BY <1>4, <4>1, <4>2
    <3>3. QED BY <1>6, <2>3, <3>1, <3>2 DEF h
  <2>4. QED BY <1>5, <2>2, <2>3 DEF SavedIsLast, h, Held
<1>12. StoredIsGood'
  <2>1. SUFFICES ASSUME ~early, ~failed' PROVE StoredIsGood'
    BY <1>5 DEF StoredIsGood
  <2>2. ~failed
    BY <1>4, <2>1
  <2>3. /\ stored \in Good /\ \A p \in Held(requests) : p.kind = "save" \/ (p.kind = "load" /\ p.phase = "ok") => p.value \in Good
        /\ DraftIsGood
    BY <1>0, <2>1, <2>2 DEF StoredIsGood, DraftIsGood
  <2>4. stored' \in Good /\ (a.kind \in {"save", "load"} => a.value \in Good)
    BY <1>3, <1>4, <1>6, <2>3
  <2>5. \A p \in h : p.kind = "save" \/ (p.kind = "load" /\ p.phase = "ok") => p.value \in Good
    BY <1>6, <2>3, <2>4 DEF h
  <2>6. Loads(requests) = Loads(requests')
    BY <1>3, <1>6 DEF Loads
  <2>7. Good' = Good
    BY <1>5 DEF Good, S!Old, S!NoValue
  <2>8. QED BY <1>5, <2>3, <2>4, <2>5, <2>6, <2>7 DEF StoredIsGood, DraftIsGood, h, Held, Loads, S!LoadsDraft
<1>13. StoreIsShown'
  <2>1. SUFFICES ASSUME ~early, ~failed', ~savesCrossed' PROVE StoreIsShown'
    BY <1>5 DEF StoreIsShown
  <2>2. ~failed /\ ~savesCrossed /\ a.phase = "ok" /\ stored' = IF r.kind = "save" THEN r.value ELSE stored
    BY <1>4, <1>b, <1>c, <2>1
  <2>3. /\ Loads(requests) => Len(requests) = 1
        /\ \A p \in Held(requests) :
             p.phase = "ok" /\ (p.kind = "load" \/ (at \in S!WithStatus /\ p.kind \in {"read", "save"})) => p.value = stored
        /\ at \in S!WithStatus /\ requests = << >> => shownStatus = stored
        /\ at \in S!LoadsDraft => dirty \/ Loads(requests) \/ DraftIsOf(requests, stored, S!Drafted)
    BY <1>0, <2>1, <2>2, <1>5 DEF StoreIsShown
  <2>4. Loads(requests) = Loads(requests')
    BY <1>3, <1>6 DEF Loads
  <2>5. \A p \in h : p.phase = "ok" /\ (p.kind = "load" \/ (at \in S!WithStatus /\ p.kind \in {"read", "save"})) => p.value = stored'
    <3>1. SUFFICES ASSUME NEW p \in h, p.phase = "ok", p.kind = "load" \/ (at \in S!WithStatus /\ p.kind \in {"read", "save"})
                   PROVE  p.value = stored'
      OBVIOUS
    <3>2. CASE p = a
      BY <1>3, <1>4, <2>2, <3>1, <3>2
    <3>3. CASE p \in Beside(requests, i)
      <4>1. p \in Held(requests) /\ p.value = stored
        BY <1>6, <2>3, <3>1, <3>3
      <4>2. r.kind # "save"
        <5>1. SUFFICES ASSUME r.kind = "save" PROVE FALSE
          OBVIOUS
        <5>2. CASE p.kind = "load"
          <6>1. Len(requests) = 1
            BY <2>3, <4>1, <5>2 DEF Loads
          <6>2. QED BY <1>1, <3>3, <6>1, NothingBeside
        <5>3. CASE p.kind # "load"
          <6>1. at \in S!WithStatus /\ at # "notifications" /\ at \notin Silent
            BY <3>1, <5>3 DEF S!WithStatus, Silent
          <6>2. Fits(p) /\ Fits(r)
            BY <1>0, <1>6, <4>1 DEF RequestsFit
          <6>3. Busy(p) /\ Busy(requests[i])
            BY <3>1, <5>1, <5>3, <6>1, <6>2 DEF Busy, Fits, r
          <6>4. saving \in BOOLEAN /\ OneBusy(requests, saving)
            BY <1>0, <6>1 DEF SavingIsBusy, S!TypeOK
          <6>5. QED BY <1>1, <3>3, <6>3, <6>4, NoSaveIsBusy
        <5>4. QED BY <5>2, <5>3
      <4>3. QED BY <2>2, <4>1, <4>2
    <3>4. QED BY <1>6, <3>2, <3>3 DEF h
  <2>6. requests' # << >>
    <3>1. Len(requests') # 0
      BY <1>1, <1>6
    <3>2. QED BY <3>1
  <2>7. at \in S!LoadsDraft => dirty \/ Loads(requests') \/ DraftIsOf(requests', stored', S!Drafted)
    <3>1. SUFFICES ASSUME DraftIsOf(requests, stored, S!Drafted) PROVE DraftIsOf(requests', stored', S!Drafted)
      BY <2>3, <2>4
    <3>2. ~Unserved(a)
      BY <1>3 DEF Unserved
    <3>3. \A j \in 1..Len(requests) : j < i => ~Unserved(requests[j])
      <4>1. SUFFICES ASSUME NEW j \in 1..Len(requests), j < i PROVE ~Unserved(requests[j])
        OBVIOUS
      <4>2. j \in 1..(i - 1)
        BY <1>d, <4>1
      <4>3. QED BY <1>b, <2>1, <4>2 DEF Unserved
    <3>4. Unserved(requests[i]) = (r.kind = "save")
      BY <1>1 DEF Unserved, r
    <3>5. IF Unserved(requests[i]) THEN stored' = requests[i].value /\ \A j \in 1..Len(requests) : j < i => ~Unserved(requests[j])
                                    ELSE stored' = stored
      BY <2>2, <3>3, <3>4 DEF r
    <3>6. QED BY <1>1, <1>2, <1>3, <3>1, <3>2, <3>5, DraftAfterExcept
  <2>8. S!Drafted' = S!Drafted
    BY <1>5 DEF S!Drafted
  <2>9. Loads(requests') => Len(requests') = 1
    BY <1>6, <2>3, <2>4
  <2>10. QED
    BY <1>5, <2>5, <2>6, <2>7, <2>8, <2>9
    DEF StoreIsShown, Loads, DraftIsOf, h, Held, S!WithStatus, S!LoadsDraft
<1>14. at' \in S!Forms
  BY DEF S!Forms
<1>15. QED BY <1>7, <1>8, <1>9, <1>10, <1>11, <1>12, <1>13 DEF SettingsInv

\* A save is sent: of the draft, which is now what will be stored.
LEMMA SaveSent ==
  ASSUME SettingsInv, at \in S!Forms, at' = at, NEW v, NEW test, Saves(v, test)
  PROVE  SettingsInv'
<1> DEFINE q == NewSave(v, test)
           h == Held(requests')
<1>0. S!TypeOK /\ RequestsFit /\ NoneIsRefused /\ SavingIsBusy /\ SavedIsLast /\ StoredIsGood /\ StoreIsShown
  BY DEF SettingsInv
<1>1. /\ requests' = Append(requests, q)
      /\ early' = (early \/ Loads(requests)) /\ dirty' = FALSE /\ last' = v
      /\ v \in S!Value /\ test \in BOOLEAN /\ acts' \in 0..MaxActs
      /\ draft' \in Drafts /\ typed \subseteq typed' /\ typed' \subseteq S!Value /\ saving' \in BOOLEAN
      /\ \/ at \notin Silent /\ ~test /\ ~saving /\ saving'
         \/ at = "notifications" /\ test /\ saving' = saving
         \/ at \in Silent /\ ~test /\ saving' = saving
      /\ IF at \in Credentials \cup {"state"} THEN message' = "none" ELSE message' = message
      /\ IF at = "state" THEN v = S!Old ELSE v = [of |-> method, value |-> draft'[method]]
      /\ \/ draft' = draft /\ typed' = typed
         \/ at = "approval" /\ v \in typed' /\ \A m \in {"pat", "app", "only"} : m # method => draft'[m] = draft[m]
      /\ at \in {"github", "infracost"} => draft[method] # Blank
      /\ UNCHANGED <<stored, shownStatus, method, savesCrossed, failed>>
  BY DEF Saves
<1>2. /\ q \in S!Request /\ q.kind = "save" /\ q.phase = "sent" /\ q.value = v /\ q.testing = test
  BY <1>1, ASaveIsARequest DEF NewSave
<1> HIDE DEF q, h
<1>3. /\ requests' \in Seq(S!Request) /\ requests' # << >> /\ h = Held(requests) \cup {q}
  <2>1. requests \in Seq(S!Request)
    BY <1>0 DEF S!TypeOK
  <2>2. QED BY <1>1, <1>2, <2>1, HeldAfterAppend DEF h
<1>4. Busy(q) = ~test
  BY <1>1, <1>2 DEF Busy
<1>5. S!TypeOK'
  <2>1. message' \in {"none", "saved", "tested", "error"} /\ early' \in BOOLEAN
    BY <1>0, <1>1 DEF S!TypeOK, Loads
  <2>2. /\ draft' \in [{"pat", "app", "only"} -> Values \cup {Blank}]
        /\ UNCHANGED <<stored, shownStatus, method, savesCrossed, failed>>
    BY <1>1 DEF Drafts
  <2>3. QED BY <1>0, <1>1, <1>3, <2>1, <2>2 DEF S!TypeOK
<1>6. RequestsFit'
  <2>1. at # "github" => method = "only" /\ stored.of = "only"
    BY <1>0 DEF RequestsFit
  <2>2. at # "github" => v.of = "only"
    BY <1>1, <2>1, ValuesOfTheStore
  <2>3. Fits(q)
    BY <1>1, <1>2, <2>2 DEF Fits
  <2>4. \A p \in h : Fits(p)
    BY <1>0, <1>3, <2>3 DEF RequestsFit
  <2>5. \A p \in h : Fits(p)'
    BY <2>4 DEF Fits, Credentials
  <2>6. QED BY <1>1, <2>1, <2>5 DEF RequestsFit, h, Held
<1>7. NoneIsRefused'
  <2>1. failed \/ \A p \in h : p.phase # "refused"
    BY <1>0, <1>2, <1>3 DEF NoneIsRefused
  <2>2. QED BY <1>1, <2>1 DEF NoneIsRefused, h, Held
<1>8. saving \in BOOLEAN /\ requests \in Seq(S!Request)
  BY <1>0 DEF S!TypeOK
<1>9. SavingIsBusy'
  <2>1. CASE at \in Silent
    BY <1>0, <1>1, <2>1 DEF SavingIsBusy, Silent
  <2>2. CASE at \notin Silent
    <3>1. OneBusy(requests, saving)
      BY <1>0, <2>2 DEF SavingIsBusy
    <3>2. Busy(q) => ~saving
      BY <1>1, <1>4, <2>2
    <3>3. OneBusy(Append(requests, q), saving \/ Busy(q))
      BY <1>2, <1>8, <3>1, <3>2, BusyAfterAppend
    <3>4. saving' = (saving \/ Busy(q))
      BY <1>1, <1>4, <1>8, <2>2
    <3>5. OneBusy(requests', saving')
      BY <1>1, <3>3, <3>4
    <3>6. QED BY <2>2, <3>5 DEF SavingIsBusy, Silent, OneBusy, Held
  <2>3. QED BY <2>1, <2>2
<1>10. SavedIsLast'
  <2>1. SUFFICES ASSUME at \in Credentials PROVE SavedIsLast'
    BY DEF SavedIsLast, Credentials
  <2>2. message' = "none" /\ at \notin Silent /\ at # "notifications" /\ ~saving
    BY <1>1, <2>1 DEF Credentials, Silent
  <2>3. \A p \in Held(requests) : ~Busy(p) /\ Fits(p)
    BY <1>0, <2>2 DEF SavingIsBusy, OneBusy, RequestsFit
  <2>4. \A p \in Held(requests) : p.kind # "save"
    BY <2>2, <2>3 DEF Fits, Busy
  <2>5. \A p \in h : p.kind = "save" => p.value = last' /\ p.phase # "ok"
    BY <1>1, <1>2, <1>3, <2>4
  <2>6. QED BY <2>2, <2>5 DEF SavedIsLast, h, Held
<1>11. Good \subseteq Good' /\ typed' \subseteq Good' /\ S!Old \in Good'
  BY <1>1 DEF Good, S!Old, S!NoValue
<1>12. early' \/ failed \/ (~early /\ ~Loads(requests))
  <2>1. early \in BOOLEAN /\ Loads(requests) \in BOOLEAN
    BY <1>0 DEF S!TypeOK, Loads
  <2>2. QED BY <1>1, <2>1
<1>13. at \in S!LoadsDraft => at # "github" /\ at # "state" /\ method = "only"
  BY <1>0 DEF S!LoadsDraft, RequestsFit
<1>14. StoredIsGood'
  <2>1. SUFFICES ASSUME ~early', ~failed' PROVE StoredIsGood'
    BY DEF StoredIsGood
  <2>2. ~early /\ ~failed /\ ~Loads(requests)
    BY <1>1, <1>12, <2>1
  <2>3. /\ stored \in Good /\ \A p \in Held(requests) : p.kind = "save" \/ (p.kind = "load" /\ p.phase = "ok") => p.value \in Good
        /\ at \in S!LoadsDraft => [of |-> "only", value |-> draft["only"]] \in Good
        /\ at \notin S!LoadsDraft =>
             \A m \in {"pat", "app", "only"} : draft[m] # Blank => [of |-> m, value |-> draft[m]] \in typed
    BY <1>0, <2>2 DEF StoredIsGood
  <2>4. v \in Good' /\ (at \in S!LoadsDraft => [of |-> "only", value |-> draft'["only"]] \in Good')
    <3>1. CASE at = "state"
      BY <1>1, <1>11, <1>13, <3>1
    <3>2. CASE at \in S!LoadsDraft /\ draft' = draft
      BY <1>1, <1>11, <1>13, <2>3, <3>2
    <3>3. CASE at \in S!LoadsDraft /\ v \in typed'
      BY <1>1, <1>11, <1>13, <3>3
    <3>4. CASE at \in {"github", "infracost"}
      <4>1. draft' = draft /\ method \in {"pat", "app", "only"} /\ at \notin S!LoadsDraft /\ at # "state"
        BY <1>0, <1>1, <3>4 DEF S!TypeOK, S!LoadsDraft
      <4>2. QED BY <1>1, <1>11, <2>3, <3>4, <4>1
    <3>5. QED BY <1>1, <3>1, <3>2, <3>3, <3>4 DEF S!Forms, S!LoadsDraft
  <2>5. stored' \in Good' /\ \A p \in h : p.kind = "save" \/ (p.kind = "load" /\ p.phase = "ok") => p.value \in Good'
    BY <1>1, <1>2, <1>3, <1>11, <2>3, <2>4
  <2>6. at \notin S!LoadsDraft =>
          \A m \in {"pat", "app", "only"} : draft'[m] # Blank => [of |-> m, value |-> draft'[m]] \in typed'
    BY <1>1, <2>3 DEF S!LoadsDraft
  <2>7. QED BY <2>4, <2>5, <2>6 DEF StoredIsGood, h, Held, S!LoadsDraft
<1>15. StoreIsShown'
  <2>1. SUFFICES ASSUME ~early', ~failed', ~savesCrossed' PROVE StoreIsShown'
    BY DEF StoreIsShown
  <2>2. ~early /\ ~failed /\ ~savesCrossed /\ ~Loads(requests)
    BY <1>1, <1>12, <2>1
  <2>3. ~\E p \in h : p.kind = "load"
    BY <1>2, <1>3, <2>2 DEF Loads
  <2>4. \A p \in h : p.phase = "ok" /\ (p.kind = "load" \/ (at \in S!WithStatus /\ p.kind \in {"read", "save"})) => p.value = stored'
    BY <1>0, <1>1, <1>2, <1>3, <2>2 DEF StoreIsShown
  <2>5. at \in S!LoadsDraft => DraftIsOf(requests', stored, S!Drafted')
    <3>1. SUFFICES ASSUME at \in S!LoadsDraft PROVE DraftIsOf(requests', stored, S!Drafted')
      OBVIOUS
    <3>2. S!Drafted' = q.value
      BY <1>1, <1>2, <1>13, <3>1 DEF S!Drafted
    <3>3. Unserved(q)
      BY <1>2 DEF Unserved
    <3>4. DraftIsOf(Append(requests, q), stored, q.value)
      BY <1>2, <1>8, <3>3, DraftAfterAppend
    <3>5. QED BY <1>1, <3>2, <3>4
  <2>6. QED BY <1>1, <1>3, <2>1, <2>3, <2>4, <2>5 DEF StoreIsShown, Loads, DraftIsOf, h, Held, S!WithStatus, S!LoadsDraft
<1>16. QED BY <1>5, <1>6, <1>7, <1>9, <1>10, <1>14, <1>15 DEF SettingsInv

\* A field is edited, or the method chosen: nothing is sent.
LEMMA DraftEdited ==
  ASSUME SettingsInv, at \in S!Forms, at' = at, (\E v \in Values : S!Edit(v)) \/ S!SetGhAuthMethod
  PROVE  SettingsInv'
<1>0. S!TypeOK /\ RequestsFit /\ NoneIsRefused /\ SavingIsBusy /\ SavedIsLast /\ StoredIsGood /\ StoreIsShown
  BY DEF SettingsInv
<1>1. /\ UNCHANGED <<stored, shownStatus, saving, message, requests, last, early, savesCrossed, failed>>
      /\ acts < MaxActs /\ acts' = acts + 1
      /\ typed \subseteq typed'
  BY DEF S!Edit, S!SetGhAuthMethod, S!history, S!Act
<1>2. /\ draft' \in Drafts /\ typed' \subseteq S!Value /\ dirty' \in BOOLEAN /\ method' \in {"pat", "app", "only"}
      /\ at # "github" => method' = method /\ dirty' = TRUE
      /\ \A m \in {"pat", "app", "only"} : draft'[m] = draft[m] \/ [of |-> m, value |-> draft'[m]] \in typed'
  <2>1. ASSUME NEW v \in Values, S!Edit(v)
        PROVE  /\ draft' = [draft EXCEPT ![method] = v] /\ typed' = typed \cup {[of |-> method, value |-> v]}
               /\ dirty' = TRUE /\ method' = method
    BY <2>1 DEF S!Edit
  <2>2. CASE S!SetGhAuthMethod
    BY <1>0, <2>2 DEF S!SetGhAuthMethod, S!history, S!TypeOK, S!Methods, Drafts
  <2>3. ASSUME NEW v \in Values, S!Edit(v)
        PROVE  /\ draft' \in Drafts /\ typed' \subseteq S!Value
               /\ \A m \in {"pat", "app", "only"} : draft'[m] = draft[m] \/ [of |-> m, value |-> draft'[m]] \in typed'
    <3>1. draft \in Drafts /\ method \in {"pat", "app", "only"} /\ typed \subseteq S!Value
      BY <1>0 DEF S!TypeOK, Drafts
    <3>2. [of |-> method, value |-> v] \in S!Value
      BY <3>1 DEF S!Value
    <3>3. draft' \in Drafts /\ draft'[method] = v /\ \A m \in {"pat", "app", "only"} : m # method => draft'[m] = draft[m]
      BY <2>1, <2>3, <3>1 DEF Drafts
    <3>4. QED BY <2>1, <2>3, <3>1, <3>2, <3>3
  <2>4. QED BY <1>0, <2>1, <2>2, <2>3 DEF S!TypeOK
<1>3. S!TypeOK'
  <2>1. acts' \in 0..MaxActs
    BY <1>0, <1>1, ActsAreBounded DEF S!TypeOK
  <2>2. QED BY <1>0, <1>1, <1>2, <2>1 DEF S!TypeOK, S!Value, S!Request, Drafts
<1>4. RequestsFit'
  BY <1>0, <1>1, <1>2 DEF RequestsFit, Fits, Held, Credentials
<1>5. NoneIsRefused' /\ SavingIsBusy' /\ SavedIsLast'
  BY <1>0, <1>1 DEF NoneIsRefused, SavingIsBusy, SavedIsLast, OneBusy, Held, Silent, Credentials
<1>6. Good \subseteq Good' /\ typed' \subseteq Good'
  BY <1>1 DEF Good, S!Old, S!NoValue
<1>7. StoredIsGood'
  <2>1. SUFFICES ASSUME ~early, ~failed PROVE StoredIsGood'
    BY <1>1 DEF StoredIsGood
  <2>2. /\ stored \in Good /\ \A p \in Held(requests) : p.kind = "save" \/ (p.kind = "load" /\ p.phase = "ok") => p.value \in Good
        /\ DraftIsGood
    BY <1>0, <2>1 DEF StoredIsGood, DraftIsGood
  <2>3. stored' \in Good' /\ \A p \in Held(requests') : p.kind = "save" \/ (p.kind = "load" /\ p.phase = "ok") => p.value \in Good'
    BY <1>1, <1>6, <2>2
  <2>4. at \in S!LoadsDraft => Loads(requests') \/ [of |-> "only", value |-> draft'["only"]] \in Good'
    BY <1>1, <1>2, <1>6, <2>2 DEF DraftIsGood
  <2>5. at \notin S!LoadsDraft =>
          \A m \in {"pat", "app", "only"} : draft'[m] # Blank => [of |-> m, value |-> draft'[m]] \in typed'
    BY <1>1, <1>2, <2>2 DEF DraftIsGood
  <2>6. QED BY <2>3, <2>4, <2>5 DEF StoredIsGood, Held, Loads, S!LoadsDraft
<1>8. StoreIsShown'
  <2>1. at \in S!LoadsDraft => dirty'
    BY <1>2 DEF S!LoadsDraft
  <2>2. QED BY <1>0, <1>1, <2>1 DEF StoreIsShown, Held, Loads, S!WithStatus, S!LoadsDraft
<1>9. QED BY <1>3, <1>4, <1>5, <1>7, <1>8 DEF SettingsInv

\* The invariant of a form that is open is kept.
LEMMA SettingsStep ==
  ASSUME SettingsInv, at \in S!Forms, at' = at, S!Next PROVE SettingsInv'
<1>1. DOMAIN requests = 1..Len(requests) /\ S!TypeOK
  BY DEF SettingsInv, S!TypeOK
<1>2. CASE \/ \E v \in Values : S!ToggleApproval(v)
           \/ S!SaveCredentials \/ S!InitStateBackend \/ S!SaveNotifications \/ S!TestChannel \/ S!SaveDrift
  BY <1>1, <1>2, SaveActions, SaveSent
<1>3. CASE (\E v \in Values : S!Edit(v)) \/ S!SetGhAuthMethod
  BY <1>3, DraftEdited
<1>4. ASSUME NEW i \in 1..Len(requests),
             \/ S!Serve(i)
             \/ S!OnLoad(i) \/ S!OnCredentials(i) \/ S!OnStatus(i) \/ S!OnStateInit(i)
             \/ S!OnNotifications(i) \/ S!OnTested(i) \/ S!OnSaved(i) \/ S!OnLost(i)
      PROVE  SettingsInv'
  BY <1>4, RequestServed, LoadAnswered, CredentialsAnswered, StatusAnswered, StateInitAnswered,
     NotificationsAnswered, AnswerLost
<1>5. QED BY <1>1, <1>2, <1>3, <1>4 DEF S!Next

LEMMA SettingsStutter == ASSUME SettingsInv, UNCHANGED <<at, settings>> PROVE SettingsInv'
<1>1. /\ UNCHANGED <<at, stored, shownStatus, draft, method, saving, message, requests>>
      /\ UNCHANGED <<typed, last, dirty, early, savesCrossed, failed, acts>>
  BY DEF settings
<1>2. S!TypeOK'
  BY <1>1 DEF SettingsInv, S!TypeOK, S!Value, S!Request
<1>3. SUFFICES ASSUME at \in S!Forms,
                      RequestsFit /\ NoneIsRefused /\ SavingIsBusy /\ SavedIsLast /\ StoredIsGood /\ StoreIsShown
               PROVE  (RequestsFit /\ NoneIsRefused /\ SavingIsBusy /\ SavedIsLast /\ StoredIsGood /\ StoreIsShown)'
  BY <1>1, <1>2 DEF SettingsInv, S!Forms
<1>4. (RequestsFit /\ NoneIsRefused)'
  BY <1>1, <1>3 DEF RequestsFit, Fits, NoneIsRefused, Held, Credentials
<1>5. (SavingIsBusy /\ SavedIsLast)'
  BY <1>1, <1>3 DEF SavingIsBusy, OneBusy, SavedIsLast, Held, Credentials, Silent
<1>6. StoredIsGood'
  <2>1. Good' = Good
    BY <1>1 DEF Good, S!Old, S!NoValue
  <2>2. QED BY <1>1, <1>3, <2>1 DEF StoredIsGood, Loads, Held, S!LoadsDraft
<1>7. StoreIsShown'
  <2>1. S!Drafted' = S!Drafted
    BY <1>1 DEF S!Drafted
  <2>2. QED BY <1>1, <1>3, <2>1 DEF StoreIsShown, DraftIsOf, Loads, Held, S!WithStatus, S!LoadsDraft
<1>8. QED BY <1>4, <1>5, <1>6, <1>7

LEMMA SettingsSafe ==
  ASSUME SettingsInv
  PROVE  S!TypeOK /\ S!SavesWhatWasLoaded /\ S!FormAgreesWithStore /\ S!SaveIsToldAsItEnded
<1>1. S!TypeOK
  BY DEF SettingsInv
<1>2. S!SavesWhatWasLoaded
  BY DEF SettingsInv, StoredIsGood, Good, S!SavesWhatWasLoaded
<1>3. ASSUME at \in S!Forms, requests = << >> PROVE Held(requests) = {}
  BY <1>3 DEF Held
<1>4. S!FormAgreesWithStore
  <2>1. SUFFICES ASSUME at \in S!Forms, requests = << >>, ~early, ~savesCrossed, ~failed
                 PROVE  /\ at \in S!WithStatus => shownStatus = stored
                        /\ at \in S!LoadsDraft => dirty \/ [of |-> method, value |-> draft[method]] = stored
    BY DEF S!FormAgreesWithStore
  <2>2. StoreIsShown /\ ~Loads(requests)
    BY <1>3, <2>1 DEF SettingsInv, Loads
  <2>3. at \in S!WithStatus => shownStatus = stored
    BY <2>1, <2>2 DEF StoreIsShown
  <2>4. at \in S!LoadsDraft => dirty \/ DraftIsOf(requests, stored, S!Drafted)
    BY <2>1, <2>2 DEF StoreIsShown
  <2>5. DraftIsOf(requests, stored, S!Drafted) => S!Drafted = stored
    BY <2>1 DEF DraftIsOf
  <2>6. QED BY <2>3, <2>4, <2>5 DEF S!Drafted
<1>5. S!SaveIsToldAsItEnded
  <2>1. at \in S!Forms /\ requests = << >> => ~saving
    BY <1>1, <1>3 DEF SettingsInv, SavingIsBusy, OneBusy, S!TypeOK
  <2>2. at \in Credentials => at \in S!Forms
    BY DEF Credentials, S!Forms
  <2>3. at \in Credentials /\ message = "saved" => stored = last
    BY <2>2 DEF SettingsInv, SavedIsLast
  <2>4. QED BY <2>1, <2>3 DEF S!SaveIsToldAsItEnded, Credentials
<1>6. QED BY <1>1, <1>2, <1>4, <1>5

-----------------------------------------------------------------------------
(* The pickers                                                             *)

\* Of the fields of the props and the requests.
Offered ==
  /\ itemFetches # << >> => itemFetches[Len(itemFetches)].region = formRegion
  /\ itemFetches = << >> => items \subseteq P!Of(formRegion)
  /\ picked \ strays \subseteq P!Of(formRegion)
Loaded == itemFetches = << >> => ~loadingItems
PickerInv == P!TypeOK /\ Loaded /\ (itemsCrossed \/ Offered)

LEMMA FetchesAreBounded == PerRegion \in Nat \ {0} /\ MaxFetches \in Nat \ {0}
BY ConstantsAssumption DEF ConstantsAssumption

LEMMA RequestIsTyped == ASSUME NEW r \in Regions PROVE P!Request(r) \in P!Fetch /\ P!Request(r).region = r
BY DEF P!Request, P!Fetch

LEMMA FetchIsAppended ==
  ASSUME P!TypeOK, NEW r \in Regions, P!FetchItems(r)
  PROVE  /\ itemFetches' \in Seq(P!Fetch) /\ itemFetches' # << >>
         /\ itemFetches'[Len(itemFetches')].region = r
         /\ fetched' \in 0..MaxFetches
<1>1. itemFetches' = Append(itemFetches, P!Request(r)) /\ itemFetches \in Seq(P!Fetch)
  BY DEF P!FetchItems, P!TypeOK
<1>2. P!Request(r) \in P!Fetch /\ P!Request(r).region = r
  BY RequestIsTyped
<1>3. fetched' \in 0..MaxFetches
  BY FetchesAreBounded DEF P!TypeOK, P!FetchItems
<1>4. /\ itemFetches' \in Seq(P!Fetch) /\ Len(itemFetches') = Len(itemFetches) + 1
      /\ itemFetches'[Len(itemFetches) + 1] = P!Request(r)
  BY <1>1, <1>2
<1>5. QED BY <1>2, <1>3, <1>4

LEMMA ListIsTaken ==
  ASSUME P!TypeOK, NEW i \in DOMAIN itemFetches, itemFetches' = P!Without(itemFetches, i)
  PROVE  /\ itemFetches' \in Seq(P!Fetch) /\ Len(itemFetches') = Len(itemFetches) - 1
         /\ i = 1 => \A j \in DOMAIN itemFetches' : itemFetches'[j] = itemFetches[j + 1]
<1>1. itemFetches \in Seq(P!Fetch) /\ itemFetches' = Without(itemFetches, i)
  BY DEF P!TypeOK, P!Without, Without
<1>2. /\ Without(itemFetches, i) \in Seq(P!Fetch) /\ Len(Without(itemFetches, i)) = Len(itemFetches) - 1
      /\ \A j \in 1..(Len(itemFetches) - 1) :
           Without(itemFetches, i)[j] = IF j < i THEN itemFetches[j] ELSE itemFetches[j + 1]
  BY <1>1, WithoutFacts
<1>3. DOMAIN itemFetches' = 1..(Len(itemFetches) - 1)
  BY <1>1, <1>2
<1>4. QED BY <1>1, <1>2, <1>3

LEMMA ListIsServed ==
  ASSUME P!TypeOK, NEW i \in DOMAIN itemFetches, P!ServeList(i)
  PROVE  /\ itemFetches' \in Seq(P!Fetch) /\ Len(itemFetches') = Len(itemFetches)
         /\ \A j \in DOMAIN itemFetches : itemFetches'[j].region = itemFetches[j].region
<1>1. PICK phase \in {"ok", "refused"} : itemFetches' = [itemFetches EXCEPT ![i].phase = phase]
  BY DEF P!ServeList
<1>2. itemFetches[i] \in P!Fetch
  BY DEF P!TypeOK
<1>3. [itemFetches[i] EXCEPT !.phase = phase] \in P!Fetch
      /\ [itemFetches[i] EXCEPT !.phase = phase].region = itemFetches[i].region
  BY <1>2 DEF P!Fetch
<1>4. itemFetches' = [itemFetches EXCEPT ![i] = [itemFetches[i] EXCEPT !.phase = phase]]
  BY <1>1
<1>5. QED BY <1>3, <1>4 DEF P!TypeOK

LEMMA PickerInit == ASSUME P!Init PROVE PickerInv
<1>1. P!Request(formRegion) \in P!Fetch /\ P!Request(formRegion).region = formRegion
  BY RequestIsTyped DEF P!Init
<1>2. itemFetches \in Seq(P!Fetch) /\ Len(itemFetches) = 1 /\ itemFetches[1] = P!Request(formRegion)
  BY <1>1 DEF P!Init
<1>3. fetched \in 0..MaxFetches
  BY FetchesAreBounded DEF P!Init
<1>4. P!TypeOK
  BY <1>2, <1>3 DEF P!Init, P!TypeOK
<1>5. QED BY <1>1, <1>2, <1>4 DEF P!Init, PickerInv, Loaded, Offered

LEMMA PickerTypes == ASSUME P!TypeOK, P!Next PROVE P!TypeOK'
<1> USE DEF P!TypeOK
<1>1. ASSUME NEW r \in Regions, P!ChangeRegion(r) PROVE P!TypeOK'
  BY <1>1, FetchIsAppended DEF P!ChangeRegion, P!FetchItems
<1>2. CASE P!Refresh
  BY <1>2, FetchIsAppended DEF P!Refresh, P!FetchItems
<1>3. ASSUME NEW open \in BOOLEAN, P!SetOpen(open) PROVE P!TypeOK'
  BY <1>3 DEF P!SetOpen
<1>4. CASE P!ToggleOpen \/ P!ClickOutside
  BY <1>3, <1>4 DEF P!ToggleOpen, P!ClickOutside
<1>5. ASSUME NEW i \in DOMAIN itemFetches, P!ServeList(i) PROVE P!TypeOK'
  BY <1>5, ListIsServed DEF P!ServeList
<1>6. ASSUME NEW i \in DOMAIN itemFetches, P!OnItems(i) PROVE P!TypeOK'
  BY <1>6, ListIsTaken DEF P!OnItems, P!Of
<1>7. ASSUME NEW i \in P!Item, P!ToggleItem(i) PROVE P!TypeOK'
  BY <1>7 DEF P!ToggleItem
<1>8. ASSUME NEW i \in P!Item, P!RemoveItem(i) PROVE P!TypeOK'
  BY <1>8 DEF P!RemoveItem
<1>9. ASSUME NEW i \in P!Item, P!EnterId(i) PROVE P!TypeOK'
  BY <1>9 DEF P!EnterId
<1>10. ASSUME NEW manual \in BOOLEAN, P!SetManualMode(manual) PROVE P!TypeOK'
  BY <1>10 DEF P!SetManualMode
<1>11. QED BY <1>1, <1>2, <1>4, <1>5, <1>6, <1>7, <1>8, <1>9, <1>10 DEF P!Next

\* The offers follow the region of the form.
LEMMA OffersStay ==
  ASSUME PickerInv, P!Next
  PROVE  Loaded' /\ (itemsCrossed' \/ Offered')
<1> USE DEF PickerInv, Loaded, Offered
<1> DEFINE Goal == Loaded' /\ (itemsCrossed' \/ Offered')
<1>1. ASSUME NEW r \in Regions, P!ChangeRegion(r) PROVE Goal
  BY <1>1, FetchIsAppended DEF P!ChangeRegion, P!FetchItems
<1>2. CASE P!Refresh
  <2>1. formRegion \in Regions /\ P!FetchItems(formRegion)
    BY <1>2 DEF P!Refresh, P!TypeOK
  <2>2. itemFetches' # << >> /\ itemFetches'[Len(itemFetches')].region = formRegion
    BY <2>1, FetchIsAppended
  <2>3. UNCHANGED <<formRegion, strays, picked, itemsCrossed>>
    BY <1>2 DEF P!Refresh, P!FetchItems
  <2>4. QED BY <2>2, <2>3 DEF P!Of
<1>3. ASSUME NEW open, P!SetOpen(open) PROVE Goal
  BY <1>3 DEF P!SetOpen
<1>4. CASE P!ToggleOpen \/ P!ClickOutside
  BY <1>3, <1>4 DEF P!ToggleOpen, P!ClickOutside
<1>5. ASSUME NEW i \in DOMAIN itemFetches, P!ServeList(i) PROVE Goal
  <2>1. itemFetches # << >> /\ itemFetches' # << >> /\ Len(itemFetches) \in DOMAIN itemFetches
    BY <1>5, ListIsServed DEF P!TypeOK
  <2>2. itemFetches'[Len(itemFetches')].region = itemFetches[Len(itemFetches)].region
    BY <1>5, <2>1, ListIsServed
  <2>3. QED BY <1>5, <2>1, <2>2 DEF P!ServeList
<1>6. ASSUME NEW i \in DOMAIN itemFetches, P!OnItems(i) PROVE Goal
  <2>1. Loaded'
    BY <1>6 DEF P!OnItems
  <2>2. SUFFICES ASSUME ~itemsCrossed' PROVE Offered'
    BY <2>1
  <2>3. i = 1 /\ ~itemsCrossed
    BY <1>6, <2>2 DEF P!OnItems
  <2>4. /\ itemFetches' \in Seq(P!Fetch) /\ Len(itemFetches') = Len(itemFetches) - 1
        /\ \A j \in DOMAIN itemFetches' : itemFetches'[j] = itemFetches[j + 1]
    BY <1>6, <2>3, ListIsTaken DEF P!OnItems
  <2>5. Len(itemFetches) \in Nat \ {0} /\ UNCHANGED <<formRegion, picked, strays>>
    BY <1>6 DEF P!TypeOK, P!OnItems
  <2>6. CASE Len(itemFetches) = 1
    <3>1. itemFetches' = << >> /\ items' \subseteq P!Of(formRegion)
      BY <1>6, <2>3, <2>4, <2>6 DEF P!OnItems
    <3>2. QED BY <2>3, <2>5, <3>1 DEF P!Of
  <2>7. CASE Len(itemFetches) > 1
    <3>1. Len(itemFetches') \in DOMAIN itemFetches' /\ Len(itemFetches') + 1 = Len(itemFetches)
      BY <2>4, <2>5, <2>7
    <3>2. itemFetches' # << >> /\ itemFetches # << >>
      BY <2>4, <2>7
    <3>3. itemFetches'[Len(itemFetches')] = itemFetches[Len(itemFetches)]
      BY <2>4, <3>1
    <3>4. QED BY <2>3, <2>5, <3>2, <3>3 DEF P!Of
  <2>8. Len(itemFetches) = 1 \/ Len(itemFetches) > 1
    BY <2>5
  <2>9. QED BY <2>6, <2>7, <2>8
<1>7. ASSUME NEW i \in P!Item, P!ToggleItem(i) PROVE Goal
  BY <1>7 DEF P!ToggleItem, P!Of
<1>8. ASSUME NEW i \in P!Item, P!RemoveItem(i) PROVE Goal
  BY <1>8 DEF P!RemoveItem, P!Of
<1>9. ASSUME NEW i \in P!Item, P!EnterId(i) PROVE Goal
  BY <1>9 DEF P!EnterId, P!Of
<1>10. ASSUME NEW manual \in BOOLEAN, P!SetManualMode(manual) PROVE Goal
  BY <1>10 DEF P!SetManualMode, P!Of
<1>11. QED BY <1>1, <1>2, <1>4, <1>5, <1>6, <1>7, <1>8, <1>9, <1>10 DEF P!Next

LEMMA PickerStep == ASSUME PickerInv, P!Next PROVE PickerInv'
BY PickerTypes, OffersStay DEF PickerInv

LEMMA PickerStutter == ASSUME PickerInv, UNCHANGED picker PROVE PickerInv'
BY DEF PickerInv, P!TypeOK, Loaded, Offered, P!Of, picker

LEMMA PickerSafe ==
  ASSUME PickerInv PROVE P!TypeOK /\ P!OffersAreOfTheRegion /\ P!PicksAreOfTheRegion
BY DEF PickerInv, Loaded, Offered, P!OffersAreOfTheRegion, P!PicksAreOfTheRegion

-----------------------------------------------------------------------------
(* The node groups of a cluster                                            *)

\* The family offers the size.
Sized(t) == t.family \in N!Families /\ t.size \in N!Offers(t.family)

\* A group of a value: one of the editor, or one stored with less.
IsGroup(g) == Sized(g.is) \/ (g.is = N!Untyped /\ (g.instance_types = N!Untyped \/ Sized(g.instance_types)))

NamedAt(g, i, m) == m \/ g.name = i \/ (i = 1 /\ g.name = 0)

GroupsAre(s, m) ==
  /\ s \in Seq(N!Group) /\ Len(s) \in 1..MaxGroups
  /\ \A i \in 1..Len(s) : Sized(s[i].is) /\ NamedAt(s[i], i, m)

ValueIs(s, m) ==
  /\ s \in Seq(N!Group) /\ Len(s) <= MaxGroups
  /\ \A i \in 1..Len(s) : IsGroup(s[i]) /\ NamedAt(s[i], i, m)

\* The editor shows the groups of the value, parsed once it has settled.
GroupsInv ==
  /\ groupsSettled \in BOOLEAN /\ mixed \in BOOLEAN /\ ValueIs(groupsValue, mixed)
  /\ groups \in Seq(N!Group)
  /\ IF groupsValue = << >> THEN groups = <<N!Default>>
     ELSE groups = IF groupsSettled THEN N!ParsedAll(groupsValue) ELSE groupsValue

LEMMA GroupsAreBounded == MaxGroups \in Nat \ {0}
BY ConstantsAssumption DEF ConstantsAssumption

LEMMA FamiliesOffer ==
  /\ N!Families = {"t3", "m5", "p3"}
  /\ \A family \in N!Families : N!Offers(family) \subseteq N!AllSizes /\ N!Sizes[family][1] \in N!Offers(family)
<1>1. N!Families = {"t3", "m5", "p3"}
  BY DEF N!Families, N!Sizes
<1>2. N!Sizes["t3"] = <<"medium", "large">> /\ N!Sizes["m5"] = <<"large", "2xlarge">> /\ N!Sizes["p3"] = <<"2xlarge">>
  BY DEF N!Sizes
<1>3. /\ N!Offers("t3") = {"medium", "large"} /\ N!Offers("m5") = {"large", "2xlarge"}
      /\ N!Offers("p3") = {"2xlarge"}
  BY <1>2 DEF N!Offers
<1>4. QED BY <1>1, <1>2, <1>3 DEF N!AllSizes

LEMMA DefaultIsSized == N!Default \in N!Group /\ Sized(N!Default.is) /\ N!Default.name = 0
<1>1. "medium" \in N!Offers("t3")
  <2>1. N!Sizes["t3"] = <<"medium", "large">>
    BY DEF N!Sizes
  <2>2. QED BY <2>1 DEF N!Offers
<1>2. N!Default \in N!Group
  BY GroupsAreBounded, FamiliesOffer DEF N!Default, N!Group, N!Type, N!Names, N!AllSizes, N!Untyped
<1>3. QED BY <1>1, <1>2, FamiliesOffer DEF N!Default, Sized

LEMMA ParsedIsSized ==
  ASSUME NEW g \in N!Group, IsGroup(g)
  PROVE  N!Parsed(g) \in N!Group /\ Sized(N!Parsed(g).is) /\ N!Parsed(g).name = g.name
<1>1. CASE g.is # N!Untyped
  BY <1>1 DEF IsGroup, N!Parsed
<1>2. CASE g.is = N!Untyped /\ g.instance_types # N!Untyped
  <2>1. ~Sized(g.is)
    BY <1>2, FamiliesOffer DEF N!Untyped, Sized
  <2>2. N!Parsed(g) = [g EXCEPT !.is = g.instance_types] /\ Sized(g.instance_types)
    BY <1>2, <2>1 DEF IsGroup, N!Parsed
  <2>3. QED BY <2>2 DEF N!Group
<1>3. CASE g.is = N!Untyped /\ g.instance_types = N!Untyped
  <2>1. N!Parsed(g) = [g EXCEPT !.is = N!Default.is]
    BY <1>3 DEF N!Parsed
  <2>2. QED BY <2>1, DefaultIsSized DEF N!Group
<1>4. QED BY <1>1, <1>2, <1>3

\* Parsing a value makes groups with a family and a size it offers.
LEMMA ParsedGroups ==
  ASSUME NEW v, NEW m, ValueIs(v, m), v # << >>
  PROVE  GroupsAre(N!ParsedAll(v), m)
<1> DEFINE p == N!ParsedAll(v)
<1>1. v \in Seq(N!Group) /\ Len(v) \in 1..MaxGroups /\ DOMAIN v = 1..Len(v)
  BY GroupsAreBounded DEF ValueIs
<1>2. DOMAIN p = 1..Len(v) /\ \A i \in 1..Len(v) : p[i] = N!Parsed(v[i])
  BY <1>1 DEF N!ParsedAll
<1>3. ASSUME NEW i \in 1..Len(v)
      PROVE  p[i] \in N!Group /\ Sized(p[i].is) /\ NamedAt(p[i], i, m)
  <2>1. v[i] \in N!Group /\ IsGroup(v[i]) /\ NamedAt(v[i], i, m) /\ p[i] = N!Parsed(v[i])
    BY <1>1, <1>2 DEF ValueIs
  <2>2. N!Parsed(v[i]) \in N!Group /\ Sized(N!Parsed(v[i]).is) /\ N!Parsed(v[i]).name = v[i].name
    BY <2>1, ParsedIsSized
  <2>3. QED BY <2>1, <2>2 DEF NamedAt
<1>4. p \in [1..Len(v) -> N!Group]
  BY <1>1, <1>3 DEF N!ParsedAll
<1> HIDE DEF p
<1>5. p \in Seq(N!Group) /\ Len(p) = Len(v)
  BY <1>1, <1>4
<1>6. QED BY <1>1, <1>3, <1>5 DEF GroupsAre, p

LEMMA OneDefault == ASSUME NEW m PROVE GroupsAre(<<N!Default>>, m)
<1> DEFINE d == N!Default
<1>1. d \in N!Group /\ Sized(d.is) /\ d.name = 0
  BY DefaultIsSized
<1> HIDE DEF d
<1>2. <<d>> \in Seq(N!Group) /\ Len(<<d>>) = 1 /\ <<d>>[1] = d
  BY <1>1
<1>3. ASSUME NEW i \in 1..Len(<<d>>) PROVE Sized(<<d>>[i].is) /\ NamedAt(<<d>>[i], i, m)
  <2>1. i = 1
    BY <1>2
  <2>2. QED BY <1>1, <1>2, <2>1 DEF NamedAt
<1>4. Len(<<d>>) \in 1..MaxGroups
  BY <1>2, GroupsAreBounded
<1>5. GroupsAre(<<d>>, m)
  BY <1>2, <1>3, <1>4 DEF GroupsAre
<1>6. QED BY <1>5 DEF d

LEMMA SettledGroups == ASSUME GroupsInv, groupsSettled PROVE GroupsAre(groups, mixed)
BY ParsedGroups, OneDefault DEF GroupsInv

LEMMA SyncedGroups ==
  ASSUME NEW new, N!SyncToParent(new), GroupsAre(new, mixed'), mixed' \in BOOLEAN
  PROVE  GroupsInv'
<1>1. groups' = new /\ groupsValue' = new /\ groupsSettled' = FALSE
  BY DEF N!SyncToParent
<1>2. new # << >> /\ ValueIs(new, mixed') /\ new \in Seq(N!Group)
  BY DEF GroupsAre, ValueIs, IsGroup
<1>3. QED BY <1>1, <1>2 DEF GroupsInv

LEMMA GroupReplaced ==
  ASSUME NEW s, NEW m, NEW n, GroupsAre(s, m), m => n, NEW i \in 1..Len(s), NEW g \in N!Group,
         Sized(g.is), g.name = s[i].name \/ n
  PROVE  GroupsAre([s EXCEPT ![i] = g], n)
<1> DEFINE t == [s EXCEPT ![i] = g]
<1>1. s \in Seq(N!Group) /\ Len(s) \in 1..MaxGroups
  BY DEF GroupsAre
<1>2. /\ t \in Seq(N!Group) /\ Len(t) = Len(s)
      /\ \A j \in 1..Len(s) : t[j] = IF j = i THEN g ELSE s[j]
  BY <1>1, ExceptSeq
<1> HIDE DEF t
<1>3. ASSUME NEW j \in 1..Len(s) PROVE Sized(t[j].is) /\ NamedAt(t[j], j, n)
  BY <1>2 DEF GroupsAre, NamedAt
<1>4. QED BY <1>1, <1>2, <1>3 DEF GroupsAre, t

LEMMA GroupsInit == ASSUME N!Init PROVE GroupsInv
<1> DEFINE d == [N!Default EXCEPT !.name = 1]
           t == [name |-> 1, is |-> N!Untyped, instance_types |-> [family |-> "m5", size |-> "large"]]
<1>1. d \in N!Group /\ IsGroup(d) /\ d.name = 1
  BY GroupsAreBounded, DefaultIsSized DEF IsGroup, N!Group, N!Names
<1>2. t \in N!Group /\ IsGroup(t) /\ t.name = 1
  <2>1. "large" \in N!Offers("m5")
    <3>1. N!Sizes["m5"] = <<"large", "2xlarge">>
      BY DEF N!Sizes
    <3>2. QED BY <3>1 DEF N!Offers
  <2>2. t \in N!Group
    BY GroupsAreBounded, FamiliesOffer DEF N!Group, N!Type, N!Names, N!AllSizes, N!Untyped
  <2>3. QED BY <2>1, <2>2, FamiliesOffer DEF IsGroup, Sized
<1>3. N!Imported = <<t>>
  BY DEF N!Imported
<1> HIDE DEF d, t
<1>4. ASSUME NEW g \in {d, t} PROVE ValueIs(<<g>>, mixed) /\ <<g>> # << >>
  <2>1. <<g>> \in Seq(N!Group) /\ Len(<<g>>) = 1 /\ <<g>>[1] = g
    BY <1>1, <1>2
  <2>2. ASSUME NEW i \in 1..Len(<<g>>) PROVE IsGroup(<<g>>[i]) /\ NamedAt(<<g>>[i], i, mixed)
    <3>1. i = 1
      BY <2>1
    <3>2. QED BY <1>1, <1>2, <2>1, <3>1 DEF NamedAt
  <2>3. QED BY <2>1, <2>2, GroupsAreBounded DEF ValueIs
<1>5. /\ groupsValue \in {<< >>, <<d>>, <<t>>} /\ groups = N!Shown(groupsValue)
      /\ groupsSettled = FALSE /\ mixed = FALSE
  BY <1>3 DEF N!Init, d
<1>6. CASE groupsValue = << >>
  <2>1. << >> \in Seq(N!Group) /\ Len(<< >>) = 0
    OBVIOUS
  <2>2. ValueIs(groupsValue, mixed)
    BY <1>6, <2>1, GroupsAreBounded DEF ValueIs
  <2>3. groups = <<N!Default>> /\ groups \in Seq(N!Group)
    BY <1>5, <1>6, OneDefault DEF N!Shown, GroupsAre
  <2>4. QED BY <1>5, <1>6, <2>2, <2>3 DEF GroupsInv
<1>7. CASE groupsValue # << >>
  <2>1. ValueIs(groupsValue, mixed) /\ groups = groupsValue
    BY <1>4, <1>5, <1>7 DEF N!Shown
  <2>2. QED BY <1>5, <1>7, <2>1 DEF GroupsInv, ValueIs
<1>8. QED BY <1>6, <1>7

LEMMA FamilyAndSizeSet ==
  ASSUME NEW r \in N!Group, NEW f, NEW z
  PROVE  [r EXCEPT !.is.family = f, !.is.size = z] = [r EXCEPT !.is = [family |-> f, size |-> z]]
<1> DEFINE t == [r.is EXCEPT !.family = f]
           a == [r EXCEPT !.is = t]
<1>1. /\ r = [name |-> r.name, is |-> r.is, instance_types |-> r.instance_types]
      /\ r.is = [family |-> r.is.family, size |-> r.is.size]
  BY DEF N!Group, N!Type
<1>2. [t EXCEPT !.size = z] = [family |-> f, size |-> z]
  <2>1. t = [family |-> f, size |-> r.is.size]
    <3> DEFINE u == r.is
    <3>1. u = [family |-> u.family, size |-> u.size]
      BY <1>1
    <3> HIDE DEF u
    <3>2. [u EXCEPT !.family = f] = [family |-> f, size |-> u.size]
      BY <3>1
    <3>3. QED BY <3>2 DEF u
  <2> HIDE DEF t
  <2>2. QED BY <2>1
<1>3. /\ a = [name |-> r.name, is |-> t, instance_types |-> r.instance_types]
  BY <1>1
<1>4. a.is = t
  BY <1>3
<1>5. [a EXCEPT !.is = [t EXCEPT !.size = z]] = [r EXCEPT !.is = [t EXCEPT !.size = z]]
  BY <1>1, <1>3
<1>6. [r EXCEPT !.is.family = f, !.is.size = z] = [a EXCEPT !.is.size = z]
  OBVIOUS
<1>7. [a EXCEPT !.is.size = z] = [a EXCEPT !.is = [t EXCEPT !.size = z]]
  BY <1>4
<1>8. QED BY <1>2, <1>5, <1>6, <1>7

\* Every edit keeps the groups sized and, unless they were mixed, numbered.
LEMMA GroupsStep == ASSUME GroupsInv, N!Next PROVE GroupsInv'
<1> USE GroupsAreBounded
<1>0. /\ groups \in Seq(N!Group) /\ Len(groups) \in Nat /\ DOMAIN groups = 1..Len(groups)
      /\ mixed \in BOOLEAN
      /\ (groupsSettled => GroupsAre(groups, mixed))
  BY SettledGroups DEF GroupsInv
<1>1. CASE N!TakeValue
  <2>1. ~groupsSettled /\ groupsSettled' = TRUE /\ UNCHANGED <<groupsValue, mixed>>
    BY <1>1 DEF N!TakeValue
  <2>2. CASE groupsValue = << >>
    <3>1. groups' = groups
      BY <1>1, <2>2 DEF N!TakeValue
    <3>2. QED BY <2>1, <2>2, <3>1 DEF GroupsInv
  <2>3. CASE groupsValue # << >>
    <3>1. groups' = N!ParsedAll(groupsValue)
      BY <1>1, <2>3 DEF N!TakeValue
    <3>2. N!ParsedAll(groupsValue) \in Seq(N!Group)
      BY <2>3, ParsedGroups DEF GroupsInv, GroupsAre
    <3> DEFINE p == N!ParsedAll(groupsValue)
    <3>3. groupsValue' = groupsValue /\ N!ParsedAll(groupsValue)' = p
      BY <2>1 DEF N!ParsedAll
    <3> HIDE DEF p
    <3>4. groups' = p /\ p \in Seq(N!Group)
      BY <3>1, <3>2 DEF p
    <3>5. QED BY <2>1, <2>3, <3>3, <3>4 DEF GroupsInv
  <2>4. QED BY <2>2, <2>3
<1>2. CASE N!AddGroup
  <2> DEFINE g == [N!Default EXCEPT !.name = Len(groups) + 1]
             new == Append(groups, g)
  <2>1. /\ mixed' = mixed /\ Len(groups) < MaxGroups /\ N!SyncToParent(new)
        /\ GroupsAre(groups, mixed)
    BY <1>0, <1>2 DEF N!AddGroup, N!SyncToParent
  <2>2. g \in N!Group /\ Sized(g.is) /\ g.name = Len(groups) + 1
    <3>1. Len(groups) + 1 \in N!Names
      BY <1>0, <2>1 DEF N!Names
    <3>2. QED BY <3>1, DefaultIsSized DEF N!Group
  <2> HIDE DEF g
  <2>3. /\ new \in Seq(N!Group) /\ Len(new) = Len(groups) + 1
        /\ \A j \in 1..Len(groups) : new[j] = groups[j]
        /\ new[Len(groups) + 1] = g
    BY <1>0, <2>2, AppendProperties
  <2> HIDE DEF new
  <2>4. ASSUME NEW j \in 1..Len(new) PROVE Sized(new[j].is) /\ NamedAt(new[j], j, mixed)
    <3>1. CASE j = Len(groups) + 1
      BY <1>0, <2>2, <2>3, <3>1 DEF NamedAt
    <3>2. CASE j # Len(groups) + 1
      <4>1. j \in 1..Len(groups)
        BY <1>0, <2>3, <3>2
      <4>2. QED BY <2>1, <2>3, <4>1 DEF GroupsAre
    <3>3. QED BY <3>1, <3>2
  <2>5. Len(new) \in 1..MaxGroups
    BY <1>0, <2>1, <2>3
  <2>6. GroupsAre(new, mixed')
    BY <2>1, <2>3, <2>4, <2>5 DEF GroupsAre
  <2>7. QED BY <1>0, <2>1, <2>6, SyncedGroups
<1>3. ASSUME NEW i \in DOMAIN groups, N!RemoveGroup(i) PROVE GroupsInv'
  <2> DEFINE new == Without(groups, i)
  <2>1. /\ mixed' = (mixed \/ i # Len(groups)) /\ Len(groups) > 1 /\ N!SyncToParent(new)
        /\ GroupsAre(groups, mixed)
    BY <1>0, <1>3 DEF N!RemoveGroup, N!SyncToParent, N!Without, Without
  <2>2. /\ new \in Seq(N!Group) /\ Len(new) = Len(groups) - 1
        /\ \A j \in 1..(Len(groups) - 1) : new[j] = IF j < i THEN groups[j] ELSE groups[j + 1]
    BY <1>0, WithoutFacts
  <2> HIDE DEF new
  <2>3. ASSUME NEW j \in 1..Len(new) PROVE Sized(new[j].is) /\ NamedAt(new[j], j, mixed')
    <3>1. j \in 1..Len(groups) /\ j + 1 \in 1..Len(groups) /\ j \in 1..(Len(groups) - 1)
      BY <1>0, <2>2
    <3>2. CASE j < i
      <4>1. new[j] = groups[j] /\ Sized(groups[j].is) /\ NamedAt(groups[j], j, mixed)
        BY <2>1, <2>2, <3>1, <3>2 DEF GroupsAre
      <4>2. QED BY <2>1, <4>1 DEF NamedAt
    <3>3. CASE ~(j < i)
      <4>1. i # Len(groups)
        BY <1>0, <3>1, <3>3
      <4>2. mixed' = TRUE
        BY <2>1, <4>1
      <4>3. new[j] = groups[j + 1] /\ Sized(groups[j + 1].is)
        BY <2>1, <2>2, <3>1, <3>3 DEF GroupsAre
      <4>4. QED BY <4>2, <4>3 DEF NamedAt
    <3>4. QED BY <3>2, <3>3
  <2>4. Len(new) \in 1..MaxGroups
    BY <1>0, <2>1, <2>2 DEF GroupsAre
  <2>5. GroupsAre(new, mixed')
    BY <2>2, <2>3, <2>4 DEF GroupsAre
  <2>6. QED BY <1>0, <2>1, <2>5, SyncedGroups
<1>4. ASSUME NEW i \in DOMAIN groups, NEW g \in N!Group, Sized(g.is), mixed' \in BOOLEAN, mixed => mixed',
             g.name = groups[i].name \/ mixed', N!SyncToParent([groups EXCEPT ![i] = g])
      PROVE  GroupsInv'
  <2>1. i \in 1..Len(groups) /\ GroupsAre(groups, mixed)
    BY <1>0, <1>4 DEF N!SyncToParent
  <2>2. GroupsAre([groups EXCEPT ![i] = g], mixed')
    BY <1>4, <2>1, GroupReplaced
  <2>3. QED BY <1>4, <2>2, SyncedGroups
<1>5. ASSUME NEW i \in DOMAIN groups, groupsSettled
      PROVE  groups[i] \in N!Group /\ Sized(groups[i].is)
  BY <1>0, <1>5 DEF GroupsAre
<1>6. ASSUME NEW i \in DOMAIN groups, NEW name \in N!Names, N!Rename(i, name) PROVE GroupsInv'
  <2> DEFINE g == [groups[i] EXCEPT !.name = name]
  <2>1. groupsSettled /\ mixed' = TRUE /\ N!SyncToParent([groups EXCEPT ![i] = g])
    BY <1>6 DEF N!Rename, N!SyncToParent
  <2>2. g \in N!Group /\ Sized(g.is)
    BY <1>5, <2>1 DEF N!Group
  <2> HIDE DEF g
  <2>3. QED BY <1>4, <2>1, <2>2
<1>7. ASSUME NEW i \in DOMAIN groups, NEW family \in N!Families, N!UpdateFamily(i, family) PROVE GroupsInv'
  <2> DEFINE size == IF groups[i].is.size \in N!Offers(family) THEN groups[i].is.size ELSE N!Sizes[family][1]
             g == [groups[i] EXCEPT !.is = [family |-> family, size |-> size]]
  <2>1. groupsSettled /\ mixed' = mixed
    BY <1>7 DEF N!UpdateFamily, N!SyncToParent
  <2>2. groups[i] \in N!Group /\ size \in N!Offers(family) /\ size \in N!AllSizes
    BY <1>5, <2>1, FamiliesOffer
  <2>3. N!SyncToParent([groups EXCEPT ![i].is.family = family, ![i].is.size = size])
    BY <1>7 DEF N!UpdateFamily, N!SyncToParent
  <2> HIDE DEF size
  <2>4. [groups EXCEPT ![i].is.family = family, ![i].is.size = size] = [groups EXCEPT ![i] = g]
    <3>1. [groups[i] EXCEPT !.is.family = family, !.is.size = size] = g
      BY <2>2, FamilyAndSizeSet
    <3>2. [groups EXCEPT ![i].is.family = family, ![i].is.size = size]
            = [groups EXCEPT ![i] = [groups[i] EXCEPT !.is.family = family, !.is.size = size]]
      BY <1>0
    <3>3. QED BY <3>1, <3>2
  <2>5. g \in N!Group /\ Sized(g.is) /\ g.name = groups[i].name
    BY <2>2 DEF N!Group, N!Type, Sized
  <2> HIDE DEF g
  <2>6. QED BY <1>0, <1>4, <2>1, <2>3, <2>4, <2>5
<1>8. ASSUME NEW i \in DOMAIN groups, NEW size \in N!AllSizes, N!UpdateSize(i, size) PROVE GroupsInv'
  <2> DEFINE g == [groups[i] EXCEPT !.is.size = size]
  <2>1. /\ groupsSettled /\ mixed' = mixed /\ size \in N!Offers(groups[i].is.family)
        /\ N!SyncToParent([groups EXCEPT ![i] = g])
    BY <1>8 DEF N!UpdateSize, N!SyncToParent
  <2>2. groups[i] \in N!Group /\ Sized(groups[i].is)
    BY <1>5, <2>1
  <2>3. g \in N!Group /\ Sized(g.is) /\ g.name = groups[i].name
    BY <2>1, <2>2 DEF N!Group, N!Type, Sized
  <2> HIDE DEF g
  <2>4. QED BY <1>0, <1>4, <2>1, <2>3
<1>9. QED BY <1>1, <1>2, <1>3, <1>6, <1>7, <1>8 DEF N!Next

LEMMA GroupsStutter == ASSUME GroupsInv, UNCHANGED editor PROVE GroupsInv'
BY DEF GroupsInv, N!ParsedAll, editor

LEMMA GroupsSafe == ASSUME GroupsInv PROVE N!TypeOK /\ N!GroupsAreSound
<1>1. N!TypeOK
  BY DEF GroupsInv, ValueIs, N!TypeOK
<1>2. ASSUME groupsSettled PROVE \A i \in DOMAIN groups : groups[i].is.size \in N!Offers(groups[i].is.family)
  BY <1>2, SettledGroups DEF GroupsAre, Sized
<1>3. ASSUME groupsSettled, ~mixed, NEW i \in DOMAIN groups, NEW j \in DOMAIN groups, i # j
      PROVE  groups[i].name # groups[j].name
  <2>1. i \in 1..Len(groups) /\ j \in 1..Len(groups) /\ Len(groups) \in Nat /\ GroupsAre(groups, mixed)
    BY <1>3, SettledGroups DEF GroupsInv
  <2>2. NamedAt(groups[i], i, mixed) /\ NamedAt(groups[j], j, mixed)
    BY <2>1 DEF GroupsAre
  <2>3. QED BY <1>3, <2>1, <2>2 DEF NamedAt
<1>4. groupsSettled /\ groupsValue # << >> => groups = N!ParsedAll(groupsValue)
  BY DEF GroupsInv
<1>5. mixed \in BOOLEAN
  BY DEF GroupsInv
<1>6. N!GroupsAreSound
  BY <1>2, <1>3, <1>4, <1>5 DEF N!GroupsAreSound
<1>7. QED BY <1>1, <1>6

-----------------------------------------------------------------------------
(* The rules of a security group                                           *)

\* A rule agrees with its type, and has a source unless one is being typed in.
RuleIsSound(r, typedIn) ==
  /\ r.type \in DOMAIN G!Presets =>
       LET p == G!Presets[r.type] IN r.protocol = p.protocol /\ r.from = p.from /\ r.to = p.to
  /\ r.type \in DOMAIN G!Custom => r.protocol = G!Custom[r.type]
  /\ typedIn \/ r.cidr \in G!Blocks \cup {"empty"}

\* The rules s, the source of rule f being typed in.
RulesAre(s, f) ==
  /\ s \in Seq(G!Rule) /\ Len(s) <= MaxRules /\ f \in 0..Len(s)
  /\ \A i \in 1..Len(s) : RuleIsSound(s[i], i = f)

RulesInv ==
  /\ rulesSettled \in BOOLEAN /\ RulesAre(rulesValue, focused)
  /\ rulesSettled => rules = rulesValue
  /\ rules \in Seq(G!Rule) /\ (rulesValue = << >> => rules = << >>)

LEMMA RulesAreBounded == MaxRules \in Nat \ {0}
BY ConstantsAssumption DEF ConstantsAssumption

\* The presets and the custom types.
LEMMA RuleKinds ==
  /\ DOMAIN G!Presets = {"all", "ssh", "dns"} /\ DOMAIN G!Custom = {"tcp", "udp"}
  /\ G!Types = {"all", "ssh", "dns", "tcp", "udp"}
  /\ G!Custom["tcp"] = "tcp" /\ G!Custom["udp"] = "udp"
  /\ \A type \in {"all", "ssh", "dns"} :
       LET p == G!Presets[type] IN p.protocol \in {"all", "tcp", "udp"} /\ p.from \in G!Ports /\ p.to \in G!Ports
BY DEF G!Presets, G!Custom, G!Types, G!Ports

LEMMA RuleReplaced ==
  ASSUME NEW s, NEW i \in 1..Len(s), NEW f \in {0, i}, RulesAre(s, f),
         NEW r \in G!Rule, NEW g \in {0, i}, RuleIsSound(r, i = g)
  PROVE  RulesAre([s EXCEPT ![i] = r], g)
<1> DEFINE t == [s EXCEPT ![i] = r]
<1>1. s \in Seq(G!Rule) /\ Len(s) \in Nat
  BY DEF RulesAre
<1>2. /\ t \in Seq(G!Rule) /\ Len(t) = Len(s)
      /\ \A j \in 1..Len(s) : t[j] = IF j = i THEN r ELSE s[j]
  BY <1>1, ExceptSeq
<1> HIDE DEF t
<1>3. ASSUME NEW j \in 1..Len(s) PROVE RuleIsSound(t[j], j = g)
  <2>1. CASE j = i
    BY <1>2, <2>1
  <2>2. CASE j # i
    <3>1. t[j] = s[j] /\ RuleIsSound(s[j], j = f)
      BY <1>2, <2>2 DEF RulesAre
    <3>2. QED BY <2>2, <3>1 DEF RuleIsSound
  <2>3. QED BY <2>1, <2>2
<1>4. QED BY <1>1, <1>2, <1>3 DEF RulesAre, t

\* A rule the source of which is set to c.
LEMMA RuleWithSource ==
  ASSUME NEW r \in G!Rule, NEW was, RuleIsSound(r, was), NEW c \in G!Blocks \cup G!Texts,
         NEW now, now \/ c \in G!Blocks \cup {"empty"}
  PROVE  /\ [r EXCEPT !.cidr = c] \in G!Rule
         /\ RuleIsSound([r EXCEPT !.cidr = c], now)
<1>1. [r EXCEPT !.cidr = c] \in G!Rule
  BY DEF G!Rule
<1>2. QED BY DEF G!Rule, RuleIsSound

\* A rule of no preset the ports of which are set.
LEMMA RuleWithPorts ==
  ASSUME NEW r \in G!Rule, RuleIsSound(r, FALSE), r.type \in DOMAIN G!Custom,
         NEW from \in G!TypedPorts, NEW to \in G!TypedPorts
  PROVE  /\ [r EXCEPT !.from = from, !.to = to] \in G!Rule
         /\ RuleIsSound([r EXCEPT !.from = from, !.to = to], FALSE)
<1> DEFINE t == [r EXCEPT !.from = from, !.to = to]
<1>1. from \in G!Ports /\ to \in G!Ports
  BY DEF G!TypedPorts, G!Ports
<1>2. t \in G!Rule /\ t.type = r.type /\ t.protocol = r.protocol /\ t.cidr = r.cidr
  BY <1>1 DEF G!Rule
<1>3. r.type \notin DOMAIN G!Presets
  BY RuleKinds
<1> HIDE DEF t
<1>4. RuleIsSound(t, FALSE)
  BY <1>2, <1>3 DEF RuleIsSound
<1>5. QED BY <1>2, <1>4 DEF t

LEMMA SyncedRules ==
  ASSUME RulesInv, NEW new, G!SyncToParent(new), RulesAre(new, focused')
  PROVE  RulesInv'
BY DEF RulesInv, RulesAre, G!SyncToParent

LEMMA RulesInit == ASSUME G!Init PROVE RulesInv
<1> DEFINE r == [type |-> "all", protocol |-> "all", from |-> 0, to |-> 0, cidr |-> "any4"]
<1>1. r \in G!Rule /\ RuleIsSound(r, FALSE)
  BY DEF G!Rule, RuleIsSound, G!Presets, G!Custom, G!Types, G!Ports, G!Blocks
<1>2. rulesValue \in {<< >>, <<r>>} /\ rules = << >> /\ rulesSettled = FALSE /\ focused = 0
  BY DEF G!Init
<1> HIDE DEF r
<1>e. << >> \in Seq(G!Rule) /\ Len(<< >>) = 0
  OBVIOUS
<1>3. CASE rulesValue = << >>
  <2>1. \A i \in 1..Len(rulesValue) : RuleIsSound(rulesValue[i], i = focused)
    BY <1>e, <1>3
  <2>2. Len(rulesValue) <= MaxRules /\ focused \in 0..Len(rulesValue)
    BY <1>e, <1>2, <1>3, RulesAreBounded
  <2>3. RulesAre(rulesValue, focused)
    BY <1>e, <1>3, <2>1, <2>2 DEF RulesAre
  <2>4. QED BY <1>e, <1>2, <1>3, <2>3 DEF RulesInv
<1>4. CASE rulesValue = <<r>>
  <2>1. /\ rulesValue \in Seq(G!Rule) /\ Len(rulesValue) = 1 /\ rulesValue[1] = r
        /\ rulesValue # << >>
    BY <1>1, <1>4
  <2>2. ASSUME NEW i \in 1..Len(rulesValue) PROVE RuleIsSound(rulesValue[i], i = focused)
    <3>1. i = 1 /\ focused = 0
      BY <1>2, <2>1
    <3>2. QED BY <1>1, <2>1, <3>1 DEF RuleIsSound
  <2>3. RulesAre(rulesValue, focused)
    BY <1>2, <2>1, <2>2, RulesAreBounded DEF RulesAre
  <2>4. QED BY <1>e, <1>2, <2>1, <2>3 DEF RulesInv
<1>5. QED BY <1>2, <1>3, <1>4

\* Every edit keeps the rules sound.
LEMMA RulesStep == ASSUME RulesInv, G!Next PROVE RulesInv'
<1> USE RulesAreBounded
<1>0. /\ rules \in Seq(G!Rule) /\ Len(rules) \in Nat /\ DOMAIN rules = 1..Len(rules)
      /\ (rulesSettled => RulesAre(rules, focused))
  BY DEF RulesInv
<1>1. CASE G!TakeValue
  <2>1. rules' = rulesValue /\ rulesSettled' = TRUE /\ UNCHANGED <<rulesValue, focused>>
    BY <1>1 DEF G!TakeValue, RulesInv
  <2>2. QED BY <2>1 DEF RulesInv, RulesAre
<1>2. CASE G!AddRule
  <2> DEFINE new == Append(rules, G!Default)
  <2>1. focused = 0 /\ focused' = 0 /\ Len(rules) < MaxRules /\ G!SyncToParent(new) /\ rulesSettled
    BY <1>2 DEF G!AddRule, G!SyncToParent
  <2>2. G!Default \in G!Rule /\ RuleIsSound(G!Default, FALSE)
    BY DEF G!Default, G!Rule, RuleIsSound, G!Presets, G!Custom, G!Types, G!Blocks
  <2>3. /\ new \in Seq(G!Rule) /\ Len(new) = Len(rules) + 1
        /\ \A j \in 1..Len(rules) : new[j] = rules[j]
        /\ new[Len(rules) + 1] = G!Default
    BY <1>0, <2>2, AppendProperties
  <2> HIDE DEF new
  <2>4. ASSUME NEW j \in 1..Len(new) PROVE RuleIsSound(new[j], j = 0)
    <3>1. CASE j = Len(rules) + 1
      BY <1>0, <2>2, <2>3, <3>1 DEF RuleIsSound
    <3>2. CASE j # Len(rules) + 1
      <4>1. j \in 1..Len(rules)
        BY <1>0, <2>3, <3>2
      <4>2. QED BY <1>0, <2>1, <2>3, <4>1 DEF RulesAre
    <3>3. QED BY <3>1, <3>2
  <2>5. RulesAre(new, focused')
    <3>1. Len(new) <= MaxRules /\ focused' \in 0..Len(new)
      BY <1>0, <2>1, <2>3
    <3>2. QED BY <2>1, <2>3, <2>4, <3>1 DEF RulesAre
  <2>6. QED BY <2>1, <2>5, SyncedRules
<1>3. ASSUME NEW i \in DOMAIN rules, G!RemoveRule(i) PROVE RulesInv'
  <2> DEFINE new == Without(rules, i)
  <2>1. focused = 0 /\ focused' = 0 /\ G!SyncToParent(new) /\ rulesSettled
    BY <1>3 DEF G!RemoveRule, G!SyncToParent, G!Without, Without
  <2>2. /\ new \in Seq(G!Rule) /\ Len(new) = Len(rules) - 1
        /\ \A j \in 1..(Len(rules) - 1) : new[j] = IF j < i THEN rules[j] ELSE rules[j + 1]
    BY <1>0, WithoutFacts
  <2> HIDE DEF new
  <2>3. ASSUME NEW j \in 1..Len(new) PROVE RuleIsSound(new[j], j = 0)
    <3>1. PICK k \in 1..Len(rules) : new[j] = rules[k]
      <4>1. j \in 1..Len(rules) /\ j + 1 \in 1..Len(rules) /\ j \in 1..(Len(rules) - 1)
        BY <1>0, <2>2
      <4>2. QED BY <2>2, <4>1
    <3>2. RuleIsSound(rules[k], k = 0)
      BY <1>0, <2>1 DEF RulesAre
    <3>3. (k = 0) = (j = 0)
      BY <1>0, <2>2
    <3>4. QED BY <3>1, <3>2, <3>3
  <2>4. RulesAre(new, focused')
    <3>1. Len(new) <= MaxRules /\ focused' \in 0..Len(new)
      BY <1>0, <2>1, <2>2 DEF RulesAre
    <3>2. QED BY <2>1, <2>2, <2>3, <3>1 DEF RulesAre
  <2>5. QED BY <2>1, <2>4, SyncedRules
<1>4. ASSUME NEW i \in DOMAIN rules, NEW r \in G!Rule, focused \in {0, i}, focused' \in {0, i},
             RuleIsSound(r, i = focused'), G!SyncToParent([rules EXCEPT ![i] = r])
      PROVE  RulesInv'
  <2>1. rulesSettled /\ i \in 1..Len(rules)
    BY <1>0, <1>4 DEF G!SyncToParent
  <2>2. RulesAre(rules, focused)
    BY <1>0, <2>1
  <2>3. RulesAre([rules EXCEPT ![i] = r], focused')
    BY <1>4, <2>1, <2>2, RuleReplaced
  <2>4. QED BY <1>4, <2>3, SyncedRules
<1>5. ASSUME NEW i \in DOMAIN rules, NEW type \in G!Types, G!UpdateType(i, type) PROVE RulesInv'
  <2> DEFINE r == IF type \in DOMAIN G!Presets
                  THEN [rules[i] EXCEPT !.type = type, !.protocol = G!Presets[type].protocol,
                                        !.from = G!Presets[type].from, !.to = G!Presets[type].to]
                  ELSE [rules[i] EXCEPT !.type = type, !.protocol = G!Custom[type],
                                        !.from = G!Unset, !.to = G!Unset]
  <2>1. focused = 0 /\ focused' = 0 /\ G!SyncToParent([rules EXCEPT ![i] = r]) /\ rulesSettled
    BY <1>5 DEF G!UpdateType, G!SyncToParent
  <2>2. rules[i] \in G!Rule /\ RuleIsSound(rules[i], FALSE) /\ i # 0
    <3>1. i \in 1..Len(rules) /\ i # 0
      BY <1>0
    <3>2. RuleIsSound(rules[i], i = 0)
      BY <1>0, <2>1, <3>1 DEF RulesAre
    <3>3. QED BY <1>0, <3>1, <3>2 DEF RuleIsSound
  <2>3. r \in G!Rule /\ RuleIsSound(r, FALSE)
    <3>1. CASE type \in DOMAIN G!Presets
      BY <2>2, <3>1, RuleKinds DEF RuleIsSound, G!Rule
    <3>2. CASE type \notin DOMAIN G!Presets
      BY <2>2, <3>2, RuleKinds DEF RuleIsSound, G!Rule
    <3>3. QED BY <3>1, <3>2
  <2> HIDE DEF r
  <2>4. RuleIsSound(r, i = focused')
    BY <2>3 DEF RuleIsSound
  <2>5. QED BY <1>4, <2>1, <2>3, <2>4
<1>6. ASSUME NEW i \in DOMAIN rules, NEW from \in G!TypedPorts, NEW to \in G!TypedPorts,
             G!UpdatePorts(i, from, to)
      PROVE  RulesInv'
  <2> DEFINE r == [rules[i] EXCEPT !.from = from, !.to = to]
  <2>0. rules[i] \in G!Rule /\ i \in 1..Len(rules) /\ i # 0
    BY <1>0
  <2>1. focused = 0 /\ focused' = 0 /\ rulesSettled /\ rules[i].type \in DOMAIN G!Custom
    BY <1>6 DEF G!UpdatePorts, G!SyncToParent
  <2>2. G!SyncToParent([rules EXCEPT ![i] = r])
    BY <1>6, <2>0 DEF G!UpdatePorts, G!SyncToParent, G!Rule
  <2>3. RuleIsSound(rules[i], FALSE)
    <3>1. RuleIsSound(rules[i], i = 0)
      BY <1>0, <2>0, <2>1 DEF RulesAre
    <3>2. QED BY <2>0, <3>1 DEF RuleIsSound
  <2>4. r \in G!Rule /\ RuleIsSound(r, FALSE)
    BY <2>0, <2>1, <2>3, RuleWithPorts
  <2> HIDE DEF r
  <2>5. RuleIsSound(r, i = focused')
    BY <2>4 DEF RuleIsSound
  <2>6. QED BY <1>4, <2>1, <2>2, <2>4, <2>5
<1>7. ASSUME NEW i \in DOMAIN rules, NEW c \in G!Blocks \cup G!Texts, focused \in {0, i}, focused' \in {0, i},
             focused' = i \/ c \in G!Blocks \cup {"empty"}, G!SyncToParent([rules EXCEPT ![i].cidr = c])
      PROVE  RulesInv'
  <2> DEFINE r == [rules[i] EXCEPT !.cidr = c]
  <2>1. rulesSettled /\ rules[i] \in G!Rule /\ G!SyncToParent([rules EXCEPT ![i] = r])
    BY <1>0, <1>7 DEF G!SyncToParent
  <2>2. RuleIsSound(rules[i], i = focused)
    BY <1>0, <2>1 DEF RulesAre
  <2>3. r \in G!Rule /\ RuleIsSound(r, i = focused')
    BY <1>7, <2>1, <2>2, RuleWithSource
  <2> HIDE DEF r
  <2>4. QED BY <1>4, <1>7, <2>1, <2>3
<1>8. ASSUME NEW i \in DOMAIN rules, NEW c \in G!Blocks \cup G!Texts, G!SelectSource(i, c) PROVE RulesInv'
  BY <1>7, <1>8 DEF G!SelectSource, G!Blocks
<1>9. ASSUME NEW i \in DOMAIN rules, NEW c \in G!Blocks \cup G!Texts, G!TypeSource(i, c) PROVE RulesInv'
  BY <1>7, <1>9 DEF G!TypeSource, G!Blocks
<1>10. ASSUME NEW i \in DOMAIN rules, G!ResetSource(i) PROVE RulesInv'
  BY <1>7, <1>10 DEF G!ResetSource, G!Blocks
<1>11. CASE G!LeaveSource
  <2>1. focused # 0 /\ focused' = 0 /\ rulesSettled
        /\ G!SyncToParent([rules EXCEPT ![focused].cidr = G!Completed(rules[focused].cidr)])
    BY <1>11 DEF G!LeaveSource, G!SyncToParent
  <2>2. focused \in DOMAIN rules
    BY <1>0, <2>1 DEF RulesAre
  <2>3. rules[focused].cidr \in G!Blocks \cup G!Texts
    <3>1. rules[focused] \in G!Rule
      BY <1>0, <2>2
    <3>2. QED BY <3>1 DEF G!Rule
  <2>4. G!Completed(rules[focused].cidr) \in G!Blocks \cup {"empty"}
    BY <2>3 DEF G!Completed, G!Blocks, G!Texts
  <2>5. QED BY <1>7, <2>1, <2>2, <2>4 DEF G!Texts
<1>12. QED BY <1>1, <1>2, <1>3, <1>5, <1>6, <1>8, <1>9, <1>10, <1>11 DEF G!Next

LEMMA RulesStutter == ASSUME RulesInv, UNCHANGED ruleEditor PROVE RulesInv'
BY DEF RulesInv, RulesAre, ruleEditor

LEMMA RulesSafe == ASSUME RulesInv PROVE G!TypeOK /\ G!RulesAreSound
<1>1. G!TypeOK
  BY RulesAreBounded DEF RulesInv, RulesAre, G!TypeOK
<1>2. G!RulesAreSound
  <2>1. SUFFICES ASSUME rulesSettled PROVE RulesAre(rules, focused) => G!RulesAreSound
    BY DEF RulesInv, G!RulesAreSound
  <2>2. DOMAIN rules = 1..Len(rules)
    BY DEF RulesInv
  <2>3. QED BY <2>2 DEF RulesInv, RulesAre, RuleIsSound, G!RulesAreSound
<1>3. QED BY <1>1, <1>2

-----------------------------------------------------------------------------
(* The side panel of a resource                                            *)

\* Nothing was pressed after press n.
After(n) == \A k \in (n + 1)..MaxClicks : pressed[k] = None

\* A part comes after the one it needs.
Follows(m, set) ==
  /\ m.what = "pr" => \E c \in set : c.what = "commit" /\ c.n = m.n
  /\ m.what = "commit" => \E b \in set : b.what = "branch" /\ b.n = m.n

\* A part on GitHub is of the repository and the inputs of its press.
OfPress(m) == m.n <= clicks /\ [repo |-> m.repo, inputs |-> m.inputs] = pressed[m.n]

PartsAreOfPresses == \A m \in github : OfPress(m) /\ Follows(m, github)

\* What is being made is of the last press, and a success that is told has its pull request.
MakingIsOfItsPress ==
  /\ After(clicks)
  /\ creating # None =>
       /\ creating.n <= clicks /\ After(creating.n)
       /\ [repo |-> creating.repo, inputs |-> creating.inputs] = pressed[creating.n]
       /\ creating.step = "pr" /\ creating.phase = "ok" /\ ~told =>
            \E m \in github : m.what = "pr" /\ m.n = creating.n
  /\ prResult = "success" /\ ~told => \E m \in github : m.what = "pr" /\ After(m.n)

\* An estimate is of the region shown, unless the region has moved since.
EstimatesAreOfTheRegion ==
  /\ cost # None => moved \/ cost.region = region
  /\ costLoading # None => moved \/ costLoading.region = region

PanelInv == B!TypeOK /\ PartsAreOfPresses /\ MakingIsOfItsPress /\ EstimatesAreOfTheRegion

Making == [n : 1..MaxClicks, repo : Repos, inputs : Inputs, step : B!Steps, phase : {"sent", "ok", "refused"}]

LEMMA ClicksAreBounded == MaxClicks \in Nat \ {0}
BY ConstantsAssumption DEF ConstantsAssumption

LEMMA PanelInit == ASSUME B!Init PROVE PanelInv
<1>1. B!TypeOK
  <2>1. clicks \in 0..MaxClicks /\ pressed \in [1..MaxClicks -> B!Press \cup {None}]
    BY ClicksAreBounded DEF B!Init
  <2>2. QED BY <2>1 DEF B!Init, B!TypeOK
<1>2. MakingIsOfItsPress
  BY ClicksAreBounded, Nulls DEF B!Init, MakingIsOfItsPress, After
<1>3. PartsAreOfPresses /\ EstimatesAreOfTheRegion
  BY DEF B!Init, PartsAreOfPresses, EstimatesAreOfTheRegion
<1>4. QED BY <1>1, <1>2, <1>3 DEF PanelInv

LEMMA PanelTypes == ASSUME B!TypeOK, PartsAreOfPresses, B!Next PROVE B!TypeOK'
<1> USE ClicksAreBounded DEF B!TypeOK
<1>1. ASSUME NEW r \in Repos \cup {None}, B!SelectRepo(r) PROVE B!TypeOK'
  BY <1>1 DEF B!SelectRepo
<1>2. ASSUME NEW v \in Inputs, B!ChangeInputs(v) PROVE B!TypeOK'
  BY <1>2 DEF B!ChangeInputs
<1>3. ASSUME NEW r \in Regions, B!ChangeRegion(r) PROVE B!TypeOK'
  BY <1>3 DEF B!ChangeRegion
<1>4. CASE B!GeneratePR
  <2>1. clicks' \in 0..MaxClicks /\ clicks + 1 \in 1..MaxClicks
    BY <1>4 DEF B!GeneratePR
  <2>2. creating' \in Making /\ pressed' \in [1..MaxClicks -> B!Press \cup {None}]
    BY <1>4, <2>1 DEF B!GeneratePR, Making, B!Steps, B!Press
  <2>3. QED BY <1>4, <2>1, <2>2 DEF B!GeneratePR, Making
<1>5. CASE B!GitHubHandler
  <2>1. creating \in Making /\ creating' \in Making
    BY <1>5 DEF B!GitHubHandler, Making
  <2>2. github' \subseteq B!Made
    BY <1>5, <2>1 DEF B!GitHubHandler, Making, B!Made
  <2>3. told' \in BOOLEAN
    BY <1>5 DEF B!GitHubHandler
  <2>4. QED BY <1>5, <2>1, <2>2, <2>3 DEF B!GitHubHandler, Making
<1>6. CASE B!OnAnswer
  <2>1. creating \in Making /\ creating.step \in {"sha", "branch", "commit"}
    BY <1>6 DEF B!OnAnswer, Making, B!Steps
  <2>2. B!NextStep[creating.step] \in B!Steps
    BY <2>1 DEF B!NextStep, B!Steps
  <2>3. creating' \in Making
    BY <1>6, <2>1, <2>2 DEF B!OnAnswer, Making
  <2>4. QED BY <1>6, <2>3 DEF B!OnAnswer, Making
<1>7. CASE B!OnCreated \/ B!OnFailed \/ B!OnLost
  BY <1>7 DEF B!OnCreated, B!OnFailed, B!OnLost, B!EndPR
<1>8. CASE B!EstimateCost
  <2>1. clicks' \in 0..MaxClicks /\ costLoading' \in B!Estimate
    BY <1>8 DEF B!EstimateCost, B!Estimate
  <2>2. QED BY <1>8, <2>1 DEF B!EstimateCost
<1>9. CASE B!OnEstimate
  <2>1. cost' \in B!Estimate
    BY <1>9 DEF B!OnEstimate, B!Estimate
  <2>2. QED BY <1>9, <2>1 DEF B!OnEstimate
<1>10. QED BY <1>1, <1>2, <1>3, <1>4, <1>5, <1>6, <1>7, <1>8, <1>9 DEF B!Next

LEMMA FollowsMore ==
  ASSUME NEW m, NEW set, Follows(m, set), NEW more, set \subseteq more
  PROVE  Follows(m, more)
BY DEF Follows

LEMMA PartsStayOfPresses ==
  ASSUME B!TypeOK, PartsAreOfPresses, MakingIsOfItsPress, B!Next PROVE PartsAreOfPresses'
<1>1. CASE UNCHANGED <<github, pressed, clicks>>
  BY <1>1 DEF PartsAreOfPresses, OfPress
<1>2. CASE B!GeneratePR
  <2>1. SUFFICES ASSUME NEW m \in github PROVE OfPress(m)' /\ Follows(m, github)
    BY <1>2 DEF B!GeneratePR, PartsAreOfPresses
  <2>2. m.n \in 1..MaxClicks /\ clicks \in Nat /\ OfPress(m) /\ Follows(m, github)
    BY DEF B!TypeOK, B!Made, PartsAreOfPresses
  <2>3. m.n <= clicks + 1 /\ m.n # clicks + 1
    BY <2>2 DEF OfPress
  <2>4. clicks' = clicks + 1 /\ pressed'[m.n] = pressed[m.n]
    BY <1>2, <2>2, <2>3 DEF B!GeneratePR, B!TypeOK
  <2>5. QED BY <2>2, <2>3, <2>4 DEF OfPress
<1>3. CASE B!EstimateCost
  <2>1. SUFFICES ASSUME NEW m \in github PROVE OfPress(m)' /\ Follows(m, github)
    BY <1>3 DEF B!EstimateCost, PartsAreOfPresses
  <2>2. m.n \in 1..MaxClicks /\ clicks \in Nat /\ OfPress(m) /\ Follows(m, github)
    BY DEF B!TypeOK, B!Made, PartsAreOfPresses
  <2>3. m.n <= clicks + 1
    BY <2>2 DEF OfPress
  <2>4. QED BY <1>3, <2>2, <2>3 DEF OfPress, B!EstimateCost
<1>4. CASE B!GitHubHandler
  <2>1. /\ creating # None /\ creating \in Making /\ creating.n <= clicks
        /\ [repo |-> creating.repo, inputs |-> creating.inputs] = pressed[creating.n]
    BY <1>4 DEF B!GitHubHandler, B!TypeOK, MakingIsOfItsPress, Making
  <2> DEFINE part == [what |-> creating.step, n |-> creating.n,
                      repo |-> creating.repo, inputs |-> creating.inputs]
  <2>2. UNCHANGED <<pressed, clicks>>
    BY <1>4 DEF B!GitHubHandler
  <2>3. CASE github' = github
    BY <2>2, <2>3 DEF PartsAreOfPresses, OfPress
  <2>4. CASE B!Takes /\ github' = github \cup {part}
    <3>1. Follows(part, github)
      BY <2>4 DEF B!Takes, B!Exists, Follows
    <3>2. OfPress(part)
      BY <2>1 DEF OfPress
    <3> HIDE DEF part
    <3>3. \A m \in github' : OfPress(m) /\ Follows(m, github)
      BY <2>4, <3>1, <3>2 DEF PartsAreOfPresses
    <3>4. \A m \in github' : OfPress(m)' /\ Follows(m, github')
      BY <2>2, <2>4, <3>3, FollowsMore DEF OfPress
    <3>5. QED BY <3>4 DEF PartsAreOfPresses
  <2>5. QED BY <1>4, <2>3, <2>4 DEF B!GitHubHandler
<1>5. QED
  BY <1>1, <1>2, <1>3, <1>4
  DEF B!Next, B!SelectRepo, B!ChangeInputs, B!ChangeRegion, B!OnAnswer, B!OnCreated, B!OnFailed, B!OnLost,
      B!EndPR, B!OnEstimate

LEMMA MakingStaysOfItsPress ==
  ASSUME B!TypeOK, PartsAreOfPresses, MakingIsOfItsPress, B!Next PROVE MakingIsOfItsPress'
<1>1. CASE UNCHANGED <<github, pressed, clicks, creating, prResult, told>>
  BY <1>1 DEF MakingIsOfItsPress, After
<1>2. CASE B!GeneratePR
  <2> DEFINE press == [repo |-> selectedRepo, inputs |-> inputs]
  <2>1. clicks \in Nat /\ clicks' = clicks + 1 /\ clicks' \in 1..MaxClicks
    BY <1>2, ClicksAreBounded DEF B!GeneratePR, B!TypeOK
  <2>2. /\ pressed' = [pressed EXCEPT ![clicks'] = press]
        /\ DOMAIN pressed = 1..MaxClicks
    BY <1>2, <2>1 DEF B!GeneratePR, B!TypeOK
  <2>3. creating' = [n |-> clicks', repo |-> selectedRepo, inputs |-> inputs, step |-> "sha", phase |-> "sent"]
    BY <1>2, <2>1 DEF B!GeneratePR
  <2>4. prResult' # "success"
    BY <1>2, Nulls DEF B!GeneratePR
  <2>5. ASSUME NEW k \in (clicks' + 1)..MaxClicks PROVE pressed'[k] = None
    <3>1. k \in 1..MaxClicks /\ k # clicks' /\ k \in (clicks + 1)..MaxClicks
      BY <2>1
    <3>2. pressed'[k] = pressed[k]
      BY <2>2, <3>1
    <3>3. QED BY <3>1, <3>2 DEF MakingIsOfItsPress, After
  <2>6. pressed'[clicks'] = press
    BY <2>1, <2>2
  <2> HIDE DEF press
  <2>7. /\ creating'.n = clicks' /\ creating'.n <= clicks' /\ creating'.step = "sha"
        /\ [repo |-> creating'.repo, inputs |-> creating'.inputs] = press
    BY <2>1, <2>3 DEF press
  <2>8. QED BY <2>4, <2>5, <2>6, <2>7 DEF MakingIsOfItsPress, After
<1>3. CASE B!EstimateCost
  <2>1. /\ clicks \in Nat /\ clicks' = clicks + 1
        /\ UNCHANGED <<github, pressed, creating, prResult, told>>
    BY <1>3 DEF B!EstimateCost, B!TypeOK
  <2>2. creating # None => creating.n \in Nat
    BY DEF B!TypeOK
  <2>3. QED BY <2>1, <2>2 DEF MakingIsOfItsPress, After
<1>4. CASE B!GitHubHandler
  <2>1. creating # None /\ creating \in Making
    BY <1>4 DEF B!GitHubHandler, B!TypeOK, Making
  <2>2. UNCHANGED <<pressed, clicks, prResult>>
    BY <1>4 DEF B!GitHubHandler
  <2>3. /\ creating'.n = creating.n /\ creating'.repo = creating.repo /\ creating'.inputs = creating.inputs
        /\ creating'.step = creating.step
    BY <1>4, <2>1 DEF B!GitHubHandler, Making
  <2>4. github \subseteq github' /\ (told => told')
    BY <1>4 DEF B!GitHubHandler
  <2>5. ASSUME creating.step = "pr", creating'.phase = "ok", ~told'
        PROVE  \E m \in github' : m.what = "pr" /\ m.n = creating.n
    <3> DEFINE part == [what |-> creating.step, n |-> creating.n,
                        repo |-> creating.repo, inputs |-> creating.inputs]
    <3>1. creating' # [creating EXCEPT !.phase = "refused"]
      BY <2>1, <2>5 DEF Making
    <3>2. github' = github \cup {part}
      BY <1>4, <2>5, <3>1 DEF B!GitHubHandler
    <3>3. part.what = "pr" /\ part.n = creating.n
      BY <2>5
    <3>4. QED BY <3>2, <3>3
  <2>6. prResult' = "success" /\ ~told' => \E m \in github' : m.what = "pr" /\ After(m.n)
    BY <2>2, <2>4 DEF MakingIsOfItsPress
  <2>7. QED BY <2>1, <2>2, <2>3, <2>5, <2>6 DEF MakingIsOfItsPress, After
<1>5. CASE B!OnAnswer
  <2>1. creating # None /\ creating \in Making
    BY <1>5 DEF B!OnAnswer, B!TypeOK, Making
  <2>2. /\ creating'.n = creating.n /\ creating'.repo = creating.repo /\ creating'.inputs = creating.inputs
        /\ creating'.phase = "sent"
    BY <1>5, <2>1 DEF B!OnAnswer, Making
  <2>3. UNCHANGED <<github, pressed, clicks, prResult, told>>
    BY <1>5 DEF B!OnAnswer
  <2>4. QED BY <2>1, <2>2, <2>3 DEF MakingIsOfItsPress, After
<1>6. CASE B!OnCreated
  BY <1>6 DEF B!OnCreated, B!EndPR, MakingIsOfItsPress, After
<1>7. CASE B!OnFailed \/ B!OnLost
  BY <1>7 DEF B!OnFailed, B!OnLost, B!EndPR, MakingIsOfItsPress, After
<1>8. QED
  BY <1>1, <1>2, <1>3, <1>4, <1>5, <1>6, <1>7
  DEF B!Next, B!SelectRepo, B!ChangeInputs, B!ChangeRegion, B!OnEstimate

LEMMA EstimatesStayOfTheRegion ==
  ASSUME B!TypeOK, EstimatesAreOfTheRegion, B!Next PROVE EstimatesAreOfTheRegion'
<1>1. CASE UNCHANGED <<cost, costLoading, moved, region>>
  BY <1>1 DEF EstimatesAreOfTheRegion
<1>2. ASSUME NEW r \in Regions, B!ChangeRegion(r) PROVE EstimatesAreOfTheRegion'
  BY <1>2 DEF B!ChangeRegion, EstimatesAreOfTheRegion
<1>3. CASE B!EstimateCost
  BY <1>3 DEF B!EstimateCost, EstimatesAreOfTheRegion
<1>4. CASE B!OnEstimate
  <2>1. costLoading # None /\ costLoading \in B!Estimate /\ costLoading' = None /\ UNCHANGED <<moved, region>>
    BY <1>4 DEF B!OnEstimate, B!TypeOK
  <2>2. cost'.region = costLoading.region
    BY <1>4, <2>1 DEF B!OnEstimate, B!Estimate
  <2>3. QED BY <2>1, <2>2 DEF EstimatesAreOfTheRegion
<1>5. QED
  BY <1>1, <1>2, <1>3, <1>4
  DEF B!Next, B!SelectRepo, B!ChangeInputs, B!GeneratePR, B!GitHubHandler, B!OnAnswer, B!OnCreated,
      B!OnFailed, B!OnLost, B!EndPR

LEMMA PanelStep == ASSUME PanelInv, B!Next PROVE PanelInv'
BY PanelTypes, PartsStayOfPresses, MakingStaysOfItsPress, EstimatesStayOfTheRegion DEF PanelInv

LEMMA PanelStutter == ASSUME PanelInv, UNCHANGED panel PROVE PanelInv'
BY DEF PanelInv, B!TypeOK, PartsAreOfPresses, MakingIsOfItsPress, EstimatesAreOfTheRegion, OfPress, After, panel

LEMMA PanelSafe ==
  ASSUME PanelInv PROVE B!TypeOK /\ B!PullRequestIsOfItsPress /\ B!EstimateIsOfTheRegion
BY DEF PanelInv, PartsAreOfPresses, OfPress, Follows, MakingIsOfItsPress, After, EstimatesAreOfTheRegion,
       B!PullRequestIsOfItsPress, B!EstimateIsOfTheRegion

-----------------------------------------------------------------------------
(* The audit log                                                           *)

Now == [page |-> page, filter |-> actionFilter, search |-> search]
\* What was asked for last is what the page shows now, and what it shows is that.
AskedInOrder ==
  /\ page < A!Pages(actionFilter, search)
  /\ logFetches # << >> => logFetches[Len(logFetches)] = Now
  /\ logFetches = << >> /\ ~logLost => entries = Now /\ total = A!Pages(actionFilter, search)
AuditInv == A!TypeOK /\ (logsCrossed \/ hasty \/ AskedInOrder)

LEMMA TurnsAreBounded == LastPage \in Nat \ {0} /\ MaxTurns \in Nat \ {0}
BY ConstantsAssumption DEF ConstantsAssumption

LEMMA TurnIsCounted == ASSUME A!TypeOK, A!Turn PROVE turns' \in 0..MaxTurns
BY TurnsAreBounded DEF A!TypeOK, A!Turn

LEMMA AnsweredIsTaken ==
  ASSUME A!TypeOK, NEW i \in DOMAIN logFetches, logFetches' = A!Without(logFetches, i)
  PROVE  /\ logFetches' \in Seq(A!Query) /\ Len(logFetches') = Len(logFetches) - 1
         /\ i = 1 => \A j \in DOMAIN logFetches' : logFetches'[j] = logFetches[j + 1]
<1>1. logFetches \in Seq(A!Query) /\ logFetches' = Without(logFetches, i)
  BY DEF A!TypeOK, A!Without, Without
<1>2. /\ Without(logFetches, i) \in Seq(A!Query) /\ Len(Without(logFetches, i)) = Len(logFetches) - 1
      /\ \A j \in 1..(Len(logFetches) - 1) :
           Without(logFetches, i)[j] = IF j < i THEN logFetches[j] ELSE logFetches[j + 1]
  BY <1>1, WithoutFacts
<1>3. DOMAIN logFetches' = 1..(Len(logFetches) - 1)
  BY <1>1, <1>2
<1>4. QED BY <1>1, <1>2, <1>3

LEMMA AuditInit == ASSUME A!Init PROVE AuditInv
<1>1. A!TypeOK
  <2>1. A!FirstPage \in A!Query
    BY TurnsAreBounded DEF A!Query, A!FirstPage, A!Filters, A!Searches
  <2>2. <<A!FirstPage>> \in Seq(A!Query)
    BY <2>1
  <2>3. page \in 0..LastPage /\ actionFilter \in A!Filters /\ search \in A!Searches
        /\ total \in 0..(LastPage + 1) /\ turns \in 0..MaxTurns
    BY TurnsAreBounded DEF A!Init, A!Filters, A!Searches
  <2>4. QED BY <2>1, <2>2, <2>3 DEF A!Init, A!TypeOK
<1>2. AskedInOrder
  BY TurnsAreBounded DEF A!Init, A!FirstPage, AskedInOrder, Now, A!Pages
<1>3. QED BY <1>1, <1>2 DEF AuditInv

LEMMA EffectIsTyped ==
  ASSUME NEW sent \in Seq(A!Query), A!Effect(sent),
         page' \in 0..LastPage, actionFilter' \in A!Filters, search' \in A!Searches
  PROVE  logFetches' \in Seq(A!Query)
<1>1. [page |-> page', filter |-> actionFilter', search |-> search'] \in A!Query
  BY DEF A!Query
<1>2. QED BY <1>1 DEF A!Effect

LEMMA AskedIsTyped ==
  ASSUME A!TypeOK
  PROVE  Append(logFetches, Now) \in Seq(A!Query)
<1>1. Now \in A!Query
  BY DEF A!TypeOK, A!Query, Now
<1>2. QED BY <1>1 DEF A!TypeOK

LEMMA TurnedIsTyped ==
  ASSUME A!TypeOK, NEW p \in 0..LastPage, A!SetPage(p)
  PROVE  A!TypeOK'
<1>1. logFetches' \in Seq(A!Query)
  BY EffectIsTyped DEF A!TypeOK, A!SetPage
<1>2. turns' \in 0..MaxTurns
  BY TurnIsCounted DEF A!SetPage
<1>3. QED BY <1>1, <1>2 DEF A!TypeOK, A!SetPage

LEMMA AuditTypes == ASSUME AuditInv, A!Next PROVE A!TypeOK'
<1> USE TurnsAreBounded DEF AuditInv, A!TypeOK
<1>1. ASSUME NEW f \in A!Filters, A!SelectFilter(f) PROVE A!TypeOK'
  <2>1. logFetches' \in Seq(A!Query)
    BY <1>1, EffectIsTyped DEF A!SelectFilter
  <2>2. page' \in 0..LastPage /\ turns' \in 0..MaxTurns
    BY <1>1, TurnIsCounted DEF A!SelectFilter
  <2>3. QED BY <1>1, <2>1, <2>2 DEF A!SelectFilter
<1>2. ASSUME NEW text \in A!Searches, A!TypeSearch(text) PROVE A!TypeOK'
  BY <1>2, TurnIsCounted DEF A!TypeSearch
<1>3. CASE A!HandleSearch
  <2>1. page' \in 0..LastPage /\ turns' \in 0..MaxTurns
    BY <1>3, TurnIsCounted DEF A!HandleSearch
  <2>2. A!Effect(Append(logFetches, Now)) /\ Append(logFetches, Now) \in Seq(A!Query)
    BY <1>3, AskedIsTyped DEF A!HandleSearch, Now
  <2>3. actionFilter' \in A!Filters /\ search' \in A!Searches
    BY <1>3 DEF A!HandleSearch
  <2>4. logFetches' \in Seq(A!Query)
    BY <2>1, <2>2, <2>3, EffectIsTyped
  <2>5. QED BY <1>3, <2>1, <2>4 DEF A!HandleSearch
<1>4. CASE A!Previous
  <2>1. page - 1 \in 0..LastPage
    BY <1>4 DEF A!Previous
  <2>2. QED BY <1>4, <2>1, TurnedIsTyped DEF A!Previous
<1>5. CASE A!NextPage
  <2>1. page + 1 \in 0..LastPage
    BY <1>5 DEF A!NextPage
  <2>2. QED BY <1>5, <2>1, TurnedIsTyped DEF A!NextPage
<1>6. ASSUME NEW i \in DOMAIN logFetches, A!OnEntries(i) PROVE A!TypeOK'
  <2>1. logFetches' \in Seq(A!Query)
    BY <1>6, AnsweredIsTaken DEF A!OnEntries
  <2>2. logFetches[i] \in A!Query
    OBVIOUS
  <2>3. A!Pages(logFetches[i].filter, logFetches[i].search) \in 0..(LastPage + 1)
    BY DEF A!Pages
  <2>4. QED BY <1>6, <2>1, <2>2, <2>3 DEF A!OnEntries
<1>7. ASSUME NEW i \in DOMAIN logFetches, A!OnLost(i) PROVE A!TypeOK'
  <2>1. logFetches' \in Seq(A!Query)
    BY <1>7, AnsweredIsTaken DEF A!OnLost
  <2>2. QED BY <1>7, <2>1 DEF A!OnLost
<1>8. QED BY <1>1, <1>2, <1>3, <1>4, <1>5, <1>6, <1>7 DEF A!Next

LEMMA AskedStayInOrder ==
  ASSUME AuditInv, A!Next, ~logsCrossed', ~hasty' PROVE AskedInOrder'
<1> USE TurnsAreBounded DEF AuditInv, A!TypeOK, A!Turn
<1>1. ASSUME NEW f \in A!Filters, A!SelectFilter(f) PROVE AskedInOrder'
  BY <1>1 DEF A!SelectFilter, A!Effect, AskedInOrder, Now, A!Pages
<1>2. ASSUME NEW text \in A!Searches, A!TypeSearch(text) PROVE AskedInOrder'
  BY <1>2 DEF A!TypeSearch
<1>3. CASE A!HandleSearch
  BY <1>3 DEF A!HandleSearch, A!Effect, AskedInOrder, Now, A!Pages
<1>4. ASSUME NEW p \in 0..LastPage, p # page, A!SetPage(p), p < A!Pages(actionFilter, search) PROVE AskedInOrder'
  BY <1>4 DEF A!SetPage, A!Effect, AskedInOrder, Now
<1>5. CASE A!Previous
  <2>1. AskedInOrder
    BY <1>5 DEF A!Previous, A!SetPage
  <2>2. page - 1 \in 0..LastPage /\ page - 1 # page /\ page - 1 < A!Pages(actionFilter, search)
    BY <1>5, <2>1 DEF A!Previous, AskedInOrder, A!Pages
  <2>3. QED BY <1>5, <1>4, <2>2 DEF A!Previous
<1>5a. CASE A!NextPage
  <2>1. AskedInOrder /\ logFetches = << >> /\ ~logLost
    BY <1>5a DEF A!NextPage, A!SetPage
  <2>2. total = A!Pages(actionFilter, search)
    BY <2>1 DEF AskedInOrder
  <2>3. page + 1 \in 0..LastPage /\ page + 1 # page /\ page + 1 < A!Pages(actionFilter, search)
    BY <1>5a, <2>2 DEF A!NextPage
  <2>4. QED BY <1>5a, <1>4, <2>3 DEF A!NextPage
<1>6. ASSUME NEW i \in DOMAIN logFetches, A!OnEntries(i) PROVE AskedInOrder'
  <2>1. ~logsCrossed /\ i = 1
    BY <1>6 DEF A!OnEntries
  <2>2. AskedInOrder
    BY <1>6, <2>1 DEF A!OnEntries
  <2>3. logFetches' \in Seq(A!Query) /\ Len(logFetches') = Len(logFetches) - 1
        /\ \A j \in DOMAIN logFetches' : logFetches'[j] = logFetches[j + 1]
    BY <1>6, <2>1, AnsweredIsTaken DEF A!OnEntries
  <2>4. CASE Len(logFetches) = 1
    BY <1>6, <2>1, <2>2, <2>3, <2>4 DEF A!OnEntries, AskedInOrder, Now
  <2>5. CASE Len(logFetches) > 1
    BY <1>6, <2>1, <2>2, <2>3, <2>5 DEF A!OnEntries, AskedInOrder, Now
  <2>6. Len(logFetches) \in Nat \ {0}
    BY DEF A!TypeOK
  <2>7. Len(logFetches) = 1 \/ Len(logFetches) > 1
    BY <2>6, OneOrMore
  <2>8. QED BY <2>4, <2>5, <2>7
<1>7. ASSUME NEW i \in DOMAIN logFetches, A!OnLost(i) PROVE AskedInOrder'
  <2>1. ~logsCrossed /\ i = 1
    BY <1>7 DEF A!OnLost
  <2>2. AskedInOrder
    BY <1>7, <2>1 DEF A!OnLost
  <2>3. logFetches' \in Seq(A!Query) /\ Len(logFetches') = Len(logFetches) - 1
        /\ \A j \in DOMAIN logFetches' : logFetches'[j] = logFetches[j + 1]
    BY <1>7, <2>1, AnsweredIsTaken DEF A!OnLost
  <2>4. QED BY <1>7, <2>1, <2>2, <2>3 DEF A!OnLost, AskedInOrder, Now
<1>8. QED BY <1>1, <1>2, <1>3, <1>5, <1>5a, <1>6, <1>7 DEF A!Next

LEMMA AuditStep == ASSUME AuditInv, A!Next PROVE AuditInv'
BY AuditTypes, AskedStayInOrder DEF AuditInv

LEMMA AuditStutter == ASSUME AuditInv, UNCHANGED audit PROVE AuditInv'
BY DEF AuditInv, A!TypeOK, AskedInOrder, Now, audit

LEMMA AuditSafe == ASSUME AuditInv PROVE A!TypeOK /\ A!EntriesAreAsAsked
BY DEF AuditInv, AskedInOrder, Now, A!EntriesAreAsAsked

-----------------------------------------------------------------------------
(* Induction over the numbers, of sets                                     *)

\* A set of numbers has a least one.
LEMMA SmallestOf ==
  ASSUME NEW T \in SUBSET Nat, T # {}
  PROVE  \E n \in T : \A m \in T : n <= m
<1> DEFINE Less == {p \in Nat \X Nat : p[1] < p[2]}
<1>0. IsWellFoundedOn(Less, Nat)
  BY NatLessThanWellFounded DEF OpToRel
<1> HIDE DEF Less
<1>1. PICK n \in T : \A m \in T : ~(<<m, n>> \in Less)
  BY <1>0, WFMin
<1>2. ASSUME NEW m \in T PROVE n <= m
  <2>1. <<m, n>> \notin Less
    BY <1>1
  <2>2. m \in Nat /\ n \in Nat
    OBVIOUS
  <2>3. ~(m < n)
    BY <2>1, <2>2 DEF Less
  <2>4. QED
    BY <2>2, <2>3
<1>3. QED
  BY <1>2

\* A set that holds 0, and with a number the next, holds all of them.
LEMMA Numbers ==
  ASSUME NEW Hold, 0 \in Hold, \A n \in Nat : n \in Hold => n + 1 \in Hold
  PROVE  \A n \in Nat : n \in Hold
<1> SUFFICES ASSUME NEW k \in Nat, k \notin Hold PROVE FALSE
  OBVIOUS
<1> DEFINE T == {n \in Nat : n \notin Hold}
<1>1. PICK n \in T : \A m \in T : n <= m
  BY SmallestOf
<1>2. n # 0
  OBVIOUS
<1>3. n - 1 \in Nat /\ n - 1 \notin T
  BY <1>1, <1>2
<1>4. QED
  BY <1>3

-----------------------------------------------------------------------------
(* The search for the dependents of a resource                             *)

Pairs == V!Node \X V!Node

\* What a call of the search returns: what it has found before its last
\* reference, or what the search of that reference's origin adds.
Sooner(call) == [call EXCEPT !.seen = @ - 1]
Deeper(list, from, set) == [affected |-> set \cup {from}, id |-> from, seen |-> Len(list)]

Returned(list, f, call) ==
  IF call.seen = 0 THEN call.affected
  ELSE IF list[call.seen][2] = call.id /\ list[call.seen][1] \notin f[Sooner(call)]
       THEN f[Deeper(list, list[call.seen][1], f[Sooner(call)])]
       ELSE f[Sooner(call)]

\* The references whose origin is not affected: a call that goes on searching
\* has fewer of them.
Unaffected(list, set) == {k \in 1 .. Len(list) : list[k][1] \notin set}

Weight(list, call) == Cardinality(Unaffected(list, call.affected)) * (Len(list) + 1) + call.seen

LEMMA Counts ==
  ASSUME NEW list \in Seq(Pairs), NEW set
  PROVE  /\ IsFiniteSet(Unaffected(list, set))
         /\ Cardinality(Unaffected(list, set)) \in 0 .. Len(list)
         /\ Len(list) \in Nat
<1>1. Len(list) \in Nat
  OBVIOUS
<1>2. IsFiniteSet(1 .. Len(list)) /\ Cardinality(1 .. Len(list)) = Len(list)
  <2>1. ASSUME NEW n \in Nat PROVE IsFiniteSet(1 .. n) /\ Cardinality(1 .. n) = n
    <3>1. 1 \in Int /\ n \in Int /\ (IF 1 > n THEN 0 ELSE n - 1 + 1) = n
      OBVIOUS
    <3>2. IsFiniteSet(1 .. n) /\ Cardinality(1 .. n) = IF 1 > n THEN 0 ELSE n - 1 + 1
      BY <3>1, FS_Interval
    <3>3. QED
      BY <3>1, <3>2
  <2>2. QED
    BY <1>1, <2>1
<1>3. Unaffected(list, set) \in SUBSET (1 .. Len(list))
  BY DEF Unaffected
<1>4. QED
  BY <1>1, <1>2, <1>3, FS_Subset, FS_CardinalityType

LEMMA Lighter ==
  ASSUME NEW a \in Nat, NEW b \in Nat, a < b, NEW n \in Nat, NEW k \in Nat
  PROVE  a * (n + 1) + n < b * (n + 1) + k
<1>1. PICK d \in Nat : b = a + 1 + d
  <2>1. b - a - 1 \in Nat /\ b = a + 1 + (b - a - 1)
    OBVIOUS
  <2>2. QED
    BY <2>1
<1>2. b * (n + 1) = a * (n + 1) + (n + 1) + d * (n + 1)
  BY <1>1
<1>3. a * (n + 1) \in Nat /\ d * (n + 1) \in Nat /\ b * (n + 1) \in Nat
  OBVIOUS
<1>4. QED
  BY <1>2, <1>3

LEMMA WeightType ==
  ASSUME NEW list \in Seq(Pairs), NEW call \in V!Calls(list)
  PROVE  Weight(list, call) \in Nat /\ Weight(list, call) < (Len(list) + 1) * (Len(list) + 1)
<1> DEFINE n == Len(list)
           u == Cardinality(Unaffected(list, call.affected))
<1>1. u \in 0 .. n /\ n \in Nat
  BY Counts
<1>2. call.seen \in 0 .. n
  BY DEF V!Calls
<1>3. u * (n + 1) \in Nat /\ n * (n + 1) \in Nat /\ (n + 1) * (n + 1) = n * (n + 1) + n + 1
  BY <1>1
<1>4. u * (n + 1) <= n * (n + 1)
  <2>1. PICK d \in Nat : n = u + d
    <3>1. n - u \in Nat /\ n = u + (n - u)
      BY <1>1
    <3>2. QED
      BY <3>1
  <2>2. n * (n + 1) = u * (n + 1) + d * (n + 1)
    BY <1>1, <2>1
  <2>3. d * (n + 1) \in Nat
    BY <1>1
  <2>4. QED
    BY <1>3, <2>2, <2>3
<1> HIDE DEF n, u
<1>5. QED
  BY <1>1, <1>2, <1>3, <1>4 DEF Weight, n, u

\* The calls in a call are lighter.
LEMMA SoonerIsLighter ==
  ASSUME NEW list \in Seq(Pairs), NEW call \in V!Calls(list), call.seen # 0
  PROVE  /\ Sooner(call) \in V!Calls(list)
         /\ Sooner(call).affected = call.affected
         /\ Sooner(call).id = call.id
         /\ Sooner(call).seen = call.seen - 1
         /\ Weight(list, Sooner(call)) < Weight(list, call)
         /\ list[call.seen] \in Pairs
<1>1. Len(list) \in Nat /\ call.seen \in 1 .. Len(list)
  BY DEF V!Calls
<1>2. /\ Sooner(call) \in V!Calls(list) /\ Sooner(call).affected = call.affected
      /\ Sooner(call).id = call.id /\ Sooner(call).seen = call.seen - 1
  BY <1>1 DEF V!Calls, Sooner
<1>3. Weight(list, Sooner(call)) < Weight(list, call)
  <2>1. Cardinality(Unaffected(list, call.affected)) \in Nat
    BY Counts
  <2>2. Cardinality(Unaffected(list, call.affected)) * (Len(list) + 1) \in Nat
    BY <1>1, <2>1
  <2>3. QED
    BY <1>1, <1>2, <2>2 DEF Weight
<1>4. list[call.seen] \in Pairs
  BY <1>1
<1>5. QED
  BY <1>2, <1>3, <1>4

LEMMA DeeperIsLighter ==
  ASSUME NEW list \in Seq(Pairs), NEW call \in V!Calls(list), call.seen # 0,
         NEW set \in SUBSET V!Node, call.affected \subseteq set, list[call.seen][1] \notin set
  PROVE  /\ Deeper(list, list[call.seen][1], set) \in V!Calls(list)
         /\ Weight(list, Deeper(list, list[call.seen][1], set)) < Weight(list, call)
<1> DEFINE from == list[call.seen][1]
           U == Unaffected(list, call.affected)
           T == Unaffected(list, set \cup {from})
<1>1. Len(list) \in Nat /\ call.seen \in 1 .. Len(list)
  BY DEF V!Calls
<1>2. from \in V!Node
  BY <1>1 DEF Pairs
<1>3. Deeper(list, from, set) \in V!Calls(list)
  BY <1>1, <1>2 DEF V!Calls, Deeper
<1>4. T \in SUBSET U /\ call.seen \in U /\ call.seen \notin T
  BY <1>1 DEF Unaffected
<1>5. IsFiniteSet(U) /\ Cardinality(U) \in Nat /\ Cardinality(T) \in Nat
  BY Counts
<1>6. Cardinality(T) < Cardinality(U)
  <2>1. Cardinality(T) <= Cardinality(U) /\ (Cardinality(U) = Cardinality(T) => U = T)
    BY <1>4, <1>5, FS_Subset
  <2>2. QED
    BY <1>4, <1>5, <2>1
<1>7. Cardinality(T) * (Len(list) + 1) + Len(list) < Cardinality(U) * (Len(list) + 1) + call.seen
  <2>1. call.seen \in Nat
    BY <1>1
  <2> HIDE DEF T, U
  <2>2. QED
    BY ONLY <1>1, <1>5, <1>6, <2>1, Lighter, Zenon
<1>8. QED
  BY <1>3, <1>7 DEF Weight, Deeper

\* The calls lighter than a bound.
Light(list, m) == {call \in V!Calls(list) : Weight(list, call) < m}

\* A function that is the search on the lighter calls.
Searches(list, m, f) ==
  /\ f = [call \in Light(list, m) |-> Returned(list, f, call)]
  /\ \A call \in Light(list, m) : f[call] \in SUBSET V!Node /\ call.affected \subseteq f[call]

LEMMA SearchGoesOn ==
  ASSUME NEW list \in Seq(Pairs), NEW m \in Nat, NEW f, Searches(list, m, f)
  PROVE  \E g : Searches(list, m + 1, g)
<1> DEFINE D == Light(list, m)
           E == Light(list, m + 1)
           g == [call \in E |-> Returned(list, f, call)]
<1>1. \A call \in V!Calls(list) : Weight(list, call) \in Nat
  BY WeightType
<1>2. D \subseteq E
  BY <1>1 DEF Light
<1>3. \A call \in D : g[call] = f[call]
  BY <1>2 DEF Searches
<1>4. ASSUME NEW call \in E
      PROVE  /\ Returned(list, g, call) = Returned(list, f, call)
             /\ Returned(list, f, call) \in SUBSET V!Node
             /\ call.affected \subseteq Returned(list, f, call)
  <2>1. call \in V!Calls(list) /\ Weight(list, call) <= m
    BY <1>1 DEF Light
  <2>2. CASE call.seen = 0
    BY <2>1, <2>2 DEF Returned, V!Calls
  <2>3. CASE call.seen # 0
    <3>1. Sooner(call) \in V!Calls(list) /\ Sooner(call).affected = call.affected
          /\ Weight(list, Sooner(call)) < Weight(list, call) /\ list[call.seen] \in Pairs
      BY <2>1, <2>3, SoonerIsLighter
    <3>2. Sooner(call) \in D
      BY <1>1, <2>1, <3>1 DEF Light
    <3>3. f[Sooner(call)] \in SUBSET V!Node /\ call.affected \subseteq f[Sooner(call)]
      BY <3>1, <3>2 DEF Searches
    <3>4. g[Sooner(call)] = f[Sooner(call)]
      BY <1>3, <3>2
    <3>5. CASE list[call.seen][1] \notin f[Sooner(call)]
      <4> DEFINE next == Deeper(list, list[call.seen][1], f[Sooner(call)])
      <4>1. next \in V!Calls(list) /\ Weight(list, next) < Weight(list, call)
        BY <2>1, <2>3, <3>3, <3>5, DeeperIsLighter
      <4>2. next \in D
        BY <1>1, <2>1, <4>1 DEF Light
      <4>3. g[next] = f[next]
        BY <1>3, <4>2
      <4>4. f[next] \in SUBSET V!Node /\ next.affected \subseteq f[next]
        BY <4>2 DEF Searches
      <4>5. f[Sooner(call)] \subseteq next.affected
        BY DEF Deeper
      <4> HIDE DEF g, next
      <4>6. call.affected \subseteq f[next]
        BY <3>3, <4>4, <4>5
      <4>7. QED
        BY <2>3, <3>3, <3>4, <4>3, <4>4, <4>6 DEF Returned, next
    <3>6. CASE list[call.seen][1] \in f[Sooner(call)]
      <4> HIDE DEF g
      <4>1. QED
        BY <2>3, <3>3, <3>4, <3>6 DEF Returned
    <3>7. QED
      BY <3>5, <3>6
  <2>4. QED
    BY <2>2, <2>3
<1>5. g = [call \in E |-> Returned(list, g, call)]
  <2>1. \A call \in E : Returned(list, f, call) = Returned(list, g, call)
    BY <1>4
  <2> HIDE DEF E
  <2>2. g = [call \in E |-> Returned(list, f, call)]
    OBVIOUS
  <2> HIDE DEF g
  <2>3. QED
    BY <2>1, <2>2
<1>6. \A call \in E : g[call] = Returned(list, f, call)
  OBVIOUS
<1> HIDE DEF g, D, E
<1>7. Searches(list, m + 1, g)
  BY <1>4, <1>5, <1>6 DEF Searches, E
<1>8. QED
  BY <1>7

LEMMA SearchExists ==
  ASSUME NEW list \in Seq(Pairs)
  PROVE  \A m \in Nat : \E f : Searches(list, m, f)
<1> DEFINE Hold == {m \in Nat : \E f : Searches(list, m, f)}
<1>1. 0 \in Hold
  <2>1. Light(list, 0) = {}
    BY WeightType DEF Light
  <2>2. \A f : f = [call \in {} |-> 0] => Searches(list, 0, f)
    BY <2>1 DEF Searches
  <2>3. QED
    BY <2>2
<1>2. \A m \in Nat : m \in Hold => m + 1 \in Hold
  BY SearchGoesOn
<1> HIDE DEF Hold
<1>3. \A m \in Nat : m \in Hold
  BY <1>1, <1>2, Numbers
<1>4. QED
  BY <1>3 DEF Hold

\* The recursive definition of the search has a solution, which it is.
LEMMA SearchIsDefined ==
  ASSUME NEW list \in Seq(Pairs)
  PROVE  V!FindDependents(list) =
           [call \in V!Calls(list) |-> Returned(list, V!FindDependents(list), call)]
<1> DEFINE M == (Len(list) + 1) * (Len(list) + 1)
<1>1. M \in Nat /\ Light(list, M) = V!Calls(list)
  BY WeightType DEF Light
<1>2. PICK f : Searches(list, M, f)
  BY <1>1, SearchExists
<1>3. f = [call \in V!Calls(list) |-> Returned(list, f, call)]
  BY <1>1, <1>2 DEF Searches
<1>4. V!FindDependents(list) =
        CHOOSE find : find = [call \in V!Calls(list) |-> Returned(list, find, call)]
  BY DEF V!FindDependents, Returned, Sooner, Deeper
<1>5. QED
  BY <1>3, <1>4

\* What holds of a call when it holds of all lighter ones holds of every call.
LEMMA CallInduction ==
  ASSUME NEW list \in Seq(Pairs), NEW Hold,
         \A call \in V!Calls(list) : Light(list, Weight(list, call)) \subseteq Hold => call \in Hold
  PROVE  \A call \in V!Calls(list) : call \in Hold
<1> SUFFICES ASSUME NEW bad \in V!Calls(list), bad \notin Hold PROVE FALSE
  OBVIOUS
<1> DEFINE T == {n \in Nat : \E call \in V!Calls(list) : call \notin Hold /\ Weight(list, call) = n}
<1>1. T # {}
  BY WeightType
<1>2. PICK n \in T : \A m \in T : n <= m
  BY <1>1, SmallestOf
<1>3. PICK call \in V!Calls(list) : call \notin Hold /\ Weight(list, call) = n
  BY <1>2
<1>4. Light(list, Weight(list, call)) \subseteq Hold
  <2>1. SUFFICES ASSUME NEW c \in V!Calls(list), Weight(list, c) < n PROVE c \in Hold
    BY <1>3 DEF Light
  <2>2. Weight(list, c) \in Nat /\ n \in Nat
    BY WeightType
  <2>3. Weight(list, c) \notin T
    BY <1>2, <2>1, <2>2
  <2>4. QED
    BY <2>2, <2>3
<1>5. QED
  BY <1>3, <1>4

\* What the search makes of a call: the case of no reference seen, of a last
\* reference that leads nowhere new, and of one that leads deeper.
LEMMA SearchCases ==
  ASSUME NEW list \in Seq(Pairs), NEW f,
         f = [call \in V!Calls(list) |-> Returned(list, f, call)],
         NEW call \in V!Calls(list)
  PROVE  /\ call.seen = 0 => f[call] = call.affected
         /\ call.seen # 0 /\ ~(list[call.seen][2] = call.id /\ list[call.seen][1] \notin f[Sooner(call)])
              => f[call] = f[Sooner(call)]
         /\ call.seen # 0 /\ list[call.seen][2] = call.id /\ list[call.seen][1] \notin f[Sooner(call)]
              => f[call] = f[Deeper(list, list[call.seen][1], f[Sooner(call)])]
<1>1. f[call] = Returned(list, f, call)
  OBVIOUS
<1>2. QED
  BY <1>1 DEF Returned

\* No call forgets what is affected.
LEMMA SearchGrows ==
  ASSUME NEW list \in Seq(Pairs), NEW f,
         f = [call \in V!Calls(list) |-> Returned(list, f, call)]
  PROVE  \A call \in V!Calls(list) : f[call] \in SUBSET V!Node /\ call.affected \subseteq f[call]
<1> DEFINE Hold == {call \in V!Calls(list) : f[call] \in SUBSET V!Node /\ call.affected \subseteq f[call]}
<1>1. ASSUME NEW call \in V!Calls(list), Light(list, Weight(list, call)) \subseteq Hold
      PROVE  call \in Hold
  <2>1. CASE call.seen = 0
    <3>1. f[call] = call.affected
      BY <2>1, SearchCases
    <3>2. call.affected \in SUBSET V!Node
      BY DEF V!Calls
    <3>3. QED
      BY <3>1, <3>2
  <2>2. CASE call.seen # 0
    <3>1. Sooner(call) \in V!Calls(list) /\ Sooner(call).affected = call.affected
          /\ Weight(list, Sooner(call)) < Weight(list, call)
      BY <2>2, SoonerIsLighter
    <3>2. f[Sooner(call)] \in SUBSET V!Node /\ call.affected \subseteq f[Sooner(call)]
      BY <1>1, <3>1 DEF Light
    <3>3. CASE list[call.seen][2] = call.id /\ list[call.seen][1] \notin f[Sooner(call)]
      <4> DEFINE next == Deeper(list, list[call.seen][1], f[Sooner(call)])
      <4>1. next \in V!Calls(list) /\ Weight(list, next) < Weight(list, call)
        BY <2>2, <3>2, <3>3, DeeperIsLighter
      <4>2. f[next] \in SUBSET V!Node /\ next.affected \subseteq f[next]
        BY <1>1, <4>1 DEF Light
      <4>3. f[Sooner(call)] \subseteq next.affected
        BY DEF Deeper
      <4>4. f[call] = f[next]
        BY <2>2, <3>3, SearchCases
      <4> HIDE DEF next
      <4>5. QED
        BY <3>2, <4>2, <4>3, <4>4
    <3>4. CASE ~(list[call.seen][2] = call.id /\ list[call.seen][1] \notin f[Sooner(call)])
      <4>1. f[call] = f[Sooner(call)]
        BY <2>2, <3>4, SearchCases
      <4>2. QED
        BY <3>2, <4>1
    <3>5. QED
      BY <3>3, <3>4
  <2>3. QED
    BY <2>1, <2>2
<1> HIDE DEF Hold
<1>2. \A call \in V!Calls(list) : call \in Hold
  BY <1>1, CallInduction
<1>3. QED
  BY <1>2 DEF Hold

\* What a call adds is closed: the origins of the references to it that have
\* been seen are affected afterwards, and so are those of all references to
\* what it has added.
Closes(list, call, after) ==
  /\ \A k \in 1 .. call.seen : list[k][2] = call.id => list[k][1] \in after
  /\ \A k \in 1 .. Len(list) : list[k][2] \in after \ call.affected => list[k][1] \in after

LEMMA SearchCloses ==
  ASSUME NEW list \in Seq(Pairs), NEW f,
         f = [call \in V!Calls(list) |-> Returned(list, f, call)]
  PROVE  \A call \in V!Calls(list) : Closes(list, call, f[call])
<1> DEFINE Hold == {call \in V!Calls(list) : Closes(list, call, f[call])}
<1>1. ASSUME NEW call \in V!Calls(list), Light(list, Weight(list, call)) \subseteq Hold
      PROVE  call \in Hold
  <2>1. CASE call.seen = 0
    <3>1. f[call] = call.affected
      BY <2>1, SearchCases
    <3>2. QED
      BY <2>1, <3>1 DEF Closes
  <2>2. CASE call.seen # 0
    <3> DEFINE k == call.seen
               before == f[Sooner(call)]
    <3>1. Sooner(call) \in V!Calls(list) /\ Sooner(call).affected = call.affected
          /\ Sooner(call).id = call.id /\ Sooner(call).seen = k - 1
          /\ Weight(list, Sooner(call)) < Weight(list, call)
      BY <2>2, SoonerIsLighter
    <3>2. before \in SUBSET V!Node /\ call.affected \subseteq before
      BY <3>1, SearchGrows
    <3>3. Closes(list, Sooner(call), before)
      BY <1>1, <3>1 DEF Light
    <3>4. k \in 1 .. Len(list) /\ Len(list) \in Nat
      BY <2>2 DEF V!Calls
    <3>5. \A j \in 1 .. k : j = k \/ j \in 1 .. (k - 1)
      BY <3>4
    <3> HIDE DEF before
    <3>6. CASE list[k][2] = call.id /\ list[k][1] \notin before
      <4> DEFINE from == list[k][1]
                 next == Deeper(list, from, before)
      <4>1. next \in V!Calls(list) /\ Weight(list, next) < Weight(list, call)
        BY <2>2, <3>2, <3>6, DeeperIsLighter
      <4>2. next.affected = before \cup {from} /\ next.id = from /\ next.seen = Len(list)
        BY DEF Deeper
      <4>3. f[call] = f[next]
        BY <2>2, <3>6, SearchCases DEF before
      <4> HIDE DEF next
      <4>4. Closes(list, next, f[next])
        BY <1>1, <4>1 DEF Light
      <4>5. before \cup {from} \subseteq f[next]
        BY <4>1, <4>2, SearchGrows
      <4>6. ASSUME NEW j \in 1 .. k, list[j][2] = call.id PROVE list[j][1] \in f[next]
        BY <3>1, <3>3, <3>5, <4>5, <4>6 DEF Closes
      <4>7. ASSUME NEW j \in 1 .. Len(list), list[j][2] \in f[next] \ call.affected
            PROVE  list[j][1] \in f[next]
        <5>1. CASE list[j][2] \in before
          BY <3>1, <3>3, <4>5, <4>7, <5>1 DEF Closes
        <5>2. CASE list[j][2] = from
          BY <4>2, <4>4, <5>2 DEF Closes
        <5>3. CASE list[j][2] \notin before \cup {from}
          BY <4>2, <4>4, <4>7, <5>3 DEF Closes
        <5>4. QED
          BY <5>1, <5>2, <5>3
      <4>8. QED
        BY <4>3, <4>6, <4>7 DEF Closes
    <3>7. CASE ~(list[k][2] = call.id /\ list[k][1] \notin before)
      <4>1. f[call] = before
        BY <2>2, <3>7, SearchCases DEF before
      <4>2. QED
        BY <3>1, <3>3, <3>5, <3>7, <4>1 DEF Closes
    <3>8. QED
      BY <3>6, <3>7
  <2>3. QED
    BY <2>1, <2>2
<1> HIDE DEF Hold
<1>2. \A call \in V!Calls(list) : call \in Hold
  BY <1>1, CallInduction
<1>3. QED
  BY <1>2 DEF Hold

\* A call adds nothing outside a set that is closed already.
LEMMA SearchIsLeast ==
  ASSUME NEW list \in Seq(Pairs), NEW f,
         f = [call \in V!Calls(list) |-> Returned(list, f, call)],
         NEW set, NEW id,
         \A k \in 1 .. Len(list) : list[k][2] \in set \cup {id} => list[k][1] \in set
  PROVE  \A call \in V!Calls(list) :
           call.id \in set \cup {id} /\ call.affected \subseteq set => f[call] \subseteq set
<1> DEFINE Hold == {call \in V!Calls(list) :
                   call.id \in set \cup {id} /\ call.affected \subseteq set => f[call] \subseteq set}
<1>1. ASSUME NEW call \in V!Calls(list), Light(list, Weight(list, call)) \subseteq Hold
      PROVE  call \in Hold
  <2> SUFFICES ASSUME call.id \in set \cup {id}, call.affected \subseteq set
               PROVE  f[call] \subseteq set
    OBVIOUS
  <2>1. CASE call.seen = 0
    BY <2>1, SearchCases
  <2>2. CASE call.seen # 0
    <3> DEFINE before == f[Sooner(call)]
    <3>1. Sooner(call) \in V!Calls(list) /\ Sooner(call).affected = call.affected
          /\ Sooner(call).id = call.id /\ Weight(list, Sooner(call)) < Weight(list, call)
      BY <2>2, SoonerIsLighter
    <3>2. before \subseteq set
      BY <1>1, <3>1 DEF Light
    <3>3. before \in SUBSET V!Node /\ call.affected \subseteq before
      BY <3>1, SearchGrows
    <3>4. call.seen \in 1 .. Len(list)
      BY <2>2 DEF V!Calls
    <3> HIDE DEF before
    <3>5. CASE list[call.seen][2] = call.id /\ list[call.seen][1] \notin before
      <4> DEFINE from == list[call.seen][1]
                 next == Deeper(list, from, before)
      <4>1. next \in V!Calls(list) /\ Weight(list, next) < Weight(list, call)
        BY <2>2, <3>3, <3>5, DeeperIsLighter
      <4>2. next.affected = before \cup {from} /\ next.id = from
        BY DEF Deeper
      <4>3. f[call] = f[next]
        BY <2>2, <3>5, SearchCases DEF before
      <4>4. from \in set
        BY <3>4, <3>5
      <4> HIDE DEF next, from
      <4>5. f[next] \subseteq set
        BY <1>1, <3>2, <4>1, <4>2, <4>4 DEF Light
      <4>6. QED
        BY <4>3, <4>5
    <3>6. CASE ~(list[call.seen][2] = call.id /\ list[call.seen][1] \notin before)
      <4>1. f[call] = before
        BY <2>2, <3>6, SearchCases DEF before
      <4>2. QED
        BY <3>2, <4>1
    <3>7. QED
      BY <3>5, <3>6
  <2>3. QED
    BY <2>1, <2>2
<1> HIDE DEF Hold
<1>2. \A call \in V!Calls(list) : call \in Hold
  BY <1>1, CallInduction
<1>3. QED
  BY <1>2 DEF Hold

\* A finite set of references can be listed, and the list has them all.
LEMMA EdgesAreListed ==
  ASSUME NEW edges \in SUBSET Pairs, IsFiniteSet(edges)
  PROVE  /\ V!SetToSeq(edges) \in Seq(Pairs)
         /\ \A k \in 1 .. Len(V!SetToSeq(edges)) : V!SetToSeq(edges)[k] \in edges
         /\ \A e \in edges : \E k \in 1 .. Len(V!SetToSeq(edges)) : V!SetToSeq(edges)[k] = e
<1> DEFINE n == Cardinality(edges)
           list == V!SetToSeq(edges)
<1>1. n \in Nat /\ ExistsBijection(1 .. n, edges)
  BY FS_CardinalityType
<1>2. PICK f : f \in Bijection(1 .. n, edges)
  BY <1>1 DEF ExistsBijection
<1>3. \A g : V!IsInjective(g) = IsInjective(g)
  BY DEF V!IsInjective, IsInjective
<1>4. f \in [1 .. n -> edges] /\ V!IsInjective(f)
  BY <1>2, <1>3 DEF Bijection, Injection
<1>5. V!Cardinality(edges) = n
  BY DEF V!Cardinality, Cardinality
<1>6. list = CHOOSE g \in [1 .. n -> edges] : V!IsInjective(g)
  BY <1>5 DEF V!SetToSeq
<1> HIDE DEF list, n
<1>7. list \in [1 .. n -> edges] /\ V!IsInjective(list)
  BY <1>4, <1>6
<1>8. list \in Injection(1 .. n, edges)
  BY <1>3, <1>7 DEF Injection
<1>9. IsFiniteSet(1 .. n) /\ Cardinality(1 .. n) = Cardinality(edges)
  BY <1>1, FS_Interval DEF n
<1>10. list \in Surjection(1 .. n, edges)
  BY <1>8, <1>9, FS_Injection
<1>11. list \in Seq(Pairs) /\ Len(list) = n
  BY <1>1, <1>7
<1>12. QED
  BY <1>7, <1>10, <1>11 DEF Surjection, list

\* The blast radius is the least set that holds the origin of every reference
\* to the resource, and to what is in it: whatever the references and the order
\* they are listed in, with cycles among them or not (GraphPage.js:133-145).
THEOREM RadiusIsLeast ==
  ASSUME NEW edges \in SUBSET Pairs, IsFiniteSet(edges), NEW id \in V!Node
  PROVE  /\ \A e \in edges : e[2] = id \/ e[2] \in V!GetBlastRadius(edges, id)
                               => e[1] \in V!GetBlastRadius(edges, id)
         /\ \A set : (\A e \in edges : e[2] = id \/ e[2] \in set => e[1] \in set)
                       => V!GetBlastRadius(edges, id) \subseteq set
<1> DEFINE list == V!SetToSeq(edges)
           f == V!FindDependents(list)
           call == [affected |-> {}, id |-> id, seen |-> Len(list)]
<1>1. /\ list \in Seq(Pairs) /\ \A k \in 1 .. Len(list) : list[k] \in edges
      /\ \A e \in edges : \E k \in 1 .. Len(list) : list[k] = e
  BY EdgesAreListed
<1>2. V!GetBlastRadius(edges, id) = f[call]
  BY DEF V!GetBlastRadius
<1> HIDE DEF list
<1>3. f = [c \in V!Calls(list) |-> Returned(list, f, c)]
  BY <1>1, SearchIsDefined
<1>4. call \in V!Calls(list) /\ call.affected = {} /\ call.id = id /\ call.seen = Len(list)
  BY <1>1 DEF V!Calls
<1> HIDE DEF f, call
<1>5. Closes(list, call, f[call])
  BY <1>1, <1>3, <1>4, SearchCloses
<1>6. ASSUME NEW e \in edges, e[2] = id \/ e[2] \in f[call] PROVE e[1] \in f[call]
  BY <1>1, <1>4, <1>5, <1>6 DEF Closes
<1>7. ASSUME NEW set, \A e \in edges : e[2] = id \/ e[2] \in set => e[1] \in set
      PROVE  f[call] \subseteq set
  <2>1. \A k \in 1 .. Len(list) : list[k][2] \in set \cup {id} => list[k][1] \in set
    BY <1>1, <1>7
  <2>2. QED
    BY <1>1, <1>3, <1>4, <2>1, SearchIsLeast
<1>8. QED
  BY <1>2, <1>6, <1>7

-----------------------------------------------------------------------------
(* The layout of the graph                                                 *)

Cursor == [left : Nat, right : Nat, y : Nat, high : Nat]

\* Each cursor follows from the one before.
LEMMA CursorsAreDefined ==
  ASSUME NEW sizes \in Seq(Nat)
  PROVE  /\ V!Cursors(sizes)[0] = V!Corner
         /\ \A i \in 1 .. Len(sizes) :
              V!Cursors(sizes)[i] = V!Place(V!Cursors(sizes)[i - 1], sizes[i])
<1> DEFINE n == Len(sizes)
           Row(f, i) == IF i = 0 THEN V!Corner ELSE V!Place(f[i - 1], sizes[i])
           Hold == {k \in Nat : \E f : f = [i \in 0 .. k |-> Row(f, i)]}
<1>1. 0 \in Hold
  <2> DEFINE f == [i \in 0 .. 0 |-> V!Corner]
  <2>1. \A i \in 0 .. 0 : i = 0
    OBVIOUS
  <2>2. f = [i \in 0 .. 0 |-> Row(f, i)]
    BY <2>1
  <2>3. QED
    BY <2>2
<1>2. ASSUME NEW k \in Nat, k \in Hold PROVE k + 1 \in Hold
  <2>1. PICK f : f = [i \in 0 .. k |-> Row(f, i)]
    BY <1>2
  <2> DEFINE g == [i \in 0 .. (k + 1) |-> Row(f, i)]
  <2>2. \A i \in 0 .. k : g[i] = f[i]
    <3>1. \A i \in 0 .. k : i \in 0 .. (k + 1)
      OBVIOUS
    <3> HIDE DEF Row
    <3>2. \A i \in 0 .. k : g[i] = Row(f, i) /\ f[i] = Row(f, i)
      BY <2>1, <3>1
    <3>3. QED
      BY <3>2
  <2>3. \A i \in 0 .. (k + 1) : Row(g, i) = Row(f, i)
    <3> HIDE DEF g
    <3>1. ASSUME NEW i \in 0 .. (k + 1), i # 0 PROVE g[i - 1] = f[i - 1]
      BY <2>2, <3>1
    <3>2. QED
      BY <3>1
  <2>4. g = [i \in 0 .. (k + 1) |-> Row(g, i)]
    <3> HIDE DEF Row
    <3>1. g = [i \in 0 .. (k + 1) |-> Row(f, i)]
      OBVIOUS
    <3> HIDE DEF g
    <3>2. QED
      BY <2>3, <3>1
  <2> HIDE DEF g, Row
  <2>5. QED
    BY <2>4
<1> HIDE DEF Hold
<1>3. n \in Hold
  BY <1>1, <1>2, Numbers
<1> USE DEF Hold
<1>4. PICK f : f = [i \in 0 .. n |-> Row(f, i)]
  BY <1>3
<1>5. V!Cursors(sizes) = CHOOSE cursor : cursor = [i \in 0 .. n |-> Row(cursor, i)]
  BY DEF V!Cursors
<1> HIDE DEF Row
<1>6. V!Cursors(sizes) = [i \in 0 .. n |-> Row(V!Cursors(sizes), i)]
  BY <1>4, <1>5
<1>7. \A i \in 0 .. n : V!Cursors(sizes)[i] = Row(V!Cursors(sizes), i)
  BY <1>6
<1>8. 0 \in 0 .. n /\ \A i \in 1 .. n : i \in 0 .. n /\ i # 0
  OBVIOUS
<1>9. QED
  BY <1>7, <1>8 DEF Row

\* A box is at least one resource wide, and at most a row of them.
LEMMA BoxSize ==
  ASSUME NEW n \in Nat \ {0}
  PROVE  V!Width(n) \in Nat /\ V!Width(n) <= 348 /\ V!Height(n) \in Nat
BY DEF V!Width, V!Height, V!PerRow, V!SpacingX, V!SpacingY, V!GroupPadding, V!GroupHeader

\* A group comes to the right of the last in its row, or below all of it.
ComesNext(cursor, n, next) ==
  /\ next \in Cursor
  /\ next.right = next.left + V!Width(n) + 40 /\ next.right <= 1200
  /\ next.y + V!Height(n) <= next.y + next.high
  /\ \/ next.y = cursor.y /\ next.left = cursor.right /\ cursor.high <= next.high
     \/ next.y = cursor.y + cursor.high + 40

LEMMA PlaceBox ==
  ASSUME NEW cursor \in Cursor, NEW n \in Nat \ {0}
  PROVE  ComesNext(cursor, n, V!Place(cursor, n))
<1> DEFINE next == V!Place(cursor, n)
<1>1. V!Width(n) \in Nat /\ V!Width(n) <= 348 /\ V!Height(n) \in Nat
  BY BoxSize
<1>2. cursor.right \in Nat /\ cursor.y \in Nat /\ cursor.high \in Nat
  BY DEF Cursor
<1>3. /\ next \in Cursor
      /\ next.right = next.left + V!Width(n) + 40 /\ next.right <= 1200
      /\ next.y + V!Height(n) <= next.y + next.high
      /\ \/ next.y = cursor.y /\ next.left = cursor.right /\ cursor.high <= next.high
         \/ next.y = cursor.y + cursor.high + 40
  BY <1>1, <1>2 DEF V!Place, V!Larger, V!GroupGap, V!MaxRowWidth, Cursor
<1> HIDE DEF next
<1>4. ComesNext(cursor, n, next)
  BY <1>3 DEF ComesNext
<1>5. QED
  BY <1>4 DEF next

\* After i groups: each earlier one ends left of the cursor in its row, or
\* above the row, and none is wider than a row.
Placed(c, sizes, i) ==
  /\ c[i] \in Cursor
  /\ \A j \in 1 .. i :
       /\ c[j] \in Cursor
       /\ c[j].right = c[j].left + V!Width(sizes[j]) + 40 /\ c[j].right <= 1200
       /\ c[j].y + V!Height(sizes[j]) <= c[i].y + c[i].high
       /\ \/ c[j].y = c[i].y /\ c[j].right <= c[i].right
          \/ c[j].y + V!Height(sizes[j]) + 40 <= c[i].y

\* A group and an earlier one.
Beyond(c, sizes, j, i) ==
  \/ c[j].right <= c[i].left
  \/ c[j].y + V!Height(sizes[j]) + 40 <= c[i].y

LEMMA PlaceNext ==
  ASSUME NEW c, NEW sizes, NEW i \in Nat, \A j \in 1 .. (i + 1) : sizes[j] \in Nat \ {0},
         c[i + 1] = V!Place(c[i], sizes[i + 1]), Placed(c, sizes, i)
  PROVE  Placed(c, sizes, i + 1) /\ \A j \in 1 .. i : Beyond(c, sizes, j, i + 1)
<1> DEFINE n == sizes[i + 1]
           next == c[i + 1]
<1>1. i + 1 \in 1 .. (i + 1) /\ \A j \in 1 .. (i + 1) : j \in 1 .. i \/ j = i + 1
  OBVIOUS
<1>2. n \in Nat \ {0} /\ V!Width(n) \in Nat
  BY <1>1, BoxSize
<1>3. /\ next \in Cursor
      /\ next.right = next.left + V!Width(n) + 40 /\ next.right <= 1200
      /\ next.y + V!Height(n) <= next.y + next.high
      /\ \/ next.y = c[i].y /\ next.left = c[i].right /\ c[i].high <= next.high
         \/ next.y = c[i].y + c[i].high + 40
  <2>1. c[i] \in Cursor
    BY DEF Placed
  <2>2. ComesNext(c[i], n, next)
    BY <1>2, <2>1, PlaceBox
  <2> HIDE DEF next, n
  <2>3. QED
    BY <2>2 DEF ComesNext
<1>4. /\ next.left \in Nat /\ next.right \in Nat /\ next.y \in Nat /\ next.high \in Nat
      /\ c[i].right \in Nat /\ c[i].y \in Nat /\ c[i].high \in Nat
  BY <1>3 DEF Placed, Cursor
<1> HIDE DEF next, n
<1>5. ASSUME NEW j \in 1 .. i
      PROVE  /\ c[j].y + V!Height(sizes[j]) <= next.y + next.high
             /\ \/ c[j].y = next.y /\ c[j].right <= next.left /\ c[j].right <= next.right
                \/ c[j].y + V!Height(sizes[j]) + 40 <= next.y
  <2>1. V!Height(sizes[j]) \in Nat
    BY BoxSize
  <2>2. c[j].y \in Nat /\ c[j].right \in Nat
    BY DEF Placed, Cursor
  <2>3. /\ c[j].y + V!Height(sizes[j]) <= c[i].y + c[i].high
        /\ \/ c[j].y = c[i].y /\ c[j].right <= c[i].right
           \/ c[j].y + V!Height(sizes[j]) + 40 <= c[i].y
    BY DEF Placed
  <2>4. QED
    BY <1>2, <1>3, <1>4, <2>1, <2>2, <2>3
<1>6. \A j \in 1 .. i :
        /\ c[j] \in Cursor
        /\ c[j].right = c[j].left + V!Width(sizes[j]) + 40 /\ c[j].right <= 1200
  BY DEF Placed
<1>7. next.right <= next.right /\ next.y = next.y
  BY <1>4
<1>8. Placed(c, sizes, i + 1)
  BY <1>1, <1>3, <1>5, <1>6, <1>7 DEF Placed, next, n
<1>9. \A j \in 1 .. i : Beyond(c, sizes, j, i + 1)
  BY <1>5 DEF Beyond, next
<1>10. QED
  BY <1>8, <1>9

LEMMA AllArePlaced ==
  ASSUME NEW sizes \in Seq(Nat \ {0})
  PROVE  /\ Placed(V!Cursors(sizes), sizes, Len(sizes))
         /\ \A i \in 1 .. Len(sizes) : \A j \in 1 .. (i - 1) : Beyond(V!Cursors(sizes), sizes, j, i)
<1> DEFINE c == V!Cursors(sizes)
           Hold == {k \in Nat : k <= Len(sizes) => Placed(c, sizes, k)}
<1>0. Len(sizes) \in Nat /\ sizes \in Seq(Nat)
  OBVIOUS
<1>1. 0 \in Hold
  <2>1. c[0] = V!Corner
    BY <1>0, CursorsAreDefined
  <2>2. V!Corner \in Cursor
    BY DEF V!Corner, V!GroupGap, Cursor
  <2>3. QED
    BY <2>1, <2>2 DEF Placed
<1>2. ASSUME NEW k \in Nat, k + 1 <= Len(sizes)
      PROVE  /\ \A j \in 1 .. (k + 1) : sizes[j] \in Nat \ {0}
             /\ c[k + 1] = V!Place(c[k], sizes[k + 1])
  <2>1. k + 1 \in 1 .. Len(sizes) /\ (k + 1) - 1 = k
    BY <1>0, <1>2
  <2>2. c[k + 1] = V!Place(c[(k + 1) - 1], sizes[k + 1])
    BY <1>0, <2>1, CursorsAreDefined
  <2>3. QED
    BY <1>0, <1>2, <2>1, <2>2
<1>3. ASSUME NEW k \in Nat, k \in Hold PROVE k + 1 \in Hold
  <2>1. ASSUME k + 1 <= Len(sizes) PROVE Placed(c, sizes, k + 1)
    <3>1. Placed(c, sizes, k)
      BY <1>0, <1>3, <2>1
    <3> HIDE DEF c
    <3>2. QED
      BY <1>2, <2>1, <3>1, PlaceNext
  <2>2. QED
    BY <2>1
<1>4. \A k \in Nat : k \in Hold
  <2> HIDE DEF Hold
  <2>1. QED
    BY <1>1, <1>3, Numbers
<1>5. ASSUME NEW i \in 1 .. Len(sizes), NEW j \in 1 .. (i - 1) PROVE Beyond(c, sizes, j, i)
  <2>1. PICK k \in Nat : i = k + 1 /\ k + 1 <= Len(sizes) /\ k <= Len(sizes) /\ j \in 1 .. k
    <3>1. i - 1 \in Nat /\ i = (i - 1) + 1 /\ i <= Len(sizes) /\ i - 1 <= Len(sizes)
      BY <1>0
    <3>2. QED
      BY <3>1
  <2>2. Placed(c, sizes, k)
    BY <1>4, <2>1
  <2> HIDE DEF c
  <2>3. \A m \in 1 .. k : Beyond(c, sizes, m, k + 1)
    BY <1>2, <2>1, <2>2, PlaceNext
  <2>4. QED
    BY <2>1, <2>3
<1>6. QED
  BY <1>0, <1>4, <1>5

LEMMA RightOrBelow ==
  ASSUME NEW a \in Cursor, NEW b \in Cursor, NEW w \in Nat, NEW h \in Nat,
         a.right = a.left + w + 40, a.right <= b.left \/ a.y + h + 40 <= b.y
  PROVE  a.left + w < b.left \/ a.y + h < b.y
BY DEF Cursor

LEMMA InPicture ==
  ASSUME NEW a \in Cursor, NEW end \in Cursor, NEW w \in Nat, NEW h \in Nat,
         a.right = a.left + w + 40, a.right <= 1200, a.y + h <= end.y + end.high
  PROVE  /\ a.left + w <= IF 1200 > end.right + 40 THEN 1200 ELSE end.right + 40
         /\ a.y + h <= end.y + end.high + 40
BY DEF Cursor

\* The boxes of any groups, laid out in rows (GraphPage.js:68-131), do not
\* overlap and lie in the picture.
THEOREM LayoutIsSound ==
  ASSUME NEW sizes \in Seq(Nat \ {0})
  PROVE  /\ \A i, j \in DOMAIN sizes :
              i # j => V!Apart(V!Layout(sizes).boxes[i], V!Layout(sizes).boxes[j])
         /\ \A i \in DOMAIN sizes :
              LET box == V!Layout(sizes).boxes[i] IN
              /\ box.x + box.width <= V!Layout(sizes).width
              /\ box.y + box.height <= V!Layout(sizes).height
<1> DEFINE n == Len(sizes)
           c == V!Cursors(sizes)
           boxes == V!Layout(sizes).boxes
           Wide(i) == V!Width(sizes[i])
           High(i) == V!Height(sizes[i])
<1>1. n \in Nat /\ DOMAIN sizes = 1 .. n
  OBVIOUS
<1>2. \A i \in 1 .. n : /\ boxes[i].x = c[i].left /\ boxes[i].y = c[i].y
                        /\ boxes[i].width = Wide(i) /\ boxes[i].height = High(i)
  BY <1>1 DEF V!Layout
<1>3. \A i \in 1 .. n : Wide(i) \in Nat /\ High(i) \in Nat
  <2>1. \A i \in 1 .. n : sizes[i] \in Nat \ {0}
    OBVIOUS
  <2>2. QED
    BY <2>1, BoxSize
<1>4. Placed(c, sizes, n) /\ \A i \in 1 .. n : \A j \in 1 .. (i - 1) : Beyond(c, sizes, j, i)
  BY AllArePlaced
<1>5. /\ c[n] \in Cursor
      /\ \A j \in 1 .. n : /\ c[j] \in Cursor
                           /\ c[j].right = c[j].left + Wide(j) + 40 /\ c[j].right <= 1200
                           /\ c[j].y + High(j) <= c[n].y + c[n].high
  BY <1>4 DEF Placed
<1>6. \A i \in 1 .. n : \A j \in 1 .. (i - 1) :
        c[j].right <= c[i].left \/ c[j].y + High(j) + 40 <= c[i].y
  BY <1>4 DEF Beyond
<1>7. /\ V!Layout(sizes).width = IF 1200 > c[n].right + 40 THEN 1200 ELSE c[n].right + 40
      /\ V!Layout(sizes).height = c[n].y + c[n].high + 40
  BY DEF V!Layout, V!Larger, V!MaxRowWidth, V!GroupGap
<1> HIDE DEF c, boxes, n, Wide, High
<1>8. ASSUME NEW i \in 1 .. n, NEW j \in 1 .. n, j \in 1 .. (i - 1)
      PROVE  V!Apart(boxes[j], boxes[i]) /\ V!Apart(boxes[i], boxes[j])
  <2>1. /\ c[i] \in Cursor /\ c[j] \in Cursor /\ Wide(j) \in Nat /\ High(j) \in Nat
        /\ c[j].right = c[j].left + Wide(j) + 40
        /\ c[j].right <= c[i].left \/ c[j].y + High(j) + 40 <= c[i].y
    BY <1>3, <1>5, <1>6, <1>8
  <2>2. c[j].left + Wide(j) < c[i].left \/ c[j].y + High(j) < c[i].y
    BY <2>1, RightOrBelow
  <2>3. /\ boxes[j].x + boxes[j].width = c[j].left + Wide(j) /\ boxes[j].y + boxes[j].height = c[j].y + High(j)
        /\ boxes[i].x = c[i].left /\ boxes[i].y = c[i].y
    BY <1>2
  <2>4. boxes[j].x + boxes[j].width < boxes[i].x \/ boxes[j].y + boxes[j].height < boxes[i].y
    BY <2>2, <2>3
  <2>5. QED
    BY <2>4 DEF V!Apart
<1>9. ASSUME NEW i \in 1 .. n
      PROVE  /\ boxes[i].x + boxes[i].width <= V!Layout(sizes).width
             /\ boxes[i].y + boxes[i].height <= V!Layout(sizes).height
  <2>1. /\ c[i] \in Cursor /\ c[n] \in Cursor /\ Wide(i) \in Nat /\ High(i) \in Nat
        /\ c[i].right = c[i].left + Wide(i) + 40 /\ c[i].right <= 1200
        /\ c[i].y + High(i) <= c[n].y + c[n].high
    BY <1>3, <1>5
  <2>2. /\ c[i].left + Wide(i) <= IF 1200 > c[n].right + 40 THEN 1200 ELSE c[n].right + 40
        /\ c[i].y + High(i) <= c[n].y + c[n].high + 40
    BY <2>1, InPicture
  <2>3. boxes[i].x + boxes[i].width = c[i].left + Wide(i) /\ boxes[i].y + boxes[i].height = c[i].y + High(i)
    BY <1>2
  <2>4. QED
    BY <1>7, <2>2, <2>3
<1>10. ASSUME NEW i \in 1 .. n, NEW j \in 1 .. n, i # j PROVE V!Apart(boxes[i], boxes[j])
  <2>1. j \in 1 .. (i - 1) \/ i \in 1 .. (j - 1)
    BY <1>1, <1>10
  <2>2. QED
    BY <1>8, <2>1
<1>11. QED
  BY <1>1, <1>9, <1>10 DEF boxes

LEMMA Thirds ==
  ASSUME NEW m \in Nat
  PROVE  \E d \in Nat, r \in 0 .. 2 : d = m \div 3 /\ r = m % 3 /\ m = 3 * d + r
<1> DEFINE d == m \div 3
           r == m % 3
<1>1. d \in Nat /\ r \in 0 .. 2
  OBVIOUS
<1>2. r = m - 3 * d
  OBVIOUS
<1> HIDE DEF d, r
<1>3. m = 3 * d + r
  BY <1>1, <1>2
<1>4. QED
  BY <1>1, <1>3 DEF d, r

LEMMA Grid ==
  ASSUME NEW k \in Nat \ {0}, NEW n \in Nat \ {0}, k <= n
  PROVE  /\ (k - 1) % 3 \in Nat /\ ((k - 1) % 3) + 1 <= (IF n < 3 THEN n ELSE 3)
         /\ (k - 1) \div 3 \in Nat /\ (k - 1) \div 3 + 1 <= (n + 2) \div 3
         /\ (n + 2) \div 3 \in Nat
<1> DEFINE m == k - 1
           l == n + 2
<1>1. m \in Nat /\ l \in Nat /\ m + 3 <= l /\ m < n
  OBVIOUS
<1> HIDE DEF m, l
<1>2. PICK a \in Nat, p \in 0 .. 2 : a = m \div 3 /\ p = m % 3 /\ m = 3 * a + p
  BY <1>1, Thirds
<1>3. PICK b \in Nat, q \in 0 .. 2 : b = l \div 3 /\ q = l % 3 /\ l = 3 * b + q
  BY <1>1, Thirds
<1>4. a + 1 <= b /\ p + 1 <= IF n < 3 THEN n ELSE 3
  BY <1>1, <1>2, <1>3
<1>5. QED
  BY <1>2, <1>3, <1>4 DEF m, l

\* A resource lies in the box of its group, below the header.
LEMMA ResourceInBox ==
  ASSUME NEW sizes \in Seq(Nat \ {0}), NEW node \in V!NodesOf(sizes)
  PROVE  LET spot == V!Position(V!Layout(sizes), node)
             box == V!Layout(sizes).boxes[node.group]
         IN /\ box.x <= spot.x - V!NodeRadius /\ spot.x + V!NodeRadius <= box.x + box.width
            /\ box.y + V!GroupHeader <= spot.y - V!NodeRadius
            /\ spot.y + V!NodeRadius <= box.y + box.height
<1> DEFINE g == node.group
           k == node.no
           n == sizes[g]
           box == V!Layout(sizes).boxes[g]
           col == (k - 1) % 3
           row == (k - 1) \div 3
           cols == IF n < 3 THEN n ELSE 3
           lines == (n + 2) \div 3
<1>1. g \in DOMAIN sizes /\ k \in Nat \ {0} /\ k <= n /\ g \in 1 .. Len(sizes)
  <2>1. k \in 1 .. MaxGroup /\ g \in DOMAIN sizes /\ k <= n
    BY DEF V!NodesOf, V!Node
  <2>2. MaxGroup \in Nat
    BY ConstantsAssumption
  <2>3. QED
    BY <2>1, <2>2
<1>2. n \in Nat \ {0}
  BY <1>1
<1>3. box.x \in Nat /\ box.y \in Nat
  <2>1. V!Cursors(sizes)[g] \in Cursor
    BY <1>1, AllArePlaced DEF Placed
  <2>2. QED
    BY <1>1, <2>1 DEF V!Layout, Cursor
<1>4. box.width = cols * 100 + 48 /\ box.height = lines * 80 + 80
  <2>1. box.width = V!Width(n) /\ box.height = V!Height(n)
    BY <1>1 DEF V!Layout
  <2>2. V!Width(n) = cols * 100 + 48 /\ V!Height(n) = lines * 80 + 80
    BY <1>2 DEF V!Width, V!Height, V!PerRow, V!SpacingX, V!SpacingY, V!GroupPadding, V!GroupHeader
  <2> HIDE DEF box, cols, lines, n
  <2>3. QED
    BY <2>1, <2>2
<1>5. /\ V!Position(V!Layout(sizes), node).x = box.x + 24 + col * 100 + 50
      /\ V!Position(V!Layout(sizes), node).y = box.y + 32 + 24 + row * 80 + 40
  <2>1. 100 \div 2 = 50 /\ 80 \div 2 = 40
    OBVIOUS
  <2>2. QED
    BY <2>1 DEF V!Position, V!PerRow, V!SpacingX, V!SpacingY, V!GroupPadding, V!GroupHeader
<1>6. col \in Nat /\ col + 1 <= cols /\ row \in Nat /\ row + 1 <= lines /\ cols \in Nat /\ lines \in Nat
  BY <1>1, <1>2, Grid
<1> DEFINE spot == V!Position(V!Layout(sizes), node)
<1> HIDE DEF box, col, row, cols, lines, spot
<1>7. spot.x = box.x + 24 + col * 100 + 50 /\ spot.y = box.y + 32 + 24 + row * 80 + 40
  BY <1>5 DEF spot
<1>8. /\ box.x <= spot.x - 26 /\ spot.x + 26 <= box.x + box.width
      /\ box.y + 32 <= spot.y - 26 /\ spot.y + 26 <= box.y + box.height
  <2> DEFINE X == box.x
             Y == box.y
             AX == spot.x
             AY == spot.y
             BW == box.width
             BH == box.height
  <2>1. /\ X \in Nat /\ Y \in Nat /\ col \in Nat /\ row \in Nat /\ cols \in Nat /\ lines \in Nat
        /\ BW = cols * 100 + 48 /\ BH = lines * 80 + 80
        /\ AX = X + 24 + col * 100 + 50 /\ AY = Y + 32 + 24 + row * 80 + 40
        /\ col + 1 <= cols /\ row + 1 <= lines
    BY <1>3, <1>4, <1>6, <1>7
  <2> HIDE DEF X, Y, AX, AY, BW, BH
  <2>2. X <= AX - 26 /\ AX + 26 <= X + BW /\ Y + 32 <= AY - 26 /\ AY + 26 <= Y + BH
    BY <2>1
  <2>3. QED
    BY <2>2 DEF X, Y, AX, AY, BW, BH
<1>9. QED
  BY <1>8 DEF V!NodeRadius, V!GroupHeader, box, spot

-----------------------------------------------------------------------------
(* The graph page                                                          *)

\* A selection is of the graph that is shown, and the blast radius is its own.
GraphInv ==
  /\ graph.sizes \in V!Sizes /\ graph.edges \subseteq V!Edges(graph.sizes)
  /\ asked => graph.sizes = << >>
  /\ selectedNode \in V!NodesOf(graph.sizes) \cup {None}
  /\ blastRadius = IF selectedNode = None THEN {} ELSE V!GetBlastRadius(graph.edges, selectedNode)
  /\ asked \in BOOLEAN

LEMMA GroupIsBounded == MaxGroup \in Nat \ {0}
BY ConstantsAssumption DEF ConstantsAssumption

LEMMA NoneIsNoNode == None \notin V!Node
BY NullsAssumption DEF NullsAssumption

LEMMA SizesAre ==
  ASSUME NEW sizes \in V!Sizes
  PROVE  /\ sizes \in Seq(Nat \ {0}) /\ DOMAIN sizes \subseteq V!Groups
         /\ \A g \in DOMAIN sizes : V!Lead(g) \in V!NodesOf(sizes)
<1>1. PICK k \in 0 .. 3 : sizes \in [1 .. k -> 1 .. MaxGroup]
  BY DEF V!Sizes
<1>2. \A i \in 1 .. k : sizes[i] \in Nat \ {0}
  BY <1>1, GroupIsBounded
<1>3. sizes \in Seq(Nat \ {0}) /\ DOMAIN sizes = 1 .. k /\ 1 .. k \subseteq 1 .. 3
  BY <1>1, <1>2
<1>4. ASSUME NEW g \in 1 .. k PROVE V!Lead(g) \in V!NodesOf(sizes)
  <2>1. sizes[g] \in Nat /\ 1 <= sizes[g] /\ g \in 1 .. 3 /\ 1 \in 1 .. MaxGroup
    BY <1>2, GroupIsBounded
  <2>2. QED
    BY <1>3, <2>1 DEF V!Lead, V!NodesOf, V!Node, V!Groups
<1>5. QED
  BY <1>3, <1>4 DEF V!Groups

LEMMA NodesAreNodes == ASSUME NEW sizes PROVE V!NodesOf(sizes) \subseteq V!Node
BY DEF V!NodesOf

LEMMA EdgesAreFinite ==
  ASSUME NEW sizes \in V!Sizes, NEW edges \in SUBSET V!Edges(sizes)
  PROVE  edges \in SUBSET Pairs /\ IsFiniteSet(edges)
<1> DEFINE Leads == {V!Lead(1), V!Lead(2), V!Lead(3)}
<1>1. IsFiniteSet(Leads)
  <2>1. IsFiniteSet({})
    BY FS_EmptySet
  <2>2. IsFiniteSet({} \cup {V!Lead(1)})
    BY <2>1, FS_AddElement
  <2>3. IsFiniteSet(({} \cup {V!Lead(1)}) \cup {V!Lead(2)})
    BY <2>2, FS_AddElement
  <2>4. IsFiniteSet((({} \cup {V!Lead(1)}) \cup {V!Lead(2)}) \cup {V!Lead(3)})
    BY <2>3, FS_AddElement
  <2>5. Leads = (({} \cup {V!Lead(1)}) \cup {V!Lead(2)}) \cup {V!Lead(3)}
    OBVIOUS
  <2>6. QED
    BY <2>4, <2>5
<1>2. IsFiniteSet(Leads \X Leads)
  BY <1>1, FS_Product
<1>3. \A g \in DOMAIN sizes : V!Lead(g) \in Leads /\ V!Lead(g) \in V!Node
  <2>1. \A g \in DOMAIN sizes : g = 1 \/ g = 2 \/ g = 3
    BY SizesAre DEF V!Groups
  <2>2. QED
    BY <2>1, SizesAre, NodesAreNodes
<1>4. edges \subseteq Leads \X Leads /\ edges \subseteq Pairs
  BY <1>3 DEF V!Edges, Pairs
<1>5. QED
  BY <1>2, <1>4, FS_Subset

LEMMA GraphInit == ASSUME V!Init PROVE GraphInv
<1>1. << >> \in V!Sizes
  <2>1. << >> \in [1 .. 0 -> 1 .. MaxGroup] /\ 0 \in 0 .. 3
    OBVIOUS
  <2>2. \A i, j \in DOMAIN << >> : FALSE
    OBVIOUS
  <2>3. QED
    BY <2>1, <2>2 DEF V!Sizes
<1>2. graph.sizes = << >> /\ graph.edges = {}
  BY DEF V!Init
<1>3. QED
  BY <1>1, <1>2 DEF V!Init, GraphInv

LEMMA GraphStep == ASSUME GraphInv, V!Next PROVE GraphInv'
<1>1. CASE V!OnGraph
  <2>1. PICK sizes \in V!Sizes : \E edges \in SUBSET V!Edges(sizes) :
               graph' = [sizes |-> sizes, edges |-> edges]
    BY <1>1 DEF V!OnGraph
  <2> PICK edges \in SUBSET V!Edges(sizes) : graph' = [sizes |-> sizes, edges |-> edges]
    BY <2>1
  <2>2. graph'.sizes = sizes /\ graph'.edges = edges
    OBVIOUS
  <2>3. V!NodesOf(graph.sizes) = {}
    BY <1>1 DEF GraphInv, V!OnGraph, V!NodesOf
  <2>4. selectedNode = None /\ blastRadius = {}
    BY <2>3 DEF GraphInv
  <2>5. QED
    BY <1>1, <2>2, <2>4 DEF V!OnGraph, GraphInv
<1>2. ASSUME NEW n \in V!NodesOf(graph.sizes), V!HandleNodeClick(n) PROVE GraphInv'
  <2>1. n # None
    BY NoneIsNoNode, NodesAreNodes
  <2>2. QED
    BY <1>2, <2>1 DEF V!HandleNodeClick, GraphInv
<1>3. CASE V!CloseDetail
  BY <1>3 DEF V!CloseDetail, GraphInv
<1>4. QED
  BY <1>1, <1>2, <1>3 DEF V!Next

LEMMA GraphStutter == ASSUME GraphInv, UNCHANGED view PROVE GraphInv'
BY DEF GraphInv, view

LEMMA GraphSafe == ASSUME GraphInv PROVE V!TypeOK /\ V!BlastRadiusIsClosed /\ V!BoxesAreApart
<1> DEFINE sizes == graph.sizes
           edges == graph.edges
           radius == V!GetBlastRadius(edges, selectedNode)
<1>1. sizes \in V!Sizes /\ edges \in SUBSET V!Edges(sizes)
  BY DEF GraphInv
<1>2. sizes \in Seq(Nat \ {0}) /\ \A g \in DOMAIN sizes : V!Lead(g) \in V!NodesOf(sizes)
  BY <1>1, SizesAre
<1>3. edges \in SUBSET Pairs /\ IsFiniteSet(edges)
  BY <1>1, EdgesAreFinite
<1>4. ASSUME selectedNode # None
      PROVE  /\ blastRadius = radius /\ selectedNode \in V!NodesOf(sizes)
             /\ \A e \in edges : e[2] = selectedNode \/ e[2] \in radius => e[1] \in radius
             /\ \A set : (\A e \in edges : e[2] = selectedNode \/ e[2] \in set => e[1] \in set)
                           => radius \subseteq set
  <2>1. selectedNode \in V!NodesOf(sizes) /\ blastRadius = radius
    BY <1>4 DEF GraphInv
  <2>2. selectedNode \in V!Node
    BY <2>1, NodesAreNodes
  <2> HIDE DEF edges, sizes
  <2>3. QED
    BY <1>3, <2>1, <2>2, RadiusIsLeast
<1>5. blastRadius \subseteq V!NodesOf(sizes)
  <2>1. CASE selectedNode = None
    BY <2>1 DEF GraphInv
  <2>2. CASE selectedNode # None
    <3> DEFINE Leads == {V!Lead(g) : g \in DOMAIN sizes}
    <3>1. \A e \in edges : e[1] \in Leads
      BY <1>1 DEF V!Edges
    <3>2. radius \subseteq Leads
      <4> HIDE DEF Leads, radius, edges
      <4>1. QED
        BY <1>4, <2>2, <3>1
    <3>3. Leads \subseteq V!NodesOf(sizes)
      BY <1>2
    <3>4. blastRadius = radius
      BY <1>4, <2>2
    <3> HIDE DEF Leads, radius
    <3>5. QED
      BY <3>2, <3>3, <3>4
  <2>3. QED
    BY <2>1, <2>2
<1>6. V!TypeOK
  BY <1>5 DEF GraphInv, V!TypeOK
<1>7. V!BlastRadiusIsClosed
  <2>1. CASE selectedNode = None
    BY <2>1 DEF GraphInv, V!BlastRadiusIsClosed
  <2>2. CASE selectedNode # None
    <3> HIDE DEF radius
    <3>1. V!Closed(blastRadius, selectedNode)
      BY <1>4, <2>2 DEF V!Closed
    <3>2. ASSUME NEW set, V!Closed(set, selectedNode) PROVE blastRadius \subseteq set
      BY <1>4, <2>2, <3>2 DEF V!Closed
    <3>3. QED
      BY <2>2, <3>1, <3>2 DEF V!BlastRadiusIsClosed
  <2>3. QED
    BY <2>1, <2>2
<1>8. V!BoxesAreApart
  <2>1. \A i, j \in DOMAIN sizes :
          i # j => V!Apart(V!Layout(sizes).boxes[i], V!Layout(sizes).boxes[j])
    BY <1>2, LayoutIsSound
  <2>2. \A i \in DOMAIN sizes :
          /\ V!Layout(sizes).boxes[i].x + V!Layout(sizes).boxes[i].width <= V!Layout(sizes).width
          /\ V!Layout(sizes).boxes[i].y + V!Layout(sizes).boxes[i].height <= V!Layout(sizes).height
    BY <1>2, LayoutIsSound
  <2>3. ASSUME NEW node \in V!NodesOf(sizes)
        PROVE  LET spot == V!Position(V!Layout(sizes), node)
                   box == V!Layout(sizes).boxes[node.group]
               IN /\ box.x <= spot.x - V!NodeRadius /\ spot.x + V!NodeRadius <= box.x + box.width
                  /\ box.y + V!GroupHeader <= spot.y - V!NodeRadius
                  /\ spot.y + V!NodeRadius <= box.y + box.height
    BY <1>2, ResourceInBox
  <2>4. QED
    BY <2>1, <2>2, <2>3 DEF V!BoxesAreApart
<1>9. QED
  BY <1>6, <1>7, <1>8

-----------------------------------------------------------------------------
(* The resources and the banner of the state backend                       *)

\* The banner speaks of a backend that is there, and an initialisation ends in a word.
BannerHolds ==
  /\ statusRequest = "ready" \/ initRequest = "ready" \/ stateReady => backend
  /\ stateReady => stateInfo
  /\ inits > 0 /\ ~late /\ initRequest = None => stateReady \/ stateError
ResourcesInv == R!TypeOK /\ BannerHolds

LEMMA InitsAreBounded == MaxInits \in Nat \ {0}
BY ConstantsAssumption DEF ConstantsAssumption

LEMMA ResourcesInit == ASSUME R!Init PROVE ResourcesInv
<1>1. R!TypeOK
  <2>1. inits \in 0..MaxInits /\ schemaFilter \in R!Types \cup {"all"} /\ resources \in [Resources -> R!Row \cup {None}]
    BY InitsAreBounded DEF R!Init
  <2>2. QED BY <2>1 DEF R!Init, R!TypeOK, R!Answer
<1>2. BannerHolds
  BY Nulls DEF R!Init, BannerHolds
<1>3. QED BY <1>1, <1>2 DEF ResourcesInv

LEMMA ResourcesTypes == ASSUME R!TypeOK, R!Next PROVE R!TypeOK'
<1> USE InitsAreBounded DEF R!TypeOK
<1>1. CASE R!OnResources
  <2>0. \A T : [Resources -> T] \subseteq [Resources -> T \cup {None}]
    OBVIOUS
  <2>1. resources' \in [Resources -> R!Row \cup {None}]
    BY <1>1, <2>0 DEF R!OnResources
  <2>2. loading' = FALSE /\ UNCHANGED <<backend, schemaFilter, stateReady, stateInfo, stateInitializing,
                                      stateError, statusRequest, initRequest, late, inits>>
    BY <1>1 DEF R!OnResources
  <2>3. QED BY <2>1, <2>2
<1>2. ASSUME NEW f \in R!Types \cup {"all"}, R!SetFilter(f) PROVE R!TypeOK'
  BY <1>2 DEF R!SetFilter
<1>3. CASE R!ServeStatus
  <2>1. statusRequest' \in R!Answer
    BY <1>3 DEF R!ServeStatus, R!Answer
  <2>2. QED BY <1>3, <2>1 DEF R!ServeStatus
<1>4. CASE R!OnStatus
  BY <1>4 DEF R!OnStatus
<1>5. CASE R!InitState
  <2>1. inits' \in 0..MaxInits
    BY <1>5 DEF R!InitState
  <2>2. "sent" \in R!Answer
    BY DEF R!Answer
  <2>3. QED BY <1>5, <2>1, <2>2 DEF R!InitState
<1>6. CASE R!ServeInit
  <2>1. initRequest' \in R!Answer /\ backend' \in BOOLEAN
    BY <1>6 DEF R!ServeInit, R!Answer
  <2>2. QED BY <1>6, <2>1 DEF R!ServeInit
<1>7. CASE R!OnInit
  BY <1>7 DEF R!OnInit
<1>8. QED BY <1>1, <1>2, <1>3, <1>4, <1>5, <1>6, <1>7 DEF R!Next

LEMMA BannerStays == ASSUME R!TypeOK, BannerHolds, R!Next PROVE BannerHolds'
<1> USE Nulls DEF BannerHolds
<1>1. CASE R!OnResources
  BY <1>1 DEF R!OnResources
<1>2. ASSUME NEW f \in R!Types \cup {"all"}, R!SetFilter(f) PROVE BannerHolds'
  BY <1>2 DEF R!SetFilter
<1>3. CASE R!ServeStatus
  BY <1>3 DEF R!ServeStatus
<1>4. CASE R!OnStatus
  BY <1>4 DEF R!OnStatus, R!Answer
<1>5. CASE R!InitState
  BY <1>5 DEF R!InitState
<1>6. CASE R!ServeInit
  BY <1>6 DEF R!ServeInit
<1>7. CASE R!OnInit
  BY <1>7 DEF R!OnInit
<1>8. QED BY <1>1, <1>2, <1>3, <1>4, <1>5, <1>6, <1>7 DEF R!Next

LEMMA ResourcesStep == ASSUME ResourcesInv, R!Next PROVE ResourcesInv'
BY ResourcesTypes, BannerStays DEF ResourcesInv

LEMMA ResourcesStutter == ASSUME ResourcesInv, UNCHANGED resourcesPage PROVE ResourcesInv'
BY DEF ResourcesInv, R!TypeOK, BannerHolds, resourcesPage

LEMMA ResourcesSafe == ASSUME ResourcesInv PROVE R!TypeOK /\ R!BannerIsTrue
BY DEF ResourcesInv, BannerHolds, R!BannerIsTrue

-----------------------------------------------------------------------------
(* All pages                                                               *)

\* The inductive invariant: that of each page, whichever is open.
IInv ==
  /\ at \in L!Sections \cup S!Forms \cup Parts
  /\ ListsInv /\ SettingsInv /\ ImportInv /\ PickerInv /\ GroupsInv
  /\ RulesInv /\ PanelInv /\ AuditInv /\ GraphInv /\ ResourcesInv

LEMMA PagesInit == Init => IInv
BY ListsInit, SettingsInit, ImportInit, PickerInit, GroupsInit, RulesInit, PanelInit, AuditInit, GraphInit,
   ResourcesInit
DEF Init, IInv

LEMMA PagesStep == IInv /\ [Next]_vars => IInv'
<1> SUFFICES ASSUME IInv, [Next]_vars PROVE IInv'
  OBVIOUS
<1>1. /\ ListsInv /\ SettingsInv /\ ImportInv /\ PickerInv /\ GroupsInv
      /\ RulesInv /\ PanelInv /\ AuditInv /\ GraphInv /\ ResourcesInv
      /\ at \in L!Sections \cup S!Forms \cup Parts
  BY DEF IInv
<1>2. at' = at
  BY DEF Next, vars, ListsNext, SettingsNext, ImportNext, PickerNext, NodeGroupsNext, RulesNext,
         SidePanelNext, AuditNext, GraphNext, ResourcesNext
<1>3. ListsInv'
  <2>1. (at \in L!Sections /\ L!Next) \/ UNCHANGED lists
    BY DEF Next, vars, ListsNext, SettingsNext, ImportNext, PickerNext, NodeGroupsNext, RulesNext,
           SidePanelNext, AuditNext, GraphNext, ResourcesNext
  <2>2. QED BY <1>1, <1>2, <2>1, ListsStep, ListsStutter
<1>4. SettingsInv'
  <2>1. (at \in S!Forms /\ S!Next) \/ UNCHANGED settings
    BY DEF Next, vars, ListsNext, SettingsNext, ImportNext, PickerNext, NodeGroupsNext, RulesNext,
           SidePanelNext, AuditNext, GraphNext, ResourcesNext
  <2>2. QED BY <1>1, <1>2, <2>1, SettingsStep, SettingsStutter
<1>5. ImportInv'
  <2>1. W!Next \/ UNCHANGED wizard
    BY DEF Next, vars, ListsNext, SettingsNext, ImportNext, PickerNext, NodeGroupsNext, RulesNext,
           SidePanelNext, AuditNext, GraphNext, ResourcesNext
  <2>2. QED BY <1>1, <2>1, ImportStep, ImportStutter
<1>6. PickerInv'
  <2>1. P!Next \/ UNCHANGED picker
    BY DEF Next, vars, ListsNext, SettingsNext, ImportNext, PickerNext, NodeGroupsNext, RulesNext,
           SidePanelNext, AuditNext, GraphNext, ResourcesNext
  <2>2. QED BY <1>1, <2>1, PickerStep, PickerStutter
<1>7. GroupsInv'
  <2>1. N!Next \/ UNCHANGED editor
    BY DEF Next, vars, ListsNext, SettingsNext, ImportNext, PickerNext, NodeGroupsNext, RulesNext,
           SidePanelNext, AuditNext, GraphNext, ResourcesNext
  <2>2. QED BY <1>1, <2>1, GroupsStep, GroupsStutter
<1>8. RulesInv'
  <2>1. G!Next \/ UNCHANGED ruleEditor
    BY DEF Next, vars, ListsNext, SettingsNext, ImportNext, PickerNext, NodeGroupsNext, RulesNext,
           SidePanelNext, AuditNext, GraphNext, ResourcesNext
  <2>2. QED BY <1>1, <2>1, RulesStep, RulesStutter
<1>9. PanelInv'
  <2>1. B!Next \/ UNCHANGED panel
    BY DEF Next, vars, ListsNext, SettingsNext, ImportNext, PickerNext, NodeGroupsNext, RulesNext,
           SidePanelNext, AuditNext, GraphNext, ResourcesNext
  <2>2. QED BY <1>1, <2>1, PanelStep, PanelStutter
<1>10. AuditInv'
  <2>1. A!Next \/ UNCHANGED audit
    BY DEF Next, vars, ListsNext, SettingsNext, ImportNext, PickerNext, NodeGroupsNext, RulesNext,
           SidePanelNext, AuditNext, GraphNext, ResourcesNext
  <2>2. QED BY <1>1, <2>1, AuditStep, AuditStutter
<1>11. GraphInv'
  <2>1. V!Next \/ UNCHANGED view
    BY DEF Next, vars, ListsNext, SettingsNext, ImportNext, PickerNext, NodeGroupsNext, RulesNext,
           SidePanelNext, AuditNext, GraphNext, ResourcesNext
  <2>2. QED BY <1>1, <2>1, GraphStep, GraphStutter
<1>12. ResourcesInv'
  <2>1. R!Next \/ UNCHANGED resourcesPage
    BY DEF Next, vars, ListsNext, SettingsNext, ImportNext, PickerNext, NodeGroupsNext, RulesNext,
           SidePanelNext, AuditNext, GraphNext, ResourcesNext
  <2>2. QED BY <1>1, <2>1, ResourcesStep, ResourcesStutter
<1>13. QED
  BY <1>1, <1>2, <1>3, <1>4, <1>5, <1>6, <1>7, <1>8, <1>9, <1>10, <1>11, <1>12 DEF IInv

\* The invariant of each page holds in every state of a visit, whatever is sent,
\* served, lost and answered in whatever order.
THEOREM PagesInvariant == Spec => []IInv
BY PagesInit, PagesStep, PTL DEF Spec

\* Every page keeps its state typed.
THEOREM PageTypes == Spec => []TypeOK
<1>1. IInv => TypeOK
  BY ListsSafe, SettingsSafe, ImportSafe, PickerSafe, GroupsSafe, RulesSafe, PanelSafe, AuditSafe, GraphSafe,
     ResourcesSafe
  DEF IInv, TypeOK
<1>2. QED BY <1>1, PagesInvariant, PTL

\* A page that waits for nothing shows what the server holds: a list, a
\* setting, the offers of a region, a page of the log, the state backend.
THEOREM ShownIsHeld == Spec => []ShowsWhatTheServerHolds
<1>1. IInv => ShowsWhatTheServerHolds
  BY ListsSafe, SettingsSafe, PickerSafe, AuditSafe, ResourcesSafe DEF IInv, ShowsWhatTheServerHolds
<1>2. QED BY <1>1, PagesInvariant, PTL

\* What a page sends was opened, loaded, picked or entered there: a policy, a
\* setting, the resources of a region, node groups, rules.
THEOREM SentWasOpened == Spec => []SendsWhatWasOpened
<1>1. IInv => SendsWhatWasOpened
  BY ListsSafe, SettingsSafe, PickerSafe, GroupsSafe, RulesSafe DEF IInv, SendsWhatWasOpened
<1>2. QED BY <1>1, PagesInvariant, PTL

\* A success that is told is one: of a save, a pull request, an estimate.
THEOREM ToldWasDone == Spec => []TellsWhatWasDone
<1>1. IInv => TellsWhatWasDone
  BY SettingsSafe, PanelSafe DEF IInv, TellsWhatWasDone
<1>2. QED BY <1>1, PagesInvariant, PTL

\* A resource of AWS is imported into one row, but for a lost answer or a scan
\* during the import.
THEOREM ImportsAreOnce == Spec => []ImportedOnce
<1>1. IInv => ImportedOnce
  BY ImportSafe DEF IInv, ImportedOnce
<1>2. QED BY <1>1, PagesInvariant, PTL

\* The blast radius that the graph page shows is the least set that is closed
\* under the references, in whatever order they are listed and with cycles
\* among them; the boxes of the groups do not overlap, lie in the picture and
\* hold their resources.
THEOREM GraphsAreRight == Spec => []GraphIsRight
<1>1. IInv => GraphIsRight
  BY GraphSafe DEF IInv, GraphIsRight
<1>2. QED BY <1>1, PagesInvariant, PTL

=============================================================================
