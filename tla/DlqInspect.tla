----------------------------- MODULE DlqInspect -----------------------------
(***************************************************************************)
(* The dead-letter inspector of the architecture page (dlq-inspect.tsx,    *)
(* api/dlq/route.ts, listDeadLetters and redriveDeadLetter).  A load asks  *)
(* DlqList's handler for the letters of each brand, at two moments, and    *)
(* shows the newest of both.  A redrive looks its letter up again, posts   *)
(* its event (Pipeline's Redrive), waits for the balance and loads again.  *)
(***************************************************************************)
EXTENDS DlqList

CONSTANTS
  ShowN,           (* letters the page asks for, 20 in the code             *)
  BrandRank,       (* the order in which the BFF puts the brands' lists     *)
  TicksPerSecond,  (* of the clock that dates the letters                   *)
  Units            (* the ticks that a unit of each digit stands for, from  *)
                   (* the second's to the last of its fraction's            *)

ASSUME InspectAssumption ==
  /\ ShowN \in 1..MaxInspect
  /\ BrandRank \in [Brands -> Nat] /\ IsInjective(BrandRank)
  /\ TicksPerSecond \in Units /\ Units \subseteq 1..TicksPerSecond /\ 1 \in Units
  /\ \A u, v \in Units : u < v => v % u = 0

VARIABLES
  items,      \* the letters shown, by offset, first the newest
  loading,    \* a load is under way
  lists,      \* for each brand its list, {} before it is there
  redriving,  \* the letter being redriven, 0 for none
  rstep,      \* where its request is
  loadFrom,   \* the letters written before the last load began (history)
  shownFrom   \* the same of the load that is shown (history)

inspectVars == <<items, loading, lists, redriving, rstep, loadFrom, shownFrom>>

NoLists == [b \in Brands |-> {}]

InspectInit ==
  /\ items = <<>>
  /\ loading = TRUE
  /\ lists = NoLists
  /\ redriving = 0 /\ rstep = "none"
  /\ loadFrom = 0 /\ shownFrom = 0

\* What the handler answers (ListIsRecent): of the last MaxInspect letters, those of the
\* brand, newest first, no more than n.
BrandList(b, n) ==
  FirstN(Sorted({i \in first..Len(letters) :
                   i > Len(letters) - MaxInspect /\ letters[i].brand = b}, Newer), n)

Load == loading' = TRUE /\ lists' = NoLists /\ loadFrom' = Len(letters)

\* The Refresh button, disabled while something is under way.
RefreshLetters ==
  /\ ~loading /\ redriving = 0
  /\ Load
  /\ UNCHANGED <<items, redriving, rstep, shownFrom>>

ListBrand(b) ==
  /\ loading /\ lists[b] = {}
  /\ lists' = [lists EXCEPT ![b] = {BrandList(b, ShowN)}]
  /\ UNCHANGED <<items, loading, redriving, rstep, loadFrom, shownFrom>>

\* A time is written without the zeros its fraction ends in: what is written of t begins
\* what is written of each time before the next unit of t's last digit.
Begins(t, u) == t <= u /\ \E unit \in Units : t % unit = 0 /\ u < t + unit

\* The order of the texts, not of the times: the Z that ends a text sorts after the
\* point or the digit with which another one goes on.
TextAfter(t, u) ==
  \/ t < u /\ Begins(t, u)
  \/ u < t /\ ~Begins(u, t)

\* The BFF's order: the greatest text of failed_at first, then as the lists were put
\* together.
ShownBefore(i, j) ==
  \/ TextAfter(letters[i].failedAt, letters[j].failedAt)
  \/ /\ letters[i].failedAt = letters[j].failedAt
     /\ IF letters[i].brand = letters[j].brand
          THEN Newer(i, j) ELSE BrandRank[letters[i].brand] < BrandRank[letters[j].brand]

\* The first n letters of each brand's list.
FirstLetters(n) == {i \in Offsets : \E b \in Brands : \E s \in lists[b] : Contains(FirstN(s, n), i)}

\* Mutant: each brand gets half of the page.
MergedHalves == FirstN(Sorted(FirstLetters(ShowN \div 2), ShownBefore), ShowN)

\* Both brands' letters, cut to the page.
Merged == FirstN(Sorted(FirstLetters(ShowN), ShownBefore), ShowN)

\* A load's end frees the buttons, and ends the redrive it belongs to.
EndLoad ==
  /\ loading' = FALSE /\ lists' = NoLists
  /\ redriving' = 0 /\ rstep' = "none"

ShowItems ==
  /\ loading /\ \A b \in Brands : lists[b] # {}
  /\ items' = Merged /\ shownFrom' = loadFrom
  /\ EndLoad
  /\ UNCHANGED loadFrom

\* A list fails: 502, and what was shown stays.
LoadFails ==
  /\ loading
  /\ EndLoad
  /\ UNCHANGED <<items, loadFrom, shownFrom>>

RedriveClick ==
  /\ ~loading /\ redriving = 0
  /\ \E i \in DOMAIN items : redriving' = items[i]
  /\ rstep' = "find"
  /\ UNCHANGED <<items, loading, lists, loadFrom, shownFrom>>

\* The event is looked up among the brand's letters and posted, or it is a 404.
StillListed(i) ==
  LET found == BrandList(letters[i].brand, MaxInspect)
  IN  \E k \in DOMAIN found : letters[found[k]].event = letters[i].event

FindLetter ==
  /\ rstep = "find"
  /\ IF StillListed(redriving)
       THEN rstep' = "posted" /\ UNCHANGED redriving
       ELSE rstep' = "none" /\ redriving' = 0
  /\ UNCHANGED <<items, loading, lists, loadFrom, shownFrom>>

\* The note is shown and the list loaded again, before the redrive is over.
RedriveAnswered ==
  /\ rstep = "posted" /\ rstep' = "load"
  /\ Load
  /\ UNCHANGED <<items, redriving, shownFrom>>

RedriveFails ==
  /\ rstep \in {"find", "posted"} /\ rstep' = "none"
  /\ redriving' = 0
  /\ UNCHANGED <<items, loading, lists, loadFrom, shownFrom>>

InspectSteps ==
  \/ RefreshLetters \/ (\E b \in Brands : ListBrand(b)) \/ ShowItems \/ LoadFails
  \/ RedriveClick \/ FindLetter \/ RedriveAnswered \/ RedriveFails

InspectNext ==
  \/ InspectSteps /\ UNCHANGED listVars
  \/ (PublishDLQ \/ Retention) /\ UNCHANGED inspectVars

InspectSpec == ListInit /\ InspectInit /\ [][InspectNext]_<<listVars, inspectVars>>

-----------------------------------------------------------------------------
Second(t) == t \div TicksPerSecond

\* Of the letters written before the load it shows began, the page hides none that failed
\* in a later second than one it shows, and none at all while there is room, whatever is
\* written while the two brands' lists are read (api/dlq/route.ts) and whatever loads
\* failed since, within the window the handler reads.  Within a second the page's order
\* is that of the texts, and it may hide the newer of two letters.
InspectorIsRecent ==
  \A i \in first..shownFrom :
    i > Len(letters) - MaxInspect /\ ~Contains(items, i) =>
      /\ Len(items) = ShowN
      /\ \A k \in DOMAIN items :
           Second(letters[items[k]].failedAt) >= Second(letters[i].failedAt)
=============================================================================
