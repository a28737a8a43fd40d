-------------------------- MODULE PermanentDeletion --------------------------
(***************************************************************************)
(* What the permanent deletion of pages promises, whatever requests and    *)
(* cron runs are doing beside it: pages are deleted in whole groups, each  *)
(* archived as a whole before it was accepted; from then until its rows go *)
(* nothing is restored, moved or created in it; no page outside the group  *)
(* loses its parent; and the ids stay unused until the erasure has ended.  *)
(***************************************************************************)
CONSTANTS
  Page,   \* page ids
  Top     \* the parent of a page of the top level

VARIABLES
  home,      \* the parent of each page that exists
  archived,  \* pages in the trash
  accepted,  \* groups whose deletion is accepted, their rows still there
  erasing    \* groups whose rows are gone and whose content is being erased

vars == <<home, archived, accepted, erasing>>

Exists == DOMAIN home
Doomed == UNION accepted

Init == Exists = {} /\ archived = {} /\ accepted = {} /\ erasing = {}

\* A place for a page: the top level or a page that nobody is deleting.
Place == {Top} \cup (Exists \ Doomed)

Create ==
  /\ \E p \in Page \ (Exists \cup UNION erasing), q \in Place :
       home' = [x \in Exists \cup {p} |-> IF x = p THEN q ELSE home[x]]
  /\ UNCHANGED <<archived, accepted, erasing>>

Move ==
  /\ \E p \in Exists \ (archived \cup Doomed), q \in Place :
       home' = [home EXCEPT ![p] = q]
  /\ UNCHANGED <<archived, accepted, erasing>>

Archive ==
  /\ archived \subseteq archived' /\ archived' \subseteq Exists
  /\ UNCHANGED <<home, accepted, erasing>>

Restore ==
  /\ archived' \subseteq archived /\ Doomed \subseteq archived'
  /\ UNCHANGED <<home, accepted, erasing>>

Accept ==
  /\ \E S \in SUBSET (archived \ Doomed) : S # {} /\ accepted' = accepted \cup {S}
  /\ UNCHANGED <<home, archived, erasing>>

\* The rows of a group go in one step, and no page that stays hangs below them.
Remove ==
  \E S \in accepted :
    /\ \A p \in Exists \ S : home[p] \notin S
    /\ home' = [p \in Exists \ S |-> home[p]]
    /\ archived' = archived \ S
    /\ accepted' = accepted \ {S} /\ erasing' = erasing \cup {S}

Finish ==
  /\ \E S \in erasing : erasing' = erasing \ {S}
  /\ UNCHANGED <<home, archived, accepted>>

Next == Create \/ Move \/ Archive \/ Restore \/ Accept \/ Remove \/ Finish

Spec == Init /\ [][Next]_vars
=============================================================================
