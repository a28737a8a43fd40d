--------------------------- MODULE DurableDocument ---------------------------
(***************************************************************************)
(* What a page's document promises its clients, whatever the room that     *)
(* keeps it does: an update that was confirmed and an operation that was   *)
(* answered stay saved, and the published projection only ever moves       *)
(* forward through saved content, until the page is erased.                *)
(***************************************************************************)
CONSTANTS Update

VARIABLES
  saved,      \* updates the next reader of the stored document finds
  confirmed,  \* updates a client was told are saved
  answered,   \* operations a caller was told are committed
  published   \* updates in the projection that search and rendering use

vars == <<saved, confirmed, answered, published>>

Init ==
  /\ saved \in SUBSET Update
  /\ confirmed = {} /\ answered = {} /\ published = {}

\* More updates are saved; a client may be told so, of saved updates only.
Save ==
  /\ saved \subseteq saved' /\ saved' \subseteq Update
  /\ confirmed \subseteq confirmed' /\ confirmed' \subseteq saved'
  /\ UNCHANGED <<answered, published>>

Answer ==
  /\ answered \subseteq answered' /\ answered' \subseteq saved
  /\ UNCHANGED <<saved, confirmed, published>>

Publish ==
  /\ published \subseteq published' /\ published' \subseteq saved
  /\ UNCHANGED <<saved, confirmed, answered>>

\* The page is permanently deleted: nothing is owed to anyone any more.
Erase ==
  /\ saved' \subseteq saved /\ confirmed' = {} /\ answered' = {}
  /\ UNCHANGED published

Next == Save \/ Answer \/ Publish \/ Erase

Spec == Init /\ [][Next]_vars
=============================================================================
