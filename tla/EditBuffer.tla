------------------------------ MODULE EditBuffer ------------------------------
(* What a window that edits a document of the daemon promises.  The window  *)
(* holds a draft of the whole document; an edit changes one entry of it.    *)
(* The daemon holds the published document, which changes only by           *)
(* becoming the draft, whole.  A refused edit stays in the draft, and goes  *)
(* out with the next edit that is accepted, whichever entry that one is     *)
(* about.                                                                   *)
CONSTANTS
  Entries,      (* the entries of the document *)
  Values        (* what an entry can hold *)

VARIABLES draft, published

Documents == [Entries -> Values]

Init == draft \in Documents /\ published = draft

(* One entry of the draft is edited.                                        *)
Edit(e) == \E v \in Values : draft' = [draft EXCEPT ![e] = v]

Publish(e) == Edit(e) /\ published' = draft'

Refuse(e) == Edit(e) /\ UNCHANGED published

(* The window is opened again.                                              *)
Reload == draft' = published /\ UNCHANGED published

Next ==
  \/ \E e \in Entries : Publish(e) \/ Refuse(e)
  \/ Reload

Spec == Init /\ [][Next]_<<draft, published>>
===============================================================================
