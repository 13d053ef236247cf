----------------------------- MODULE LedgerCopy -----------------------------
(***************************************************************************)
(* What the ERPNext sync promises, with no queue, cursor or retry in it:   *)
(* ERPNext holds copies of documents GarageOS holds, every document is     *)
(* copied at most once and never taken back, and a document is copied only *)
(* after the documents it refers to (ERPNEXT_SYNC_BRIEF.md, 0 and 7).      *)
(***************************************************************************)

CONSTANTS Docs,         \* every document GarageOS may ever hold
          Standing,     \* those it holds whether or not the ledger names them
          MayReferTo    \* MayReferTo[d]: the sets of documents d may refer to

VARIABLES posted,       \* the documents GarageOS holds
          copied        \* the documents ERPNext holds

vars == <<posted, copied>>

Init == posted = Standing /\ copied = {}

\* The garage posts a document.
Post(d) == /\ posted' = posted \union {d}
           /\ UNCHANGED copied

\* ERPNext accepts one more copy.
Copy(d) == /\ d \in posted \ copied
           /\ \E refs \in MayReferTo[d] : refs \subseteq copied
           /\ copied' = copied \union {d}
           /\ UNCHANGED posted

Next == \E d \in Docs : Post(d) \/ Copy(d)

Spec == Init /\ [][Next]_vars
=============================================================================
