---------------------------- MODULE EmbassyWatch ----------------------------
(***************************************************************************)
(* embassy_sync::watch::Watch as the boards use it: one cell that keeps    *)
(* only the latest value, and per receiver a mark that says whether that   *)
(* value was seen.  A value sent before the receiver ran is overwritten:   *)
(* a Watch is not a queue.  Every Watch modelled with these operators has  *)
(* a single receiver that acts on it, so the mark is kept in the cell.     *)
(***************************************************************************)

CONSTANT NoVal   \* the content of a Watch that was never sent to

\* Watch::new().
EmptyWatch == [val |-> NoVal, new |-> FALSE]

\* The cells that may hold a value of S.
WatchOf(S) == {EmptyWatch} \cup [val : S, new : BOOLEAN]

\* Sender::send(v): replaces the value and marks it unseen.
Send(v) == [val |-> v, new |-> TRUE]

\* The receiver's changed() / try_changed() returned the value of w.
Seen(w) == [w EXCEPT !.new = FALSE]
=============================================================================
