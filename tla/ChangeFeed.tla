----------------------------- MODULE ChangeFeed -----------------------------
(***************************************************************************)
(* What AsyncChangeFeed promises (protocol.rs, change.rs): an ordered,     *)
(* resumable feed of the store's mutations.  A subscription walks the      *)
(* store's history one change after the other, from the position it was    *)
(* opened at.  It hands over every change its filter matches, and it       *)
(* leaves changes out only by saying so (Error::ChangeFeedLagged,          *)
(* Error::ChangeCursorExpired): a gap is never silent.                     *)
(*                                                                         *)
(* The backends' feeds are shown to implement this specification, or shown *)
(* not to.                                                                 *)
(***************************************************************************)
EXTENDS Changes, Sequences

CONSTANT
    Subscribers     \* consumers of the feed

VARIABLES
    history,        \* every mutation reported so far, oldest first
    opened,         \* [Subscribers -> BOOLEAN], the stream exists
    asked,          \* [Subscribers -> ChangeStart], where it was asked to start
    filter,         \* [Subscribers -> ChangeFilter], the stream's filter
    position,       \* [Subscribers -> Nat], the stream is past this change
    delivered,      \* [Subscribers -> SUBSET Nat], changes handed over
    lost            \* [Subscribers -> SUBSET Nat], changes reported as missed

vars == <<history, opened, asked, filter, position, delivered, lost>>

Init ==
    /\ history = <<>>
    /\ opened = [s \in Subscribers |-> FALSE]
    /\ asked = [s \in Subscribers |-> DefaultStart]
    /\ filter = [s \in Subscribers |-> DefaultFilter]
    /\ position = [s \in Subscribers |-> 0]
    /\ delivered = [s \in Subscribers |-> {}]
    /\ lost = [s \in Subscribers |-> {}]

\* A mutation is reported, under a revision above every earlier one.
Report(change) ==
    /\ \A i \in DOMAIN history : history[i].revision < change.revision
    /\ history' = Append(history, change)
    /\ UNCHANGED <<opened, asked, filter, position, delivered, lost>>

\* The positions at which a subscription may start: after the change the cursor
\* names and no later, at the end, or wherever the retained history begins.
StartsAt(start, p) ==
    CASE start.kind = "After" ->
            /\ \A i \in 1 .. p : history[i].revision <= start.cursor
            /\ \A i \in p + 1 .. Len(history) : history[i].revision > start.cursor
      [] start.kind = "Latest" -> p = Len(history)
      [] start.kind = "Beginning" -> TRUE
      [] OTHER -> FALSE

\* A subscription is opened.
Open(s, start, f, p) ==
    /\ ~opened[s]
    /\ StartsAt(start, p)
    /\ opened' = [opened EXCEPT ![s] = TRUE]
    /\ asked' = [asked EXCEPT ![s] = start]
    /\ filter' = [filter EXCEPT ![s] = f]
    /\ position' = [position EXCEPT ![s] = p]
    /\ delivered' = [delivered EXCEPT ![s] = {}]
    /\ lost' = [lost EXCEPT ![s] = {}]
    /\ UNCHANGED history

\* The stream passes the next change, and hands it over if the filter matches.
Advance(s) ==
    LET r == position[s] + 1 IN
    /\ opened[s]
    /\ r <= Len(history)
    /\ position' = [position EXCEPT ![s] = r]
    /\ delivered' = IF Matches(filter[s], history[r])
                      THEN [delivered EXCEPT ![s] = @ \cup {r}]
                      ELSE delivered
    /\ UNCHANGED <<history, opened, asked, filter, lost>>

\* The stream reports that it jumped over changes it can no longer hand over.
Lose(s, r) ==
    /\ opened[s]
    /\ r > position[s]
    /\ position' = [position EXCEPT ![s] = r]
    /\ lost' = [lost EXCEPT ![s] = @ \cup (position[s] + 1 .. r)]
    /\ UNCHANGED <<history, opened, asked, filter, delivered>>

\* The consumer drops its stream, or the stream ends.
Close(s) ==
    /\ opened[s]
    /\ opened' = [opened EXCEPT ![s] = FALSE]
    /\ UNCHANGED <<history, asked, filter, position, delivered, lost>>

Next ==
    \/ \E change \in StoreChange : Report(change)
    \/ \E s \in Subscribers :
          \/ \E start \in Starts, f \in Filters, p \in 0 .. Len(history) :
                Open(s, start, f, p)
          \/ Advance(s)
          \/ \E r \in 1 .. Len(history) : Lose(s, r)
          \/ Close(s)

Spec == Init /\ [][Next]_vars
=============================================================================
