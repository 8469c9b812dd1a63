--------------------------- MODULE FeaturedOrders ---------------------------
(***************************************************************************)
(* What paying for a featured listing promises, without requests, rows and *)
(* messages: an order buys one listing a date; once a success has been     *)
(* reported of the order, one atomic step features the listing until that  *)
(* date and enters the order in the ledger of the listing.  The same order *)
(* may be entered again (a payment that failed after it succeeded and is   *)
(* reported once more).  The report of an order that has been withdrawn    *)
(* counts for the other orders of its listing.  Nothing else ever changes  *)
(* the date or the ledger, short of removing the listing.                  *)
(***************************************************************************)
EXTENDS Naturals, Sequences

CONSTANTS Intents, Jobs, HistoryCap

VARIABLES
    target,     \* the listing an order is for
    until,      \* the date it buys, 0 while the order has not been placed
    reported,   \* orders of which a success was reported, perhaps not yet paid
    withdrawn,  \* orders that went with their user or their listing
    removed,    \* listings that were deleted
    featured,   \* the date until which a listing is featured, 0 for never
    ledger      \* the last HistoryCap orders that featured a listing

vars == <<target, until, reported, withdrawn, removed, featured, ledger>>

Init ==
    /\ target \in [Intents -> Jobs]
    /\ until = [i \in Intents |-> 0]
    /\ reported = {} /\ withdrawn = {} /\ removed = {}
    /\ featured = [j \in Jobs |-> 0]
    /\ ledger = [j \in Jobs |-> <<>>]

\* for whatever date: the request decides it
Place(i, j) ==
    /\ until[i] = 0 /\ until'[i] > 0
    /\ j \notin removed
    /\ until' = [until EXCEPT ![i] = until'[i]]
    /\ target' = [target EXCEPT ![i] = j]
    /\ UNCHANGED <<reported, withdrawn, removed, featured, ledger>>

Report(i) ==
    /\ until[i] > 0
    /\ reported' = reported \cup {i}
    /\ UNCHANGED <<target, until, withdrawn, removed, featured, ledger>>

LastEntries(s) ==
    IF Len(s) > HistoryCap THEN SubSeq(s, Len(s) - HistoryCap + 1, Len(s)) ELSE s

Feature(i) ==
    /\ until[i] > 0 /\ i \notin withdrawn
    /\ \E k \in reported :
          k = i \/ (k \in withdrawn /\ target[k] = target[i])
    /\ featured' = [featured EXCEPT ![target[i]] = until[i]]
    /\ ledger' = [ledger EXCEPT ![target[i]] = LastEntries(Append(@, i))]
    /\ UNCHANGED <<target, until, reported, withdrawn, removed>>

\* the listings js go and their orders with them, or only some orders `is`
Remove(js, is) ==
    /\ removed' = removed \cup js /\ withdrawn' = withdrawn \cup is
    /\ \A i \in Intents : until[i] > 0 /\ target[i] \in js => i \in withdrawn'
    /\ \A i \in is : until[i] > 0
    /\ featured' = [j \in Jobs |-> IF j \in js THEN 0 ELSE featured[j]]
    /\ ledger' = [j \in Jobs |-> IF j \in js THEN <<>> ELSE ledger[j]]
    /\ UNCHANGED <<target, until, reported>>

Next ==
    \/ \E js \in SUBSET Jobs, is \in SUBSET Intents : Remove(js, is)
    \/ \E i \in Intents : Report(i) \/ Feature(i)
    \/ \E i \in Intents, j \in Jobs : Place(i, j)

Spec == Init /\ [][Next]_vars
=============================================================================
