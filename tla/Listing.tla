------------------------------- MODULE Listing -------------------------------
(***************************************************************************)
(* GET .../state and .../trustlines: a client pages through a current-     *)
(* state table, one statement a page, while the writers of module Snapshot *)
(* commit between the pages.  A key here is <<key, durability>>, ordered   *)
(* as the pair; a holder of a trustline has one durability.                *)
(***************************************************************************)
EXTENDS Snapshot, FiniteSets

CONSTANT Limits     \* page sizes a client may ask for

\* Keys start at 1: 0 stands for a key that was not given.
ASSUME ListingAssumption ==
    /\ Keys \subseteq (Nat \ {0}) \X Nat /\ IsFiniteSet(Keys)
    /\ Limits \subseteq Nat \ {0}

VARIABLE listing    \* the client's scan

\* filter: the exact key asked for, 0 = all; after: the position in the cursor,
\* <<0, 0>> on the first page; page: the keys of the last page, got: those of
\* the pages before it.  steady and seen are history: the keys with a live row
\* in every, and in some, state of the scan.
NotListing == [pc |-> "idle", filter |-> 0, limit |-> 0, after |-> <<0, 0>>, got |-> {},
               page |-> {}, steady |-> {}, seen |-> {}]

ListInit == Init /\ listing = NotListing

Before(k, l) == k[1] < l[1] \/ (k[1] = l[1] /\ k[2] < l[2])

\* Mutant: the position is the key alone.
Beyond_KeyOnly(k, after) == after[1] < k[1]

\* (key_xdr, durability) > (AfterKey, AfterDurability)
Beyond(k, after) == Before(after, k)

Asked(k, filter) == filter = 0 \/ k[1] = filter

Live(table, filter) == {k \in DOMAIN table : ~table[k].deleted /\ Asked(k, filter)}

\* ORDER BY key_xdr, durability LIMIT: the first rows, and the last of them.
FirstRows(rows, limit) == {k \in rows : Cardinality({l \in rows : Before(l, k)}) < limit}
LastOf(rows) == CHOOSE k \in rows : \A l \in rows : ~Before(k, l)

\* The rows beyond the cursor, one more than the page holds to know of the next.
QueryStateEntries(filter, after, limit) ==
    LET beyond == {k \in Live(entries, filter) : Beyond(k, after)}
    IN  [rows |-> FirstRows(beyond, limit), hasMore |-> Cardinality(beyond) > limit]

\* One request; without a cursor in its answer the client has the last page.
handleStateSnapshot(filter, limit, after, got, steady, seen) ==
    LET answer == QueryStateEntries(filter, after, limit)
        more == answer.hasMore /\ answer.rows # {}
    IN  listing' = [pc |-> IF more THEN "paging" ELSE "done", filter |-> filter, limit |-> limit,
                    after |-> IF more THEN LastOf(answer.rows) ELSE after,
                    got |-> got, page |-> answer.rows, steady |-> steady, seen |-> seen]

FirstPage ==
    /\ listing.pc # "paging"
    /\ \E limit \in Limits, filter \in {0} \cup {k[1] : k \in Keys} :
          handleStateSnapshot(filter, limit, <<0, 0>>, {},
                              Live(entries, filter), Live(entries, filter))
    /\ UNCHANGED vars

NextPage ==
    /\ listing.pc = "paging"
    /\ handleStateSnapshot(listing.filter, listing.limit, listing.after,
                           listing.got \cup listing.page, listing.steady, listing.seen)
    /\ UNCHANGED vars

\* A writer commits; the scan's history follows while the scan lasts.
Written ==
    /\ Next
    /\ LET live == Live(entries', listing.filter)
       IN  listing' = IF listing.pc # "paging" THEN listing
                      ELSE [listing EXCEPT !.steady = @ \cap live, !.seen = @ \cup live]

ListNext == FirstPage \/ NextPage \/ Written

ListSpec == ListInit /\ [][ListNext]_<<vars, listing>>

-----------------------------------------------------------------------------
\* "Current snapshot rows in (key, durability) order, tombstones excluded":
\* however the table changes between two pages, the scan delivers no key twice
\* and each page beyond the ones before it, every key that had a live row
\* throughout, in both durabilities, and none that had no live row since the
\* scan began.
ListingExact ==
    LET delivered == listing.got \cup listing.page
    IN  /\ \A k \in listing.page, l \in listing.got : Before(l, k)
        /\ delivered \subseteq listing.seen
        /\ listing.pc = "done" => listing.steady \subseteq delivered

=============================================================================
