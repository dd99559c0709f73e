---------------------------- MODULE ThreadListing ----------------------------
(***************************************************************************)
(* Listing the threads of an inbox page by page (threadStore.List), by     *)
(* status, read flag or label, while messages arrive and move threads, and *)
(* threads and labels change.  The client passes the next_cursor of a page *)
(* on to get the next one; every page is a query of its own and sees what  *)
(* is committed then.  Messages and inboxes are listed the same way, by a  *)
(* key that never changes.                                                 *)
(***************************************************************************)
EXTENDS Naturals, FiniteSets

CONSTANTS
    N,           \* threads are 1 .. N, in the order of their UUIDs
    Labels,
    Limit,       \* page size, after ClampLimit
    MaxTime,     \* bound: last_message_at is in 1 .. MaxTime
    None         \* no label in the filter

ASSUME ListingAssumption ==
    N \in Nat /\ Limit \in Nat \ {0} /\ MaxTime \in Nat \ {0} /\ None \notin Labels

Threads == 1 .. N

VARIABLES
    at,          \* last_message_at of a thread, 0 if there is no such thread yet
    open,        \* threads with status 'open', not read and not starred: the rest
                 \* of what a filter may ask for
    label,       \* labels that exist
    applied,     \* thread_labels
    filter,      \* the filter of the listing: a label, and whether open is asked for
    list,        \* the listing: its cursor, and how often a thread was returned
    stable       \* threads that match the filter and keep their place since it began

vars == <<at, open, label, applied, filter, list, stable>>

Start == <<MaxTime + 1, 0>>     \* no cursor: before every thread

Init ==
    /\ at = [t \in Threads |-> 0]
    /\ open = {}
    /\ label = {}
    /\ applied = {}
    /\ filter = [label |-> None, open |-> FALSE]
    /\ list = [pc |-> "idle", cursor |-> Start, got |-> [t \in Threads |-> 0]]
    /\ stable = {}

-----------------------------------------------------------------------------
(* threadStore.List *)

Exists(t) == at[t] # 0

\* The WHERE clause without the cursor.
Match(t) ==
    /\ Exists(t)
    /\ filter.open => t \in open
    /\ filter.label # None => <<t, filter.label>> \in applied

\* ORDER BY last_message_at DESC, id DESC: keys <<last_message_at, id>>.
Key(t)         == <<at[t], t>>
Precedes(k, l) == k[1] > l[1] \/ (k[1] = l[1] /\ k[2] > l[2])

\* Mutant: the cursor compares last_message_at only.
After_TimeOnly(cursor, t) == cursor[1] > at[t]

\* The condition the cursor adds: (last_message_at, id) < cursor.
After(cursor, t) == Precedes(cursor, Key(t))

\* The first n threads of a set in that order, and the last one of a page.
FirstOf(S, n) == {t \in S : Cardinality({u \in S : Precedes(Key(u), Key(t))}) < n}
LastOf(page)  == CHOOSE t \in page : \A u \in page : t = u \/ Precedes(Key(u), Key(t))

ListBegin(f) ==
    /\ list.pc = "idle"
    /\ list' = [list EXCEPT !.pc = "busy"]
    /\ filter' = f
    /\ UNCHANGED <<at, open, label, applied>>
    /\ stable' = {t \in Threads : Match(t)'}

\* One page: Limit + 1 rows are read, and only if the extra one is there is a
\* cursor made, of the last row returned.  Without a cursor the client stops.
ListPage ==
    /\ list.pc = "busy"
    /\ LET rows == FirstOf({t \in Threads : Match(t) /\ After(list.cursor, t)}, Limit + 1)
           page == FirstOf(rows, Limit)
           more == rows # page
       IN  list' = [pc     |-> IF more THEN "busy" ELSE "done",
                    cursor |-> IF more THEN Key(LastOf(page)) ELSE list.cursor,
                    got    |-> [t \in Threads |-> list.got[t] + IF t \in page THEN 1 ELSE 0]]
    /\ UNCHANGED <<at, open, label, applied, filter, stable>>

\* What a step that changes threads or labels leaves of the stable ones.
Unsettle ==
    /\ UNCHANGED <<filter, list>>
    /\ stable' = {t \in stable : Match(t)' /\ at'[t] = at[t]}

-----------------------------------------------------------------------------
(* Meanwhile *)

NewThread(t, time) ==
    /\ ~ Exists(t)
    /\ at' = [at EXCEPT ![t] = time]
    /\ open' = open \cup {t}
    /\ UNCHANGED <<label, applied>>
    /\ Unsettle

\* IncrMessageCount: last_message_at is set to a time its caller took before it
\* got the row lock, so it may also go back.
IncrMessageCount(t, time) ==
    /\ Exists(t)
    /\ at' = [at EXCEPT ![t] = time]
    /\ UNCHANGED <<open, label, applied>>
    /\ Unsettle

\* A PATCH commits (see Threads).
PatchThread(t) ==
    /\ Exists(t)
    /\ open' \in {open \cup {t}, open \ {t}}
    /\ UNCHANGED <<at, label, applied>>
    /\ Unsettle

\* A label's name is unique in its organization.
CreateLabel(l) ==
    /\ l \notin label
    /\ label' = label \cup {l}
    /\ UNCHANGED <<at, open, applied, filter, list, stable>>

\* thread_labels rows go with the label.
DeleteLabel(l) ==
    /\ l \in label
    /\ label' = label \ {l}
    /\ applied' = {p \in applied : p[2] # l}
    /\ UNCHANGED <<at, open>>
    /\ Unsettle

\* ON CONFLICT DO NOTHING; the foreign keys need thread and label to exist.
ApplyLabel(t, l) ==
    /\ Exists(t) /\ l \in label
    /\ applied' = applied \cup {<<t, l>>}
    /\ UNCHANGED <<at, open, label>>
    /\ Unsettle

RemoveLabel(t, l) ==
    /\ Exists(t)
    /\ applied' = applied \ {<<t, l>>}
    /\ UNCHANGED <<at, open, label>>
    /\ Unsettle

-----------------------------------------------------------------------------
Next ==
    \/ \E f \in [label : Labels \cup {None}, open : BOOLEAN] : ListBegin(f)
    \/ ListPage
    \/ \E t \in Threads :
          \/ \E time \in 1 .. MaxTime : NewThread(t, time) \/ IncrMessageCount(t, time)
          \/ PatchThread(t)
          \/ \E l \in Labels : ApplyLabel(t, l) \/ RemoveLabel(t, l)
    \/ \E l \in Labels : CreateLabel(l) \/ DeleteLabel(l)

Spec == Init /\ [][Next]_vars

-----------------------------------------------------------------------------
\* A client that follows next_cursor to the end gets every thread that matched
\* the filter and kept its place exactly once, whatever happens to the others
\* between two pages.
StableIsListed == \A t \in stable :
    list.got[t] <= 1 /\ (list.pc = "done" => list.got[t] = 1)
=============================================================================
