------------------------------ MODULE Tenancy ------------------------------
(***************************************************************************)
(* The inboxes and pods of an organization: InboxService with its store    *)
(* and the pod operations of the orgs Lambda.  A request carries the       *)
(* claims the authorizer gave its key some time ago: the pod of the key,   *)
(* which may be gone by now, and the seat limit of the license.            *)
(*                                                                         *)
(* Only creating an inbox takes several steps: the active inboxes are      *)
(* counted by a statement of its own, then a transaction inserts the row.  *)
(***************************************************************************)
EXTENDS Integers, FiniteSets

CONSTANTS
    Reqs,           \* requests to create an inbox
    Addresses,      \* an address is used by at most one inbox
    Pods,
    Limits,         \* seat limits of licenses
    PolicyApplies,  \* does row-level security bind the role of the Lambdas?  It does
                    \* not bind the owner of a table
    None

Unlimited == -1

ASSUME TenancyAssumption ==
    /\ Limits \subseteq Nat \cup {Unlimited}
    /\ PolicyApplies \in BOOLEAN
    /\ None \notin Pods

VARIABLES
    pod,            \* "none" before a pod is created, "live", "gone"
    inbox,          \* status and pod of an address' inbox
    maker,          \* pod of the key that created it, a history variable
    req             \* requests: step, pods of key and inbox, limit, and whether no
                    \* inbox became active since the request counted them

vars == <<pod, inbox, maker, req>>

NoInbox == [status |-> "none", pod |-> None]
At(pc)  == [pc |-> pc, key |-> None, pod |-> None, limit |-> 0, fresh |-> FALSE]
Active  == {a \in Addresses : inbox[a].status = "active"}

Init ==
    /\ pod = [p \in Pods |-> "none"]
    /\ inbox = [a \in Addresses |-> NoInbox]
    /\ maker = [a \in Addresses |-> None]
    /\ req = [r \in Reqs |-> At("idle")]

\* The claims of a key may name a pod that exists, or one that did.
ClaimedPods == {None} \cup {p \in Pods : pod[p] # "none"}

-----------------------------------------------------------------------------
(* Pods *)

CreatePod(p) ==
    /\ pod[p] = "none"
    /\ pod' = [pod EXCEPT ![p] = "live"]
    /\ UNCHANGED <<inbox, maker, req>>

\* removePod; ON DELETE SET NULL for the inboxes of the pod.
DeletePod(p) ==
    /\ pod[p] = "live"
    /\ pod' = [pod EXCEPT ![p] = "gone"]
    /\ inbox' = [a \in Addresses |->
                    IF inbox[a].pod = p THEN [inbox[a] EXCEPT !.pod = None] ELSE inbox[a]]
    /\ UNCHANGED <<maker, req>>

-----------------------------------------------------------------------------
(* InboxService.Create *)

\* Mutant: the pod of the key is only a default.
PodFor_AnyPod(key, asked) == IF asked = None THEN {key} ELSE {asked}

\* The pod of the new inbox: none if another one than the key's is asked for.
PodFor(key, asked) ==
    IF key = None THEN {asked}
    ELSE IF asked \in {None, key} THEN {key} ELSE {}

\* Mutant: an inbox too many.
HasRoom_OffByOne(limit) == limit # Unlimited => Cardinality(Active) <= limit

HasRoom(limit) == limit # Unlimited => Cardinality(Active) < limit

\* Up to and including the count.
CountSeats(r, key, asked, limit) ==
    /\ req[r].pc = "idle"
    /\ HasRoom(limit)
    /\ \E p \in PodFor(key, asked) :
          req' = [req EXCEPT ![r] = [pc |-> "counted", key |-> key, pod |-> p,
                                     limit |-> limit, fresh |-> TRUE]]
    /\ UNCHANGED <<pod, inbox, maker>>

\* The pod, the seat limit or the address is refused, or the count fails.
Refuse(r) ==
    /\ req[r].pc = "idle"
    /\ req' = [req EXCEPT ![r] = At("ended")]
    /\ UNCHANGED <<pod, inbox, maker>>

\* What an inbox that becomes active means to the requests that have counted.
Outdated(q) == [r \in Reqs |-> [q[r] EXCEPT !.fresh = FALSE]]

\* inboxStore.Create: the address is unique, the pod must exist.  inbox.created is
\* published after the commit (see EventFanout).
InsertInbox(r, a) ==
    /\ req[r].pc = "counted"
    /\ inbox[a] = NoInbox
    /\ req[r].pod \in {None} \cup {p \in Pods : pod[p] = "live"}
    /\ inbox' = [inbox EXCEPT ![a] = [status |-> "active", pod |-> req[r].pod]]
    /\ maker' = [maker EXCEPT ![a] = req[r].key]
    /\ req' = Outdated([req EXCEPT ![r] = At("made")])
    /\ UNCHANGED pod

\* The address is taken, the pod is gone, the database fails, or the Lambda dies.
InsertFails(r) ==
    /\ req[r].pc = "counted"
    /\ req' = [req EXCEPT ![r] = At("ended")]
    /\ UNCHANGED <<pod, inbox, maker>>

-----------------------------------------------------------------------------
(* InboxService.Update and Delete, each in one transaction of the key's pod *)

Visible(key, a) ==
    /\ inbox[a] # NoInbox
    /\ PolicyApplies /\ key # None => inbox[a].pod = key

\* Any status may be set, "active" too, and no seat is counted.
UpdateInbox(key, a, status) ==
    /\ Visible(key, a)
    /\ inbox' = [inbox EXCEPT ![a].status = status]
    /\ req' = IF status = "active" /\ a \notin Active THEN Outdated(req) ELSE req
    /\ UNCHANGED <<pod, maker>>

DeleteInbox(key, a) ==
    /\ Visible(key, a)
    /\ inbox' = [inbox EXCEPT ![a] = NoInbox]
    /\ maker' = [maker EXCEPT ![a] = None]
    /\ UNCHANGED <<pod, req>>

-----------------------------------------------------------------------------
Next ==
    \/ \E p \in Pods : CreatePod(p) \/ DeletePod(p)
    \/ \E key \in ClaimedPods :
          \/ \E r \in Reqs, asked \in ClaimedPods, limit \in Limits :
                CountSeats(r, key, asked, limit)
          \/ \E a \in Addresses :
                \/ \E s \in {"active", "suspended", "deleted"} : UpdateInbox(key, a, s)
                \/ DeleteInbox(key, a)
    \/ \E r \in Reqs : Refuse(r) \/ InsertFails(r) \/ \E a \in Addresses : InsertInbox(r, a)

Spec == Init /\ [][Next]_vars

-----------------------------------------------------------------------------
\* A request takes the organization over its seat limit only if another request
\* made an inbox active after this one had counted: requests that overlap, and
\* PATCH, which counts nothing, are the only ways past the limit.
SeatsHold == [][\A r \in Reqs :
    (req[r].pc = "counted" /\ req'[r].pc = "made" /\ req[r].fresh
        /\ req[r].limit # Unlimited) => Cardinality(Active') <= req[r].limit]_vars

\* An inbox created with the key of a pod is in this pod for as long as the pod
\* exists, whatever the request asked for, whichever pods are deleted before its
\* row is written and whoever changes the inbox later; the policy of the table is
\* not needed for this.
PodOfCreator == \A a \in Addresses :
    (maker[a] # None /\ pod[maker[a]] = "live") => inbox[a].pod = maker[a]
=============================================================================
