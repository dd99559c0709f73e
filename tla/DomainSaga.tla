----------------------------- MODULE DomainSaga -----------------------------
(***************************************************************************)
(* Custom domains (DomainService).  A domain lives in three places that no *)
(* transaction spans: an identity and a receipt rule in SES, and a row in  *)
(* domain_configs.  Register creates them in this order and takes the rule *)
(* back if the row cannot be written; Delete removes rule, identity and    *)
(* row, logging errors of the first two; Verify polls SES and updates the  *)
(* row it has read before.  Calls overlap, fail and die between any two    *)
(* steps.                                                                  *)
(*                                                                         *)
(* A row, and a receipt rule, is named by the Register call that made it.  *)
(***************************************************************************)
EXTENDS Naturals

CONSTANTS
    Calls,       \* API calls; each is made once, their number bounds the instance
    Domains,
    RuleName,    \* receiptRuleName: several domains may get the same name
    None

ASSUME DomainAssumption == DOMAIN RuleName = Domains /\ None \notin Calls \cup Domains

VARIABLES
    call,        \* the calls: operation, next step, domain, row, status read
    row,         \* status of the row a Register call has made
    identity,    \* verification status of a domain's identity in SES
    rule,        \* the Register call whose receipt rule has a name
    cut,         \* <<x, y>>: a Delete of row x, or the rollback of the Register that
                 \* made it, has removed the rule of y
    polled,      \* rows a Verify of which was told Success
    faults       \* rule names left behind by a crash, an SES error or a cascade

vars == <<call, row, identity, rule, cut, polled, faults>>

Names    == {RuleName[d] : d \in Domains}
Live     == {"pending", "verifying", "active", "failed"}
Statuses == Live \cup {"none", "deleted"}
Ops      == {"none", "register", "verify", "delete"}
Pcs      == {"idle", "begun", "identified", "ruled", "rollback", "read", "polled",
             "unruled", "unidentified", "undone", "ended"}
Call     == [op : Ops, pc : Pcs, domain : Domains \cup {None},
             row : Calls \cup {None}, status : Statuses]

Idle     == [op |-> "none", pc |-> "idle", domain |-> None, row |-> None, status |-> "none"]

At(c, op, pc) == call[c].op = op /\ call[c].pc = pc
Active(c)  == call[c].pc \notin {"idle", "undone", "ended"}
Goto(c, pc) == call' = [call EXCEPT ![c].pc = pc]
NameOf(c)  == RuleName[call[c].domain]
Rows(d)    == {x \in Calls : row[x] \in Live /\ call[x].domain = d}

Init ==
    /\ call = [c \in Calls |-> Idle]
    /\ row = [c \in Calls |-> "none"]
    /\ identity = [d \in Domains |-> "none"]
    /\ rule = [r \in Names |-> None]
    /\ cut = {}
    /\ polled = {}
    /\ faults = {}

-----------------------------------------------------------------------------
(* Register *)

Register(c, d) ==
    /\ call[c] = Idle
    /\ call' = [call EXCEPT ![c].op = "register", ![c].pc = "begun", ![c].domain = d]
    /\ UNCHANGED <<row, identity, rule, cut, polled, faults>>

\* VerifyDomainIdentity and VerifyDomainDkim: an identity that exists is left as
\* it is, whoever made it.
VerifyIdentity(c) ==
    /\ At(c, "register", "begun")
    /\ identity' = [identity EXCEPT ![call[c].domain] = IF @ = "none" THEN "pending" ELSE @]
    /\ Goto(c, "identified")
    /\ UNCHANGED <<row, rule, cut, polled, faults>>

CreateReceiptRule(c) ==
    /\ At(c, "register", "identified")
    /\ rule[NameOf(c)] = None
    /\ rule' = [rule EXCEPT ![NameOf(c)] = c]
    /\ Goto(c, "ruled")
    /\ UNCHANGED <<row, identity, cut, polled, faults>>

\* Mutant: an error is cleaned up after, here too.
CreateRuleFails_CleansUp(c) ==
    /\ At(c, "register", "identified")
    /\ Goto(c, "rollback")
    /\ UNCHANGED <<row, identity, rule, cut, polled, faults>>

\* The name is taken, or SES fails, perhaps after it has created the rule.
CreateRuleFails(c) ==
    /\ At(c, "register", "identified")
    /\ Goto(c, "ended")
    /\ \/ UNCHANGED <<rule, faults>>
       \/ /\ rule[NameOf(c)] = None
          /\ rule' = [rule EXCEPT ![NameOf(c)] = c]
          /\ faults' = faults \cup {NameOf(c)}
    /\ UNCHANGED <<row, identity, cut, polled>>

\* store.Create: domain is UNIQUE.
InsertRow(c) ==
    /\ At(c, "register", "ruled")
    /\ Rows(call[c].domain) = {}
    /\ row' = [row EXCEPT ![c] = "pending"]
    /\ Goto(c, "ended")
    /\ UNCHANGED <<identity, rule, cut, polled, faults>>

\* Mutant: the rule is not taken back.
InsertFails_KeepsRule(c) ==
    /\ At(c, "register", "ruled")
    /\ Goto(c, "ended")
    /\ UNCHANGED <<row, identity, rule, cut, polled, faults>>

\* The domain is taken, pod_id is missing or unknown, or the database fails, perhaps
\* after the commit took effect (WithTx passes on the error of Commit).
InsertFails(c) ==
    /\ At(c, "register", "ruled")
    /\ \/ UNCHANGED row
       \/ Rows(call[c].domain) = {} /\ row' = [row EXCEPT ![c] = "pending"]
    /\ Goto(c, "rollback")
    /\ UNCHANGED <<identity, rule, cut, polled, faults>>

\* The rule is removed by its name, whether or not the row is there; the identity
\* stays.  SES may answer this with an error all the same, which is only logged.
\* Register answers with an error: "undone".
RollbackRule(c) ==
    /\ At(c, "register", "rollback")
    /\ rule' = [rule EXCEPT ![NameOf(c)] = None]
    /\ cut' = IF row[c] = "none" THEN cut ELSE cut \cup {<<c, rule[NameOf(c)]>>}
    /\ Goto(c, "undone")
    /\ UNCHANGED <<row, identity, polled, faults>>

\* SES fails and the rule stays.
RollbackFails(c) ==
    /\ At(c, "register", "rollback")
    /\ faults' = faults \cup {NameOf(c)}
    /\ Goto(c, "undone")
    /\ UNCHANGED <<row, identity, rule, cut, polled>>

-----------------------------------------------------------------------------
(* Verify *)

\* GetByID, in a transaction of its own: a row of the caller's organization.
ReadRow(c, op, x) ==
    /\ call[c] = Idle
    /\ row[x] \in Live
    /\ call' = [call EXCEPT ![c] = [op |-> op, pc |-> "read", domain |-> call[x].domain,
                                    row |-> x, status |-> row[x]]]
    /\ UNCHANGED <<row, identity, rule, cut, polled, faults>>

StatusFor(verification) ==
    CASE verification = "success" -> "active"
      [] verification = "failed"  -> "failed"
      [] verification = "pending" -> "verifying"

\* SES knows the domain: write the status unless it is the one that was read.
PollSES(c) ==
    /\ At(c, "verify", "read")
    /\ LET now == identity[call[c].domain] IN
          /\ now # "none"
          /\ polled' = IF now = "success" THEN polled \cup {call[c].row} ELSE polled
          /\ call' = [call EXCEPT ![c].status = StatusFor(now),
                         ![c].pc = IF StatusFor(now) = call[c].status THEN "ended" ELSE "polled"]
    /\ UNCHANGED <<row, identity, rule, cut, faults>>

\* Mutant: the row is looked up by the domain's name.
UpdateStatus_ByDomain(c) ==
    /\ At(c, "verify", "polled")
    /\ row' = [x \in Calls |-> IF x \in Rows(call[c].domain) THEN call[c].status ELSE row[x]]
    /\ Goto(c, "ended")
    /\ UNCHANGED <<identity, rule, cut, polled, faults>>

\* UPDATE ... WHERE id: no row is no error, and no status is too old to write.
UpdateStatus(c) ==
    /\ At(c, "verify", "polled")
    /\ row' = [row EXCEPT ![call[c].row] = IF @ \in Live THEN call[c].status ELSE @]
    /\ Goto(c, "ended")
    /\ UNCHANGED <<identity, rule, cut, polled, faults>>

-----------------------------------------------------------------------------
(* Delete *)

\* The rule goes, whether SES says so or answers with an error, which is only logged.
DeleteReceiptRule(c) ==
    /\ At(c, "delete", "read")
    /\ rule' = [rule EXCEPT ![NameOf(c)] = None]
    /\ cut' = cut \cup {<<call[c].row, rule[NameOf(c)]>>}
    /\ Goto(c, "unruled")
    /\ UNCHANGED <<row, identity, polled, faults>>

\* SES fails and the rule stays.
DeleteRuleFails(c) ==
    /\ At(c, "delete", "read")
    /\ faults' = faults \cup {NameOf(c)}
    /\ Goto(c, "unruled")
    /\ UNCHANGED <<row, identity, rule, cut, polled>>

\* DeleteIdentity; an error is logged.
DeleteIdentity(c) ==
    /\ At(c, "delete", "unruled")
    /\ identity' \in {identity, [identity EXCEPT ![call[c].domain] = "none"]}
    /\ Goto(c, "unidentified")
    /\ UNCHANGED <<row, rule, cut, polled, faults>>

DeleteRow(c) ==
    /\ At(c, "delete", "unidentified")
    /\ row' = [row EXCEPT ![call[c].row] = "deleted"]
    /\ Goto(c, "ended")
    /\ UNCHANGED <<identity, rule, cut, polled, faults>>

-----------------------------------------------------------------------------
\* A call dies, or the step it is at returns an error the handler passes on.
Crash(c) ==
    /\ Active(c)
    /\ Goto(c, "ended")
    /\ faults' = IF call[c].pc \in {"ruled", "rollback"} THEN faults \cup {NameOf(c)} ELSE faults
    /\ UNCHANGED <<row, identity, rule, cut, polled>>

\* Deleting a pod deletes its domains by ON DELETE CASCADE; nobody tells SES.
RemovePod(x) ==
    /\ row[x] \in Live
    /\ row' = [row EXCEPT ![x] = "deleted"]
    /\ faults' = faults \cup {NameOf(x)}
    /\ UNCHANGED <<call, identity, rule, cut, polled>>

\* SES looks the domain's DNS records up, again and again.
CheckDNS(d) ==
    /\ identity[d] # "none"
    /\ \E result \in {"pending", "success", "failed"} :
          identity' = [identity EXCEPT ![d] = result]
    /\ UNCHANGED <<call, row, rule, cut, polled, faults>>

-----------------------------------------------------------------------------
Step(c) ==
    \/ VerifyIdentity(c) \/ CreateReceiptRule(c) \/ CreateRuleFails(c)
    \/ InsertRow(c) \/ InsertFails(c) \/ RollbackRule(c) \/ RollbackFails(c)
    \/ PollSES(c) \/ UpdateStatus(c)
    \/ DeleteReceiptRule(c) \/ DeleteRuleFails(c) \/ DeleteIdentity(c) \/ DeleteRow(c)
    \/ Crash(c)

Next ==
    \/ \E c \in Calls, d \in Domains : Register(c, d)
    \/ \E c, x \in Calls, op \in {"verify", "delete"} : ReadRow(c, op, x)
    \/ \E c \in Calls : Step(c) \/ RemovePod(c)
    \/ \E d \in Domains : CheckDNS(d)

Spec == Init /\ [][Next]_vars

-----------------------------------------------------------------------------
TypeOK ==
    /\ call \in [Calls -> Call]
    /\ row \in [Calls -> Statuses]
    /\ identity \in [Domains -> {"none", "pending", "success", "failed"}]
    /\ rule \in [Names -> Calls \cup {None}]
    /\ cut \in SUBSET (Calls \X (Calls \cup {None}))
    /\ polled \in SUBSET Calls
    /\ faults \in SUBSET Names

\* A domain whose Register did not fail has its receipt rule, so its mail arrives, until
\* a Delete of it has begun: no other Register, of the same domain or of one that gets
\* the same rule name, harms it, whether it succeeds, is undone or dies, and no Verify.
\* The exception are Deletes that hit the rule of another row because they overlap or
\* repeat, and rollbacks of a Register whose row was there, and deleted, all the same.
\* (A Register answered with an error after its commit took effect leaves a row without a
\* rule, see InsertFails: nobody was told that it is registered.)
Cut(x)   == \E y \in Calls \cup {None} : <<x, y>> \in cut
Stale(r) == \E p \in cut : /\ p[2] \notin {p[1], None} /\ NameOf(p[2]) = r
RegisteredIsRouted == \A x \in Calls : row[x] \in Live /\ call[x].pc = "ended" =>
    rule[NameOf(x)] = x \/ Cut(x) \/ Stale(NameOf(x))

\* No rule is left without its row when all calls have ended, unless one of them
\* died or SES failed: a rule nobody owns routes mail for ever, and blocks its
\* domain from being registered again.
NoOrphanRule == (\A c \in Calls : ~ Active(c)) =>
    \A r \in Names \ faults : rule[r] # None => row[rule[r]] \in Live

\* A row is active only if SES confirmed the domain to a Verify of this very
\* row: a late answer for a row that was deleted does not activate the domain
\* for the next organization that registers it.
ActiveWasPolled == \A x \in Calls : row[x] = "active" => x \in polled
=============================================================================
