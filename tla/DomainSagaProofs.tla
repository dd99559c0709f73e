-------------------------- MODULE DomainSagaProofs --------------------------
(***************************************************************************)
(* Proofs about custom domains, for any calls, domains and rule names: a   *)
(* registered domain keeps its receipt rule, no rule is left behind unless *)
(* something failed, and no row is active that SES has not confirmed.      *)
(***************************************************************************)
EXTENDS DomainSaga, TLAPS

\* A call that has begun has a domain, and a Verify or Delete a row of it.
CallShape == \A c \in Calls :
    /\ call[c].pc = "idle" => call[c] = Idle
    /\ call[c].pc # "idle" => call[c].op # "none" /\ call[c].domain \in Domains
    /\ call[c].op \in {"verify", "delete"} =>
          /\ call[c].row \in Calls
          /\ row[call[c].row] # "none"
          /\ call[call[c].row].domain = call[c].domain

\* What the Register calls have made: rows when they have ended or are to be undone, rules
\* before.
RowShape == \A x \in Calls : row[x] # "none" =>
    call[x].op = "register" /\ call[x].pc \in {"rollback", "undone", "ended"}
RuleShape == \A r \in Names : rule[r] # None =>
    /\ call[rule[r]].op = "register"
    /\ call[rule[r]].pc \in {"ruled", "rollback", "undone", "ended"}
    /\ NameOf(rule[r]) = r
CutShape == \A p \in cut :
    /\ row[p[1]] # "none"
    /\ p[2] # None => call[p[2]].pc # "idle"

\* A Register that has its rule has it still, or a Delete took it.
Ruled(c) == call[c].op = "register" /\ call[c].pc \in {"ruled", "rollback"}
RuledHolds == \A c \in Calls :
    Ruled(c) => rule[NameOf(c)] = c \/ Cut(c) \/ Stale(NameOf(c))

\* A rule nobody failed to remove has its row, or is about to get it or to go.
OwnedRule == \A r \in Names \ faults :
    rule[r] # None => row[rule[r]] \in Live \/ Ruled(rule[r])

\* A Delete that is past the rule has removed it.
DeleteIsPast == \A c \in Calls :
    (call[c].op = "delete" /\ call[c].pc \in {"unruled", "unidentified"} /\ NameOf(c) \notin faults)
        => rule[NameOf(c)] # call[c].row

\* The status a Verify is about to write is what SES told it.
PolledStatus == \A c \in Calls : At(c, "verify", "polled") =>
    /\ call[c].status \in Live
    /\ call[c].status = "active" => call[c].row \in polled

IInv == /\ TypeOK /\ CallShape /\ RowShape /\ RuleShape /\ CutShape /\ RuledHolds /\ OwnedRule
        /\ DeleteIsPast /\ PolledStatus /\ RegisteredIsRouted /\ ActiveWasPolled

\* In the initial state no call has begun and SES knows no domain.
LEMMA InitIInv == Init => IInv
<1> SUFFICES ASSUME Init PROVE IInv
  OBVIOUS
<1> USE DEF Init, Idle
<1>1. TypeOK
  BY DEF TypeOK, Call, Ops, Pcs, Statuses
<1>2. CallShape /\ RowShape /\ RuleShape /\ CutShape
  BY DEF CallShape, RowShape, RuleShape, CutShape
<1>3. RuledHolds /\ OwnedRule /\ DeleteIsPast /\ PolledStatus
  BY DEF RuledHolds, Ruled, OwnedRule, DeleteIsPast, PolledStatus, At
<1>4. RegisteredIsRouted /\ ActiveWasPolled
  BY DEF RegisteredIsRouted, ActiveWasPolled, Live
<1> QED
  BY <1>1, <1>2, <1>3, <1>4 DEF IInv

\* A step of a call that is under way: the call keeps its operation, domain and
\* row, a row comes into being only by its own Register, and a removed rule is
\* recorded.
Moves(c, r) ==
    /\ Active(c)
    /\ r \in Call /\ call' = [call EXCEPT ![c] = r]
    /\ r.pc # "idle" /\ r.op = call[c].op /\ r.domain = call[c].domain /\ r.row = call[c].row
    /\ \A x \in Calls : row'[x] # row[x] =>
          /\ row'[x] # "none"
          /\ row[x] = "none" => x = c /\ r.op = "register" /\ r.pc \in {"rollback", "ended"}
    /\ call[c].pc = "rollback" => r.pc \in {"undone", "ended"}
    /\ \/ UNCHANGED cut
       \/ \E y \in Calls : row[y] # "none" /\ cut' = cut \cup {<<y, rule[NameOf(c)]>>}
    /\ faults \subseteq faults'

\* Names of rules are fixed for every call that has begun, and what Moves records
\* keeps the shape of calls and rows.
LEMMA MovesShape ==
  ASSUME IInv, NEW c \in Calls, NEW r, Moves(c, r), TypeOK'
  PROVE  /\ CallShape' /\ RowShape' /\ CutShape'
         /\ \A o \in Calls : call[o].pc # "idle" => /\ call'[o].op = call[o].op
                                                    /\ NameOf(o)' = NameOf(o)
                                                    /\ NameOf(o) \in Names
                                                    /\ call'[o].row = call[o].row
         /\ \A o \in Calls : o # c => call'[o] = call[o]
         /\ call'[c] = r
         /\ \A n \in Names : Stale(n) => Stale(n)'
         /\ \A o \in Calls : Cut(o) => Cut(o)'
<1> USE DEF IInv, Moves, Active
<1>1. \A o \in Calls : o # c => call'[o] = call[o]
  BY DEF TypeOK
<1>2. call'[c] = r
  BY DEF TypeOK
<1>3. \A o \in Calls : call[o].pc # "idle" =>
        /\ call'[o].op = call[o].op /\ call'[o].domain = call[o].domain
        /\ call'[o].row = call[o].row /\ call'[o].pc # "idle"
        /\ call[o].domain \in Domains
  BY <1>1, <1>2 DEF CallShape
<1>4. CallShape'
  <2> SUFFICES ASSUME NEW o \in Calls
               PROVE  /\ call'[o].pc = "idle" => call'[o] = Idle
                      /\ call'[o].pc # "idle" => call'[o].op # "none" /\ call'[o].domain \in Domains
                      /\ call'[o].op \in {"verify", "delete"} =>
                            /\ call'[o].row \in Calls
                            /\ row'[call'[o].row] # "none"
                            /\ call'[call'[o].row].domain = call'[o].domain
    BY DEF CallShape
  <2>1. CASE call[o].pc = "idle"
    BY <1>1, <2>1 DEF CallShape, Idle
  <2>2. CASE call[o].pc # "idle"
    <3>1. call'[o].op \in {"verify", "delete"} =>
             /\ call[o].row \in Calls /\ row'[call[o].row] # "none"
             /\ call[call[o].row].pc # "idle"
             /\ call[call[o].row].domain = call[o].domain
      BY <1>3, <2>2 DEF CallShape, RowShape, At
    <3> QED
      BY <1>3, <2>2, <3>1 DEF CallShape
  <2> QED
    BY <2>1, <2>2
<1>5. RowShape'
  BY <1>1, <1>2 DEF RowShape
<1>6. \A o \in Calls : call[o].pc # "idle" => NameOf(o)' = NameOf(o) /\ NameOf(o) \in Names
  BY <1>3 DEF NameOf, Names
<1>7. rule[NameOf(c)] # None => rule[NameOf(c)] \in Calls /\ call[rule[NameOf(c)]].pc # "idle"
  BY <1>6 DEF RuleShape, TypeOK
<1>8. CutShape'
  <2> SUFFICES ASSUME NEW p \in cut'
               PROVE  row'[p[1]] # "none" /\ (p[2] # None => call'[p[2]].pc # "idle")
    BY DEF CutShape
  <2>1. p[1] \in Calls /\ row[p[1]] # "none"
    BY DEF CutShape, TypeOK
  <2>2. ASSUME p[2] # None PROVE p[2] \in Calls /\ call[p[2]].pc # "idle"
    BY <1>7, <2>2 DEF CutShape, TypeOK
  <2> QED
    BY <1>3, <2>1, <2>2
<1>9. ASSUME NEW n \in Names, Stale(n) PROVE Stale(n)'
  <2>1. PICK p \in cut : p[2] \notin {p[1], None} /\ NameOf(p[2]) = n
    BY <1>9 DEF Stale
  <2>2. p \in cut' /\ p[2] \in Calls /\ call[p[2]].pc # "idle"
    BY <2>1 DEF CutShape, TypeOK
  <2> QED
    BY <2>1, <2>2, <1>6 DEF Stale
<1>10. \A o \in Calls : Cut(o) => Cut(o)'
  BY DEF Cut
<1> QED
  BY <1>1, <1>2, <1>3, <1>4, <1>5, <1>6, <1>8, <1>9, <1>10

\* A step that touches neither rows nor rules, and leaves a rule behind only if it
\* says so in faults, keeps the invariant.
LEMMA MoveOn ==
  ASSUME IInv, NEW c \in Calls, NEW r, Moves(c, r), TypeOK', UNCHANGED <<row, rule, cut>>,
         polled \subseteq polled',
         Ruled(c)' => Ruled(c),
         Ruled(c) => Ruled(c)' \/ (r.pc \in {"undone", "ended"} /\ NameOf(c) \in faults'),
         r.op = "delete" /\ r.pc \in {"unruled", "unidentified"} =>
            call[c].pc \in {"unruled", "unidentified"} \/ NameOf(c) \in faults',
         r.op = "verify" /\ r.pc = "polled" =>
            r.status \in Live /\ (r.status = "active" => r.row \in polled')
  PROVE  IInv'
<1> USE MovesShape DEF IInv
<1>0. Active(c) /\ faults \subseteq faults'
  BY DEF Moves
<1>1. RuleShape'
  <2> SUFFICES ASSUME NEW n \in Names, rule[n] # None
               PROVE  /\ call'[rule[n]].op = "register"
                      /\ call'[rule[n]].pc \in {"ruled", "rollback", "undone", "ended"}
                      /\ NameOf(rule[n])' = n
    BY DEF RuleShape
  <2>1. rule[n] \in Calls /\ call[rule[n]].pc # "idle"
    BY DEF RuleShape, TypeOK
  <2> QED
    BY <1>0, <2>1 DEF RuleShape, Ruled, Active
<1>2. RuledHolds'
  BY <1>0 DEF RuledHolds, Ruled, Active
<1>3. OwnedRule'
  BY <1>0 DEF OwnedRule, Ruled, TypeOK, RuleShape
<1>4. DeleteIsPast'
  BY <1>0 DEF DeleteIsPast, Active
<1>5. PolledStatus'
  BY DEF PolledStatus, At
<1>6. \A x \in Calls : row[x] \in Live => call[x].pc = "ended" \/ Ruled(x) \/ x # c
  BY <1>0 DEF RowShape, Live, Ruled, Active
<1>7. RegisteredIsRouted'
  <2> SUFFICES ASSUME NEW x \in Calls, row[x] \in Live, call'[x].pc = "ended"
               PROVE  (rule[NameOf(x)] = x \/ Cut(x) \/ Stale(NameOf(x)))'
    BY DEF RegisteredIsRouted
  <2>1. call[x].pc # "idle" /\ NameOf(x)' = NameOf(x) /\ NameOf(x) \in Names
    BY DEF RowShape, Live
  <2>2. call[x].pc = "ended" \/ Ruled(x)
    BY <1>6
  <2>3. rule[NameOf(x)] = x \/ Cut(x) \/ Stale(NameOf(x))
    BY <2>2 DEF RegisteredIsRouted, RuledHolds
  <2> QED
    BY <2>1, <2>3
<1>8. ActiveWasPolled'
  BY DEF ActiveWasPolled
<1> QED
  BY <1>1, <1>2, <1>3, <1>4, <1>5, <1>7, <1>8

\* Goto moves a call on and keeps what is in it.
LEMMA GotoCall ==
  ASSUME IInv, NEW c \in Calls, NEW pc \in Pcs, Goto(c, pc)
  PROVE  LET r == [call[c] EXCEPT !.pc = pc] IN
         /\ call' = [call EXCEPT ![c] = r] /\ call' \in [Calls -> Call]
         /\ r \in Call /\ r.pc = pc /\ r.op = call[c].op /\ r.domain = call[c].domain
         /\ r.row = call[c].row /\ r.status = call[c].status
  BY DEF IInv, TypeOK, Goto, Call

\* A Register or a Delete gets or loses a rule, no row changes: the invariant is
\* kept if the rule was free, or was the call's own, or is on record as removed.
LEMMA RuleStep ==
  ASSUME IInv, NEW c \in Calls, NEW r, Moves(c, r), TypeOK', UNCHANGED <<row, polled>>,
         NEW x \in {c, None}, rule' = [rule EXCEPT ![NameOf(c)] = x],
         x = c => /\ rule[NameOf(c)] = None /\ call[c].op = "register"
                  /\ call[c].pc = "identified" /\ UNCHANGED cut
                  /\ Ruled(c)' \/ (r.pc = "ended" /\ NameOf(c) \in faults'),
         x = None =>
            /\ \/ At(c, "register", "rollback") /\ r.pc = "undone"
               \/ At(c, "delete", "read") /\ r.pc = "unruled"
            /\ \/ Ruled(c) /\ row[c] = "none" /\ UNCHANGED cut
               \/ \E y \in Calls : cut' = cut \cup {<<y, rule[NameOf(c)]>>}
  PROVE  IInv'
<1> USE DEF IInv
<1>a. PICK n : n = NameOf(c)
  OBVIOUS
<1>0. Active(c) /\ faults \subseteq faults' /\ c # None
  BY DomainAssumption DEF Moves
<1>1. /\ CallShape' /\ RowShape' /\ CutShape'
      /\ \A o \in Calls : call[o].pc # "idle" => /\ call'[o].op = call[o].op
                                                 /\ NameOf(o)' = NameOf(o)
                                                 /\ NameOf(o) \in Names
                                                 /\ call'[o].row = call[o].row
      /\ \A o \in Calls : o # c => call'[o] = call[o]
      /\ call'[c] = r
      /\ \A m \in Names : Stale(m) => Stale(m)'
      /\ \A o \in Calls : Cut(o) => Cut(o)'
  BY MovesShape
<1>2. n \in Names /\ NameOf(c)' = n /\ rule'[n] = x /\ \A m \in Names \ {n} : rule'[m] = rule[m]
  BY <1>0, <1>1, <1>a DEF TypeOK, Active
<1>3. \A m \in Names : rule[m] # None => /\ rule[m] \in Calls /\ call[rule[m]].pc # "idle"
                                          /\ NameOf(rule[m]) = m
  BY DEF RuleShape, TypeOK
<1>4. \A o \in Calls : row[o] # "none" =>
         /\ call[o].op = "register" /\ call[o].pc \in {"rollback", "undone", "ended"}
         /\ x = c => o # c
  BY <1>0 DEF RowShape
<1>5. x = c => NameOf(c)' = n /\ r.op = "register"
               /\ r.pc \in {"ruled", "rollback", "undone", "ended"}
  BY <1>0, <1>1, <1>2 DEF Ruled, Active
\* The rule that goes is the call's own, or its loss is on record.
<1>6. ASSUME x = None, NEW o \in Calls, rule[n] = o, o # c, call[o].pc # "idle"
      PROVE  Stale(n)' \/ Cut(o)'
  <2>1. NameOf(o) = n /\ NameOf(o)' = n
    BY <1>1, <1>2, <1>3, <1>6, DomainAssumption
  <2>2. CASE Ruled(c) /\ row[c] = "none"
    <3>1. ~ Cut(c)
      BY <2>2 DEF Cut, CutShape
    <3>2. rule[n] = c \/ Stale(n)
      BY <2>2, <3>1, <1>a DEF RuledHolds
    <3> QED
      BY <1>1, <1>2, <1>6, <3>2
  <2>3. ASSUME NEW y \in Calls, cut' = cut \cup {<<y, rule[NameOf(c)]>>}
        PROVE  Stale(n)' \/ Cut(o)'
    <3>1. <<y, o>> \in cut'
      BY <1>6, <2>3, <1>a
    <3>2. CASE y = o
      BY <3>1, <3>2 DEF Cut
    <3>3. CASE y # o
      <4>1. o \notin {y, None}
        BY <3>3, DomainAssumption
      <4> QED
        BY <3>1, <4>1, <2>1 DEF Stale
    <3> QED
      BY <3>2, <3>3
  <2> QED
    BY <1>6, <2>2, <2>3
<1>7. RuleShape'
  <2> SUFFICES ASSUME NEW m \in Names, rule'[m] # None
               PROVE  (/\ call[rule[m]].op = "register"
                       /\ call[rule[m]].pc \in {"ruled", "rollback", "undone", "ended"}
                       /\ NameOf(rule[m]) = m)'
    BY DEF RuleShape
  <2>1. CASE m = n
    BY <1>1, <1>2, <1>5, <2>1
  <2>2. CASE m # n
    <3>1. rule'[m] = rule[m] /\ rule[m] # c
      BY <1>2, <1>3, <2>2, <1>a
    <3> QED
      BY <1>1, <1>3, <3>1 DEF RuleShape
  <2> QED
    BY <2>1, <2>2
<1>8. RuledHolds'
  <2> SUFFICES ASSUME NEW o \in Calls, Ruled(o)'
               PROVE  (rule[NameOf(o)] = o \/ Cut(o) \/ Stale(NameOf(o)))'
    BY DEF RuledHolds
  <2>1. CASE o = c
    BY <1>0, <1>1, <1>2, <1>5, <2>1, <1>a DEF Ruled, At
  <2>2. CASE o # c
    <3>1. Ruled(o) /\ call[o].pc # "idle" /\ NameOf(o)' = NameOf(o) /\ NameOf(o) \in Names
      BY <1>1, <2>2 DEF Ruled
    <3>2. rule[NameOf(o)] = o \/ Cut(o) \/ Stale(NameOf(o))
      BY <3>1 DEF RuledHolds
    <3>3. CASE NameOf(o) = n /\ rule[n] = o
      <4>1. x = None
        BY <3>3, DomainAssumption, <1>a
      <4> QED
        BY <4>1, <1>6, <3>1, <3>3, <2>2
    <3>4. CASE ~ (NameOf(o) = n /\ rule[n] = o)
      BY <3>1, <3>2, <3>4, <1>1, <1>2
    <3> QED
      BY <3>3, <3>4
  <2> QED
    BY <2>1, <2>2
<1>9. OwnedRule'
  <2> SUFFICES ASSUME NEW m \in Names \ faults', rule'[m] # None
               PROVE  (row[rule[m]] \in Live \/ Ruled(rule[m]))'
    BY DEF OwnedRule
  <2>1. CASE m = n
    BY <1>2, <2>1, <1>a
  <2>2. CASE m # n
    <3>1. rule'[m] = rule[m] /\ rule[m] # c /\ rule[m] \in Calls /\ m \notin faults
      BY <1>0, <1>2, <1>3, <2>2, <1>a
    <3> QED
      BY <1>1, <3>1 DEF OwnedRule, Ruled
  <2> QED
    BY <2>1, <2>2
<1>10. DeleteIsPast'
  <2> SUFFICES ASSUME NEW o \in Calls, call'[o].op = "delete",
                      call'[o].pc \in {"unruled", "unidentified"}, NameOf(o)' \notin faults'
               PROVE  rule'[NameOf(o)'] # call'[o].row
    BY DEF DeleteIsPast
  <2>0. call'[o].row \in Calls /\ row'[call'[o].row] # "none"
    BY <1>1 DEF CallShape
  <2>1. CASE o = c
    <3>1. x = None
      BY <1>1, <1>5, <2>1
    <3> QED
      BY <1>0, <1>1, <1>2, <2>0, <2>1, <3>1, DomainAssumption, <1>a DEF Active
  <2>2. CASE o # c
    <3>1. /\ call'[o] = call[o] /\ call[o].pc # "idle" /\ NameOf(o)' = NameOf(o)
          /\ NameOf(o) \in Names
      BY <1>1, <2>2
    <3>2. rule[NameOf(o)] # call[o].row
      BY <1>0, <3>1 DEF DeleteIsPast
    <3>3. x # call[o].row
      BY <2>0, <3>1, <1>4, DomainAssumption
    <3> QED
      BY <1>2, <3>1, <3>2, <3>3
  <2> QED
    BY <2>1, <2>2
<1>11. PolledStatus'
  BY <1>0, <1>1, <1>5, <1>a DEF PolledStatus, At, Ruled
<1>12. RegisteredIsRouted'
  <2> SUFFICES ASSUME NEW o \in Calls, row[o] \in Live, call'[o].pc = "ended"
               PROVE  (rule[NameOf(o)] = o \/ Cut(o) \/ Stale(NameOf(o)))'
    BY DEF RegisteredIsRouted
  <2>1. row[o] # "none" /\ o # c
    BY <1>1, <1>4 DEF Live
  <2>2. call[o].pc = "ended" /\ NameOf(o)' = NameOf(o) /\ NameOf(o) \in Names
    BY <1>1, <2>1
  <2>3. rule[NameOf(o)] = o \/ Cut(o) \/ Stale(NameOf(o))
    BY <2>2 DEF RegisteredIsRouted
  <2>4. CASE rule[NameOf(o)] = o /\ NameOf(o) = n
    <3>1. x = None
      BY <2>4, DomainAssumption, <1>a
    <3> QED
      BY <3>1, <2>1, <2>2, <2>4, <1>6
  <2> QED
    BY <1>1, <1>2, <2>1, <2>2, <2>3, <2>4
<1>13. ActiveWasPolled'
  BY DEF ActiveWasPolled
<1> QED
  BY <1>1, <1>7, <1>8, <1>9, <1>10, <1>11, <1>12, <1>13

\* A step that writes rows and touches no rule keeps the invariant: a row is made
\* by a Register that has its rule, made active with SES's word, and goes only
\* with its rule or leaves a fault.
LEMMA RowStep ==
  ASSUME IInv, NEW c \in Calls, NEW r, Moves(c, r), TypeOK', UNCHANGED <<rule, cut, polled>>,
         r.pc = "ended" \/ (r.pc = "rollback" /\ Ruled(c)),
         Ruled(c) => row'[c] \in Live,
         \A x \in Calls : row'[x] # row[x] =>
            \/ row'[x] = "pending" /\ x = c /\ Ruled(c)
            \/ row[x] \in Live /\ row'[x] \in Live /\ (row'[x] = "active" => x \in polled)
            \/ row'[x] = "deleted" /\ (NameOf(x) \in faults' \/ rule[NameOf(x)] # x)
  PROVE  IInv'
<1> USE MovesShape DEF IInv
<1>0. Active(c) /\ faults \subseteq faults' /\ "deleted" \notin Live /\ "none" \notin Live
  BY DEF Moves, Live
<1>1. RuleShape'
  <2> SUFFICES ASSUME NEW n \in Names, rule[n] # None
               PROVE  /\ call'[rule[n]].op = "register"
                      /\ call'[rule[n]].pc \in {"ruled", "rollback", "undone", "ended"}
                      /\ NameOf(rule[n])' = n
    BY DEF RuleShape
  <2>1. rule[n] \in Calls /\ call[rule[n]].pc # "idle"
    BY DEF RuleShape, TypeOK
  <2> QED
    BY <2>1 DEF RuleShape
<1>2. RuledHolds'
  BY DEF RuledHolds, Ruled
<1>3. OwnedRule'
  <2> SUFFICES ASSUME NEW n \in Names \ faults', rule[n] # None
               PROVE  row'[rule[n]] \in Live \/ Ruled(rule[n])'
    BY DEF OwnedRule
  <2>1. rule[n] \in Calls /\ NameOf(rule[n]) = n /\ n \notin faults
    BY <1>0 DEF RuleShape, TypeOK
  <2>2. row[rule[n]] \in Live \/ Ruled(rule[n])
    BY <2>1 DEF OwnedRule
  <2>3. row[rule[n]] \in Live => row'[rule[n]] \in Live
    BY <2>1, <1>0 DEF Live
  <2> QED
    BY <2>1, <2>2, <2>3 DEF Ruled
<1>4. DeleteIsPast'
  BY <1>0 DEF DeleteIsPast
<1>5. PolledStatus'
  BY DEF PolledStatus, At
<1>6. RegisteredIsRouted'
  <2> SUFFICES ASSUME NEW o \in Calls, row'[o] \in Live, call'[o].pc = "ended"
               PROVE  (rule[NameOf(o)] = o \/ Cut(o) \/ Stale(NameOf(o)))'
    BY DEF RegisteredIsRouted
  <2>1. row[o] \in Live \/ (o = c /\ Ruled(c))
    BY <1>0
  <2>2. call[o].pc # "idle" /\ NameOf(o)' = NameOf(o) /\ NameOf(o) \in Names
    BY <1>0, <2>1 DEF RowShape, Ruled
  <2>3. (row[o] \in Live /\ call[o].pc = "ended") \/ Ruled(o)
    BY <1>0, <2>1 DEF RowShape, Ruled, Active
  <2>4. rule[NameOf(o)] = o \/ Cut(o) \/ Stale(NameOf(o))
    BY <2>3 DEF RegisteredIsRouted, RuledHolds
  <2> QED
    BY <2>2, <2>4
<1>7. ActiveWasPolled'
  BY DEF ActiveWasPolled
<1> QED
  BY <1>1, <1>2, <1>3, <1>4, <1>5, <1>6, <1>7

\* A call that begins has touched nothing yet.
LEMMA BeginStep ==
  ASSUME IInv, NEW c \in Calls, call[c] = Idle, NEW r \in Call,
         call' = [call EXCEPT ![c] = r], r.pc \in {"begun", "read"}, r.domain \in Domains,
         \/ r.op = "register"
         \/ /\ r.op \in {"verify", "delete"}
            /\ r.row \in Calls /\ row[r.row] # "none" /\ call[r.row].domain = r.domain,
         UNCHANGED <<row, identity, rule, cut, polled, faults>>
  PROVE  IInv'
<1> USE DEF IInv
<1>1. TypeOK'
  BY DEF TypeOK
<1>2. \A o \in Calls : o # c => call'[o] = call[o]
  BY DEF TypeOK
<1>3. call'[c] = r /\ call[c].pc = "idle"
  BY DEF TypeOK, Idle
<1>4. \A o \in Calls : call[o].pc # "idle" => call'[o] = call[o] /\ NameOf(o)' = NameOf(o)
  BY <1>2, <1>3 DEF NameOf
<1>5. \A x \in Calls : row[x] # "none" => call[x].pc # "idle"
  BY DEF RowShape, At
<1>6. CallShape' /\ RowShape'
  BY <1>2, <1>3, <1>5 DEF CallShape, RowShape, At, Idle
<1>7. \A n \in Names : rule[n] # None => rule[n] \in Calls /\ call[rule[n]].pc # "idle"
  BY DEF RuleShape, TypeOK
<1>8. RuleShape' /\ CutShape'
  BY <1>4, <1>7 DEF RuleShape, CutShape, TypeOK
<1>9. /\ \A n \in Names : Stale(n) => Stale(n)'
      /\ \A o \in Calls : Cut(o) => Cut(o)'
  <2>1. cut' = cut
    OBVIOUS
  <2>2. \A o \in Calls : Cut(o) => Cut(o)'
    BY <2>1 DEF Cut
  <2>3. ASSUME NEW n \in Names, Stale(n) PROVE Stale(n)'
    <3>1. PICK p \in cut : p[2] \notin {p[1], None} /\ NameOf(p[2]) = n
      BY <2>3 DEF Stale
    <3>2. p[2] \in Calls /\ call[p[2]].pc # "idle"
      BY <3>1 DEF CutShape, TypeOK
    <3>3. NameOf(p[2])' = n
      BY <1>4, <3>1, <3>2 DEF NameOf
    <3> QED
      BY <2>1, <3>1, <3>3 DEF Stale
  <2> QED
    BY <2>2, <2>3
<1>10. \A o \in Calls : call[o].pc # "idle" => NameOf(o) \in Names
  BY DEF CallShape, NameOf, Names
<1>11. RuledHolds' /\ OwnedRule'
  BY <1>2, <1>3, <1>4, <1>7, <1>9, <1>10 DEF RuledHolds, OwnedRule, Ruled
<1>12. DeleteIsPast' /\ PolledStatus'
  BY <1>2, <1>3, <1>4 DEF DeleteIsPast, PolledStatus, At
<1>13. RegisteredIsRouted' /\ ActiveWasPolled'
  <2>1. ActiveWasPolled'
    BY DEF ActiveWasPolled
  <2>2. ASSUME NEW x \in Calls, row[x] \in Live, call'[x].pc = "ended"
        PROVE  (rule[NameOf(x)] = x \/ Cut(x) \/ Stale(NameOf(x)))'
    <3>1. call[x].pc # "idle"
      BY <1>5, <2>2 DEF Live
    <3> QED
      BY <1>4, <1>9, <1>10, <2>2, <3>1 DEF RegisteredIsRouted
  <2> QED
    BY <2>1, <2>2 DEF RegisteredIsRouted
<1> QED
  BY <1>1, <1>6, <1>8, <1>11, <1>12, <1>13

\* Every step of a call keeps the invariant.
LEMMA CallStep == ASSUME IInv, NEW c \in Calls, Step(c) PROVE IInv'
<1> USE DEF At, Goto
<1>0. call[c] \in Call /\ call \in [Calls -> Call] /\ TypeOK
  BY DEF IInv, TypeOK
<1>a. Active(c) => /\ call[c].domain \in Domains /\ NameOf(c) \in Names
                   /\ call[c].op \in {"verify", "delete"} => call[c].row \in Calls
  BY DEF IInv, CallShape, Active, NameOf, Names
<1>1. CASE VerifyIdentity(c)
  <2> USE <1>1 DEF VerifyIdentity
  <2> DEFINE r == [call[c] EXCEPT !.pc = "identified"]
  <2>1. Active(c) /\ Goto(c, "identified") /\ "identified" \in Pcs
    BY DEF Active, Pcs
  <2>2. TypeOK'
    BY <1>0, <1>a, <2>1, GotoCall DEF TypeOK
  <2>3. Moves(c, r) /\ r.pc = "identified" /\ r.op = call[c].op
    BY ZenonT(40), <2>1, GotoCall DEF Moves
  <2> QED
    BY <1>0, <2>2, <2>3, MoveOn, MovesShape DEF Ruled
<1>2. CASE InsertFails(c)
  <2> USE <1>2 DEF InsertFails
  <2> DEFINE r == [call[c] EXCEPT !.pc = "rollback"]
  <2>1. Active(c) /\ Goto(c, "rollback") /\ "rollback" \in Pcs /\ Ruled(c)
    BY DEF Active, Pcs, Ruled
  <2>2. TypeOK'
    BY <1>0, <1>a, <2>1, GotoCall DEF TypeOK, Statuses, Live
  <2>3. /\ r \in Call /\ r.pc = "rollback" /\ r.op = "register" /\ r.domain = call[c].domain
        /\ r.row = call[c].row /\ call' = [call EXCEPT ![c] = r]
    BY <2>1, GotoCall
  <2> HIDE DEF r
  <2>4. CASE UNCHANGED row
    <3>1. Moves(c, r)
      BY <2>1, <2>3, <2>4 DEF Moves
    <3>2. Ruled(c)'
      BY <2>2, <2>3, <3>1, MovesShape DEF Ruled
    <3> QED
      BY <2>1, <2>2, <2>3, <2>4, <3>1, <3>2, MoveOn
  <2>5. CASE row' = [row EXCEPT ![c] = "pending"]
    <3>1. row'[c] = "pending" /\ \A x \in Calls \ {c} : row'[x] = row[x]
      BY <1>0, <2>5 DEF TypeOK
    <3>2. Moves(c, r)
      BY <2>1, <2>3, <3>1 DEF Moves
    <3> QED
      BY <2>1, <2>2, <2>3, <3>1, <3>2, RowStep DEF Live
  <2> QED
    BY <2>4, <2>5
<1>3. CASE RollbackFails(c)
  <2> USE <1>3 DEF RollbackFails
  <2> DEFINE r == [call[c] EXCEPT !.pc = "undone"]
  <2>1. Active(c) /\ Goto(c, "undone") /\ "undone" \in Pcs
    BY DEF Active, Pcs
  <2>2. TypeOK'
    BY <1>0, <1>a, <2>1, GotoCall DEF TypeOK
  <2>3. Moves(c, r) /\ r.pc = "undone" /\ r.op = call[c].op
    BY ZenonT(40), <2>1, GotoCall DEF Moves
  <2> QED
    BY <1>0, <2>2, <2>3, MoveOn, MovesShape DEF Ruled
<1>4. CASE DeleteRuleFails(c)
  <2> USE <1>4 DEF DeleteRuleFails
  <2> DEFINE r == [call[c] EXCEPT !.pc = "unruled"]
  <2>1. Active(c) /\ Goto(c, "unruled") /\ "unruled" \in Pcs
    BY DEF Active, Pcs
  <2>2. TypeOK'
    BY <1>0, <1>a, <2>1, GotoCall DEF TypeOK
  <2>3. Moves(c, r) /\ r.pc = "unruled" /\ r.op = call[c].op
    BY ZenonT(40), <2>1, GotoCall DEF Moves
  <2> QED
    BY <1>0, <2>2, <2>3, MoveOn, MovesShape DEF Ruled
<1>5. CASE DeleteIdentity(c)
  <2> USE <1>5 DEF DeleteIdentity
  <2> DEFINE r == [call[c] EXCEPT !.pc = "unidentified"]
  <2>1. Active(c) /\ Goto(c, "unidentified") /\ "unidentified" \in Pcs
    BY DEF Active, Pcs
  <2>2. TypeOK'
    BY <1>0, <1>a, <2>1, GotoCall DEF TypeOK
  <2>3. Moves(c, r) /\ r.pc = "unidentified" /\ r.op = call[c].op
    BY ZenonT(40), <2>1, GotoCall DEF Moves
  <2> QED
    BY <1>0, <2>2, <2>3, MoveOn, MovesShape DEF Ruled
<1>6. CASE Crash(c)
  <2> USE <1>6 DEF Crash
  <2> DEFINE r == [call[c] EXCEPT !.pc = "ended"]
  <2>1. Active(c) /\ Goto(c, "ended") /\ "ended" \in Pcs
    BY DEF Pcs
  <2>2. TypeOK'
    BY <1>0, <1>a, <2>1, GotoCall DEF TypeOK
  <2>3. Moves(c, r) /\ r.pc = "ended" /\ r.op = call[c].op
    BY <2>1, GotoCall DEF Moves
  <2> QED
    BY <1>0, <2>2, <2>3, MoveOn, MovesShape DEF Ruled
<1>7. CASE PollSES(c)
  <2> USE <1>7 DEF PollSES
  <2>1. PICK now \in {"pending", "success", "failed"} : now = identity[call[c].domain]
    BY <1>0, <1>a DEF TypeOK, Active
  <2>2. PICK s \in Live : s = StatusFor(now) /\ (s = "active" => now = "success")
    BY <2>1 DEF StatusFor, Live
  <2>3. PICK pc \in {"ended", "polled"} : pc = IF s = call[c].status THEN "ended" ELSE "polled"
    OBVIOUS
  <2> DEFINE r == [call[c] EXCEPT !.status = s, !.pc = pc]
  <2>4. r \in Call /\ r.pc = pc /\ r.op = "verify" /\ r.domain = call[c].domain
        /\ r.row = call[c].row /\ r.status = s
    BY <1>0, <2>2 DEF Call, Pcs, Statuses
  <2>5. call' = [call EXCEPT ![c] = r] /\ UNCHANGED <<row, identity, rule, cut, faults>>
        /\ Active(c) /\ (s = "active" => call[c].row \in polled') /\ polled \subseteq polled'
        /\ call[c].op = "verify"
    BY <1>0, <2>1, <2>2, <2>3 DEF Active
  <2>6. polled' \in SUBSET Calls
    BY <1>0, <1>a, <2>5 DEF TypeOK
  <2> HIDE DEF r
  <2>7. TypeOK'
    BY ZenonT(40), <1>0, <2>4, <2>5, <2>6 DEF TypeOK
  <2>8. Moves(c, r)
    BY <2>4, <2>5 DEF Moves
  <2>9. ~ Ruled(c) /\ ~ Ruled(c)'
    BY <2>4, <2>5, <2>7, <2>8, MovesShape DEF Ruled
  <2> QED
    BY <2>2, <2>4, <2>5, <2>7, <2>8, <2>9, MoveOn
<1>8. CASE CreateReceiptRule(c)
  <2> USE <1>8 DEF CreateReceiptRule
  <2> DEFINE r == [call[c] EXCEPT !.pc = "ruled"]
  <2>1. Active(c) /\ Goto(c, "ruled") /\ "ruled" \in Pcs
    BY DEF Active, Pcs
  <2>2. TypeOK'
    BY <1>0, <1>a, <2>1, GotoCall DEF TypeOK
  <2>3. Moves(c, r) /\ r.pc = "ruled" /\ r.op = call[c].op
    BY ZenonT(40), <2>1, GotoCall DEF Moves
  <2>4. call'[c] = r
    BY <2>2, <2>3, MovesShape
  <2> HIDE DEF r
  <2> QED
    BY <2>1, <2>2, <2>3, <2>4, RuleStep, DomainAssumption DEF Ruled
<1>9. CASE RollbackRule(c)
  <2> USE <1>9 DEF RollbackRule
  <2> DEFINE r == [call[c] EXCEPT !.pc = "undone"]
  <2>1. Active(c) /\ Goto(c, "undone") /\ "undone" \in Pcs /\ Ruled(c)
    BY DEF Active, Pcs, Ruled
  <2>2. TypeOK'
    <3>1. <<c, rule[NameOf(c)]>> \in Calls \X (Calls \cup {None})
      BY <1>0, <1>a, <2>1 DEF TypeOK
    <3>2. cut' \in SUBSET (Calls \X (Calls \cup {None}))
      BY <1>0, <3>1 DEF TypeOK
    <3>3. rule' \in [Names -> Calls \cup {None}] /\ call' \in [Calls -> Call]
      BY <1>0, <1>a, <2>1, GotoCall DEF TypeOK
    <3> QED
      BY <1>0, <3>2, <3>3 DEF TypeOK
  <2>3. /\ r \in Call /\ r.pc = "undone" /\ r.op = "register" /\ r.domain = call[c].domain
        /\ r.row = call[c].row /\ call' = [call EXCEPT ![c] = r]
    BY <2>1, GotoCall
  <2>4. \/ row[c] = "none" /\ UNCHANGED cut
        \/ row[c] # "none" /\ cut' = cut \cup {<<c, rule[NameOf(c)]>>}
    OBVIOUS
  <2> HIDE DEF r
  <2>5. Moves(c, r)
    BY <2>1, <2>3, <2>4 DEF Moves
  <2>6. \/ Ruled(c) /\ row[c] = "none" /\ UNCHANGED cut
        \/ \E y \in Calls : cut' = cut \cup {<<y, rule[NameOf(c)]>>}
    BY <2>1, <2>4
  <2> QED
    BY <2>2, <2>3, <2>5, <2>6, RuleStep, DomainAssumption
<1>10. CASE DeleteReceiptRule(c)
  <2> USE <1>10 DEF DeleteReceiptRule
  <2> DEFINE r == [call[c] EXCEPT !.pc = "unruled"]
  <2>1. Active(c) /\ Goto(c, "unruled") /\ "unruled" \in Pcs
    BY DEF Active, Pcs
  <2>2. TypeOK'
    <3>1. <<call[c].row, rule[NameOf(c)]>> \in Calls \X (Calls \cup {None})
      BY <1>0, <1>a, <2>1 DEF TypeOK
    <3>2. cut' \in SUBSET (Calls \X (Calls \cup {None}))
      BY <1>0, <3>1 DEF TypeOK
    <3>3. rule' \in [Names -> Calls \cup {None}] /\ call' \in [Calls -> Call]
      BY <1>0, <1>a, <2>1, GotoCall DEF TypeOK
    <3> QED
      BY <1>0, <3>2, <3>3 DEF TypeOK
  <2>3. /\ r \in Call /\ r.pc = "unruled" /\ r.op = "delete" /\ r.domain = call[c].domain
        /\ r.row = call[c].row /\ call' = [call EXCEPT ![c] = r]
    BY <2>1, GotoCall
  <2>4. \E y \in Calls : row[y] # "none" /\ cut' = cut \cup {<<y, rule[NameOf(c)]>>}
    BY <1>a, <2>1 DEF IInv, CallShape
  <2> HIDE DEF r
  <2>5. Moves(c, r)
    BY <2>1, <2>3, <2>4 DEF Moves
  <2> QED
    BY <2>2, <2>3, <2>4, <2>5, RuleStep, DomainAssumption
<1>11. CASE CreateRuleFails(c)
  <2> USE <1>11 DEF CreateRuleFails
  <2> DEFINE r == [call[c] EXCEPT !.pc = "ended"]
  <2>1. Active(c) /\ Goto(c, "ended") /\ "ended" \in Pcs
    BY DEF Active, Pcs
  <2>2. TypeOK'
    <3>1. rule' \in [Names -> Calls \cup {None}] /\ faults' \in SUBSET Names
      BY <1>0, <1>a, <2>1 DEF TypeOK
    <3> QED
      BY <1>0, <2>1, <3>1, GotoCall DEF TypeOK
  <2>3. Moves(c, r) /\ r.pc = "ended" /\ r.op = call[c].op
    BY ZenonT(40), <2>1, GotoCall DEF Moves
  <2>4. call'[c] = r
    BY <2>2, <2>3, MovesShape
  <2> HIDE DEF r
  <2>5. CASE UNCHANGED <<rule, faults>>
    BY <2>1, <2>2, <2>3, <2>4, <2>5, MoveOn DEF Ruled
  <2>6. CASE ~ UNCHANGED <<rule, faults>>
    BY <2>1, <2>2, <2>3, <2>4, <2>6, RuleStep, DomainAssumption DEF Ruled
  <2> QED
    BY <2>5, <2>6
<1>12. CASE InsertRow(c)
  <2> USE <1>12 DEF InsertRow
  <2> DEFINE r == [call[c] EXCEPT !.pc = "ended"]
  <2>1. Active(c) /\ Goto(c, "ended") /\ "ended" \in Pcs
    BY DEF Active, Pcs
  <2>2. TypeOK'
    BY <1>0, <1>a, <2>1, GotoCall DEF TypeOK, Statuses, Live
  <2>3. row'[c] = "pending" /\ \A x \in Calls \ {c} : row'[x] = row[x]
    BY <1>0 DEF TypeOK
  <2>4. Ruled(c)
    BY DEF Ruled
  <2>5. Moves(c, r) /\ r.pc = "ended"
    BY <1>0, <2>1, <2>2, <2>3, GotoCall DEF Moves, TypeOK
  <2> HIDE DEF r
  <2> QED
    BY <2>1, <2>2, <2>3, <2>4, <2>5, RowStep DEF Ruled, Live
<1>13. CASE UpdateStatus(c)
  <2> USE <1>13 DEF UpdateStatus
  <2> DEFINE r == [call[c] EXCEPT !.pc = "ended"]
  <2>1. Active(c) /\ Goto(c, "ended") /\ "ended" \in Pcs
    BY DEF Active, Pcs
  <2>2. TypeOK'
    BY <1>0, <1>a, <2>1, GotoCall DEF TypeOK, Statuses, Call
  <2>3. /\ call[c].row \in Calls /\ \A x \in Calls \ {call[c].row} : row'[x] = row[x]
        /\ row'[call[c].row] \in {call[c].status, row[call[c].row]}
        /\ row[call[c].row] \notin Live => row'[call[c].row] = row[call[c].row]
        /\ "none" \notin Live
    BY <1>0, <1>a, <2>1 DEF TypeOK, Live
  <2>4. call[c].status \in Live /\ (call[c].status = "active" => call[c].row \in polled)
    BY DEF IInv, PolledStatus
  <2>5. Moves(c, r) /\ r.pc = "ended"
    <3>1. \A x \in Calls : row'[x] # row[x] => row'[x] # "none" /\ row[x] # "none"
      BY <2>3, <2>4
    <3> QED
      BY ZenonT(40), <2>1, <3>1, GotoCall DEF Moves
  <2> HIDE DEF r
  <2> QED
    BY <2>1, <2>2, <2>3, <2>4, <2>5, RowStep DEF Ruled, Live
<1>14. CASE DeleteRow(c)
  <2> USE <1>14 DEF DeleteRow
  <2> DEFINE r == [call[c] EXCEPT !.pc = "ended"]
  <2>1. Active(c) /\ Goto(c, "ended") /\ "ended" \in Pcs
    BY DEF Active, Pcs
  <2>2. TypeOK'
    BY <1>0, <1>a, <2>1, GotoCall DEF TypeOK, Statuses
  <2>3. /\ call[c].row \in Calls /\ \A x \in Calls \ {call[c].row} : row'[x] = row[x]
        /\ row'[call[c].row] = "deleted"
        /\ row[call[c].row] # "none"
    BY <1>0, <1>a, <2>1 DEF TypeOK, IInv, CallShape
  <2>4. NameOf(call[c].row) = NameOf(c) /\ (NameOf(c) \in faults \/ rule[NameOf(c)] # call[c].row)
    BY DEF IInv, CallShape, DeleteIsPast, NameOf
  <2>5. Moves(c, r) /\ r.pc = "ended"
    BY <1>0, <2>1, <2>2, <2>3, GotoCall DEF Moves, TypeOK
  <2> HIDE DEF r
  <2> QED
    BY <2>1, <2>2, <2>3, <2>4, <2>5, RowStep DEF Ruled, Live
<1> QED
  BY <1>1, <1>2, <1>3, <1>4, <1>5, <1>6, <1>7, <1>8, <1>9, <1>10, <1>11, <1>12, <1>13, <1>14 DEF Step

\* Every step keeps the invariant.
LEMMA StepIInv == IInv /\ [Next]_vars => IInv'
<1> SUFFICES ASSUME IInv, [Next]_vars PROVE IInv'
  OBVIOUS
<1>1. ASSUME NEW c \in Calls, NEW d \in Domains, Register(c, d) PROVE IInv'
  <2> DEFINE r == [call[c] EXCEPT !.op = "register", !.pc = "begun", !.domain = d]
  <2>1. call[c] \in Call /\ call' = [call EXCEPT ![c] = r]
        /\ UNCHANGED <<row, identity, rule, cut, polled, faults>>
    BY <1>1 DEF Register, IInv, TypeOK
  <2>2. r \in Call /\ r.op = "register" /\ r.pc = "begun" /\ r.domain = d
    BY <2>1 DEF Call, Ops, Pcs
  <2> HIDE DEF r
  <2> QED
    BY <1>1, <2>1, <2>2, BeginStep DEF Register
<1>2. ASSUME NEW c \in Calls, NEW x \in Calls, NEW op \in {"verify", "delete"}, ReadRow(c, op, x)
      PROVE  IInv'
  <2> DEFINE r == [op |-> op, pc |-> "read", domain |-> call[x].domain, row |-> x, status |-> row[x]]
  <2>1. call[x].domain \in Domains /\ row[x] \in Statuses /\ row[x] # "none"
    BY <1>2 DEF ReadRow, IInv, TypeOK, RowShape, CallShape, Live, At
  <2>2. /\ r \in Call /\ r.op = op /\ r.pc = "read" /\ r.domain = call[x].domain /\ r.row = x
        /\ call' = [call EXCEPT ![c] = r]
    BY <1>2, <2>1 DEF ReadRow, Call, Ops, Pcs
  <2> HIDE DEF r
  <2> QED
    BY <1>2, <2>1, <2>2, BeginStep DEF ReadRow
<1>3. ASSUME NEW c \in Calls, Step(c) PROVE IInv'
  BY <1>3, CallStep
<1>4. ASSUME NEW x \in Calls, RemovePod(x) PROVE IInv'
  <2> USE <1>4 DEF RemovePod, IInv
  <2>1. NameOf(x) \in Names /\ "none" \notin Live /\ "deleted" \notin Live
    BY DEF RowShape, CallShape, At, NameOf, Names, Live
  <2>2. TypeOK'
    BY <2>1 DEF TypeOK, Statuses
  <2>3. row'[x] = "deleted" /\ \A y \in Calls \ {x} : row'[y] = row[y]
    BY DEF TypeOK
  <2>4. CallShape' /\ RowShape' /\ RuleShape' /\ CutShape'
    BY <2>1, <2>3 DEF CallShape, RowShape, RuleShape, CutShape, NameOf, At
  <2>5. \A n \in Names : Stale(n) <=> Stale(n)'
    BY DEF Stale, NameOf
  <2>6. RuledHolds' /\ RegisteredIsRouted'
    BY <2>1, <2>3 DEF RuledHolds, RegisteredIsRouted, Ruled, Stale, Cut, NameOf
  <2>7. OwnedRule'
    BY <2>1, <2>3 DEF OwnedRule, Ruled, RuleShape, NameOf, TypeOK
  <2>8. DeleteIsPast' /\ PolledStatus' /\ ActiveWasPolled'
    BY <2>3 DEF DeleteIsPast, PolledStatus, ActiveWasPolled, At, NameOf
  <2> QED
    BY <2>2, <2>4, <2>6, <2>7, <2>8
<1>5. ASSUME NEW d \in Domains, CheckDNS(d) PROVE IInv'
  <2> USE <1>5 DEF CheckDNS, IInv
  <2>1. TypeOK'
    BY DEF TypeOK
  <2>2. CallShape' /\ RowShape' /\ RuleShape' /\ CutShape' /\ PolledStatus' /\ ActiveWasPolled'
    BY DEF CallShape, RowShape, RuleShape, CutShape, PolledStatus, ActiveWasPolled, NameOf, At
  <2>3. RuledHolds' /\ OwnedRule' /\ DeleteIsPast' /\ RegisteredIsRouted'
    BY DEF RuledHolds, OwnedRule, DeleteIsPast, RegisteredIsRouted, Ruled, Stale, Cut, NameOf
  <2> QED
    BY <2>1, <2>2, <2>3
<1>6. CASE UNCHANGED vars
  <2> USE <1>6 DEF vars, IInv
  <2>1. TypeOK'
    BY DEF TypeOK
  <2>2. CallShape' /\ RowShape' /\ RuleShape' /\ CutShape' /\ PolledStatus' /\ ActiveWasPolled'
    BY DEF CallShape, RowShape, RuleShape, CutShape, PolledStatus, ActiveWasPolled, NameOf, At
  <2>3. RuledHolds' /\ OwnedRule' /\ DeleteIsPast' /\ RegisteredIsRouted'
    BY DEF RuledHolds, OwnedRule, DeleteIsPast, RegisteredIsRouted, Ruled, Stale, Cut, NameOf
  <2> QED
    BY <2>1, <2>2, <2>3
<1> QED
  BY <1>1, <1>2, <1>3, <1>4, <1>5, <1>6 DEF Next

\* The inductive invariant holds in every reachable state.
THEOREM DomainInvariant == Spec => []IInv
<1> QED
  BY InitIInv, StepIInv, PTL DEF Spec

\* Type correctness of the three places a domain lives in, for any calls, domains
\* and rule names; a Verify writes only statuses the column admits.
THEOREM DomainTypeOK == Spec => []TypeOK
<1>1. IInv => TypeOK
  BY DEF IInv
<1> QED
  BY <1>1, DomainInvariant, PTL

\* A domain whose Register did not fail has its receipt rule until a Delete of it has
\* begun, however many calls for it, or for domains with the same rule name, overlap, fail,
\* are undone or die; only a Delete that hits the rule of another row, or the rollback of
\* a Register whose row was deleted before it, takes it away.
THEOREM DomainRegisteredIsRouted == Spec => []RegisteredIsRouted
<1>1. IInv => RegisteredIsRouted
  BY DEF IInv
<1> QED
  BY <1>1, DomainInvariant, PTL

\* When all calls have ended, a rule without its row is the trace of a crash, an
\* SES error or a cascade: the rollback of Register and the order of Delete leave
\* no other.
THEOREM DomainNoOrphanRule == Spec => []NoOrphanRule
<1>1. IInv => NoOrphanRule
  <2> SUFFICES ASSUME IInv, \A c \in Calls : ~ Active(c),
                      NEW r \in Names \ faults, rule[r] # None
               PROVE  row[rule[r]] \in Live
    BY DEF NoOrphanRule
  <2>1. rule[r] \in Calls
    BY DEF IInv, TypeOK
  <2>2. ~ Ruled(rule[r])
    BY <2>1 DEF Ruled, Active
  <2> QED
    BY <2>2 DEF IInv, OwnedRule
<1> QED
  BY <1>1, DomainInvariant, PTL

\* A row is active only if SES confirmed the domain to a Verify of this row: an
\* answer that comes late updates the row it was asked for or none.
THEOREM DomainActiveWasPolled == Spec => []ActiveWasPolled
<1>1. IInv => ActiveWasPolled
  BY DEF IInv
<1> QED
  BY <1>1, DomainInvariant, PTL
=============================================================================
