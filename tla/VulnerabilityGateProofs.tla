----------------------- MODULE VulnerabilityGateProofs -----------------------
(***************************************************************************)
(* Theorems about VulnerabilityGate, for any clients, consents, records,   *)
(* proposals and people, and whoever may accept or record.                 *)
(*                                                                         *)
(* A request keeps what it has read while others change the tables: each   *)
(* invariant says, beside what the tables hold, that what a request still  *)
(* carries is true enough of them when it is written.                      *)
(***************************************************************************)
EXTENDS VulnerabilityGate, TLAPS

-----------------------------------------------------------------------------
(* Type correctness. *)

\* A request that decides knows its proposal and its decision.
Deciding ==
    \A a \in People :
        task[a].pc \in {"decide", "decide-write"} => /\ task[a].proposal \in Proposals
                                                     /\ task[a].decision \in Decisions

TypeInv == TypeOK /\ Deciding

LEMMA IdleTyped ==
    /\ Idle \in Task
    /\ Idle.pc = "idle" /\ Idle.proposal = Nil
BY DEF Idle, Task, NoRecord, Record

LEMMA TaskTypes ==
    ASSUME NEW t \in Task
    PROVE  /\ t.proposal \in Proposals \cup {Nil} /\ t.client \in Clients \cup {Nil}
           /\ t.decision \in Decisions \cup {"none"}
           /\ t.consent \in Consents \cup {Nil} /\ t.record \in Records \cup {Nil}
           /\ t.special \in BOOLEAN /\ t.writes \in BOOLEAN /\ t.before \in Record
BY DEF Task

\* The requests are well typed after one of them has changed, if its new state is.
LEMMA TaskStep ==
    ASSUME TypeInv, NEW a \in People, NEW t \in Task, task' = [task EXCEPT ![a] = t],
           t.pc \in {"decide", "decide-write"} => t.proposal \in Proposals
                                                  /\ t.decision \in Decisions
    PROVE  task' \in [People -> Task] /\ Deciding'
BY DEF TypeInv, TypeOK, Deciding

LEMMA DoneTyped ==
    ASSUME TypeInv, NEW a \in People, Done(a)
    PROVE  task' \in [People -> Task] /\ Deciding'
BY IdleTyped, TaskStep DEF Done

\* Who is asked for a consent gets one of the client's, or needs none.
LEMMA MayInsertTyped ==
    ASSUME NEW a, NEW t, NEW k \in MayInsert(a, t)
    PROVE  k \in Consents \cup {Nil}
BY DEF MayInsert, Permitting

LEMMA TypeInvStep ==
    ASSUME TypeInv, [Next]_vars
    PROVE  TypeInv'
<1> USE GateAssumption DEF TypeInv
<1>1. CASE UNCHANGED vars
  BY <1>1 DEF TypeOK, Deciding, vars
<1>2. ASSUME NEW k \in Consents, EndConsent(k) \/ \E c \in Clients : CaptureConsent(k, c)
      PROVE  TypeInv'
  <2>1. consents' \in [Consents -> Consent]
    <3>1. \A l \in Consents : consents[l] \in Consent
      BY DEF TypeOK
    <3>2. CASE EndConsent(k)
      <4>1. [consents[k] EXCEPT !.ended = TRUE] \in Consent
        BY <3>1 DEF Consent
      <4>2. consents' = [consents EXCEPT ![k] = [consents[k] EXCEPT !.ended = TRUE]]
        BY <3>2 DEF EndConsent, TypeOK
      <4> QED BY <4>1, <4>2 DEF TypeOK
    <3>3. ASSUME NEW c \in Clients, CaptureConsent(k, c)
          PROVE  consents' \in [Consents -> Consent]
      BY <3>3 DEF CaptureConsent, TypeOK, Consent
    <3> QED BY <1>2, <3>2, <3>3
  <2> QED BY <1>2, <2>1 DEF EndConsent, CaptureConsent, TypeOK, Deciding
<1>3. ASSUME NEW a \in People, NEW c \in Clients, NEW special \in BOOLEAN,
             NEW named \in Consents \cup {Nil}, RecordDirectly(a, c, special, named)
      PROVE  TypeInv'
  <2> DEFINE t == [Idle EXCEPT !.client = c, !.special = special, !.consent = named]
  <2>1. PICK k \in MayInsert(a, t) :
           task' = [task EXCEPT ![a] = [t EXCEPT !.pc = "insert", !.consent = k]]
    BY <1>3 DEF RecordDirectly
  <2>2. [t EXCEPT !.pc = "insert", !.consent = k] \in Task
    BY MayInsertTyped DEF Idle, Task, NoRecord, Record
  <2>3. [t EXCEPT !.pc = "insert", !.consent = k].pc = "insert"
    BY DEF Idle
  <2> HIDE DEF t
  <2>4. task' \in [People -> Task] /\ Deciding'
    BY <2>1, <2>2, <2>3, TaskStep
  <2> QED BY <1>3, <2>4 DEF RecordDirectly, TypeOK
<1>4. ASSUME NEW a \in People, NEW c \in Clients, NoIndicators(a, c)
      PROVE  TypeInv'
  <2> DEFINE t == [Idle EXCEPT !.pc = "insert-none", !.client = c]
  <2>1. t \in Task /\ t.pc = "insert-none"
    BY DEF Idle, Task, NoRecord, Record
  <2>2. task' = [task EXCEPT ![a] = t]
    BY <1>4 DEF NoIndicators
  <2> HIDE DEF t
  <2>3. task' \in [People -> Task] /\ Deciding'
    BY <2>1, <2>2, TaskStep
  <2> QED BY <1>4, <2>3 DEF NoIndicators, TypeOK
<1>5. ASSUME NEW a \in People, NEW r \in Records, Insert(a, r)
      PROVE  TypeInv'
  <2>1. task[a] \in Task
    BY DEF TypeOK
  <2>2. records' \in [Records -> Record]
    BY <1>5, <2>1, TaskTypes DEF Insert, TypeOK, Record, Closed
  <2>3. task' \in [People -> Task] /\ Deciding'
    <3>1. CASE task[a].proposal = Nil
      BY <1>5, <3>1, DoneTyped DEF Insert
    <3>2. CASE task[a].proposal # Nil
      <4> DEFINE t == [task[a] EXCEPT !.pc = "link", !.record = r]
      <4>1. t \in Task /\ t.pc = "link"
        BY <2>1 DEF Task
      <4>2. task' = [task EXCEPT ![a] = t]
        BY <1>5, <3>2 DEF Insert, TypeOK
      <4> HIDE DEF t
      <4> QED BY <4>1, <4>2, TaskStep
    <3> QED BY <3>1, <3>2
  <2> QED BY <1>5, <2>2, <2>3 DEF Insert, TypeOK
<1>6. ASSUME NEW a \in People, NEW r \in Records, InsertNone(a, r)
      PROVE  TypeInv'
  <2>1. records' \in [Records -> Record]
    <3> DEFINE row == [NoRecord EXCEPT !.status = "active", !.client = task[a].client,
                                       !.none = TRUE]
    <3>1. task[a].client \in Clients \cup {Nil}
      BY TaskTypes DEF TypeOK
    <3>2. row \in Record
      BY <3>1 DEF Record, NoRecord
    <3>3. records' = [records EXCEPT ![r] = row] \/ records' = records
      BY <1>6 DEF InsertNone
    <3> QED BY <3>2, <3>3 DEF TypeOK
  <2>2. task' \in [People -> Task] /\ Deciding'
    BY <1>6, DoneTyped DEF InsertNone
  <2> QED BY <1>6, <2>1, <2>2 DEF InsertNone, TypeOK
<1>7. ASSUME NEW a \in People, NEW r \in Records, NEW named \in Consents \cup {Nil},
             Amend(a, r, named)
      PROVE  TypeInv'
  <2> DEFINE before == records[r]
             k == IF named = Nil THEN before.consent ELSE named
             t == [Idle EXCEPT !.pc = "amend", !.record = r, !.consent = k, !.before = before]
  <2>1. before \in Record /\ k \in Consents \cup {Nil}
    BY DEF TypeOK, Record
  <2>2. t \in Task /\ t.pc = "amend"
    BY <2>1 DEF Idle, Task
  <2>3. task' = [task EXCEPT ![a] = t]
    BY <1>7 DEF Amend
  <2> HIDE DEF t
  <2>4. task' \in [People -> Task] /\ Deciding'
    BY <2>2, <2>3, TaskStep
  <2> QED BY <1>7, <2>4 DEF Amend, TypeOK
<1>8. ASSUME NEW a \in People, AmendWrite(a)
      PROVE  TypeInv'
  <2>1. records' \in [Records -> Record]
    <3>1. task[a] \in Task /\ task[a].consent \in Consents \cup {Nil}
      BY TaskTypes DEF TypeOK
    <3>2. \A x \in Records : /\ records[x] \in Record
                              /\ [records[x] EXCEPT !.consent = task[a].consent] \in Record
      BY <3>1 DEF TypeOK, Record
    <3>3. records' = [x \in Records |->
                        IF x = task[a].record
                        THEN [records[x] EXCEPT !.consent = task[a].consent] ELSE records[x]]
      BY <1>8 DEF AmendWrite, TypeOK
    <3> QED BY <3>2, <3>3
  <2>2. task' \in [People -> Task] /\ Deciding'
    BY <1>8, DoneTyped DEF AmendWrite
  <2> QED BY <1>8, <2>1, <2>2 DEF AmendWrite, TypeOK
<1>9. ASSUME NEW a \in People, NEW r \in Records, NEW status \in {"resolved", "withdrawn"},
             Close(a, r, status)
      PROVE  TypeInv'
  <2>1. records' \in [Records -> Record]
    BY <1>9 DEF Close, TypeOK, Record, Closed
  <2> QED BY <1>9, <2>1 DEF Close, TypeOK, Deciding
<1>10. ASSUME NEW a \in People, NEW p \in Proposals, NEW decision \in Decisions,
              NEW named \in Consents \cup {Nil}, Apply(a, p, decision, named)
       PROVE  TypeInv'
  <2>1. task' \in [People -> Task] /\ Deciding'
    <3>1. PICK signal \in Applied(p, decision) :
             LET writes == HasWriter(signal, decision)
             IN  IF writes /\ ~CheckedFirst(signal, Client[p], named)
                 THEN Done(a)
                 ELSE task' = [task EXCEPT ![a] = [Idle EXCEPT
                                  !.pc = "decide", !.proposal = p, !.decision = decision,
                                  !.client = Client[p], !.writes = writes, !.consent = named,
                                  !.special = (signal.driver = "health")]]
      BY <1>10 DEF Apply
    <3> DEFINE t == [Idle EXCEPT
                        !.pc = "decide", !.proposal = p, !.decision = decision,
                        !.client = Client[p], !.writes = HasWriter(signal, decision),
                        !.consent = named, !.special = (signal.driver = "health")]
    <3>2. CASE Done(a)
      BY <3>2, DoneTyped
    <3>3. CASE task' = [task EXCEPT ![a] = t]
      <4>1. HasWriter(signal, decision) \in BOOLEAN /\ (signal.driver = "health") \in BOOLEAN
        BY DEF HasWriter
      <4>2. t \in Task /\ t.pc = "decide" /\ t.proposal = p /\ t.decision = decision
        BY <4>1 DEF Idle, Task, NoRecord, Record
      <4> HIDE DEF t
      <4> QED BY <3>3, <4>2, TaskStep
    <3> QED BY <3>1, <3>2, <3>3
  <2> QED BY <1>10, <2>1 DEF Apply, TypeOK
<1>11. ASSUME NEW a \in People, Decide(a)
       PROVE  TypeInv'
  <2>1. task' \in [People -> Task] /\ Deciding'
    <3>1. CASE Done(a)
      BY <3>1, DoneTyped
    <3>2. CASE task' = [task EXCEPT ![a].pc = "decide-write"]
      BY <1>11, <3>2 DEF Decide, TypeOK, Deciding, Task
    <3> QED BY <1>11, <3>1, <3>2 DEF Decide
  <2> QED BY <1>11, <2>1 DEF Decide, TypeOK
<1>12. ASSUME NEW a \in People, DecideWrite(a)
       PROVE  TypeInv'
  <2>1. task[a] \in Task /\ task[a].decision \in Decisions
    BY <1>12 DEF DecideWrite, TypeOK, Deciding
  <2>2. proposals' \in [Proposals -> Proposal]
    BY <1>12, <2>1 DEF DecideWrite, TypeOK, Proposal
  <2>3. task' \in [People -> Task] /\ Deciding'
    <3> DEFINE t == [task[a] EXCEPT !.pc = "record", !.decided = TRUE]
    <3>1. t \in Task /\ t.pc = "record"
      BY <2>1 DEF Task
    <3>2. Done(a) \/ task' = [task EXCEPT ![a] = t]
      BY <1>12 DEF DecideWrite, Done
    <3> HIDE DEF t
    <3> QED BY <3>1, <3>2, TaskStep, DoneTyped
  <2> QED BY <1>12, <2>2, <2>3 DEF DecideWrite, TypeOK
<1>13. ASSUME NEW a \in People, RecordProposed(a)
       PROVE  TypeInv'
  <2>1. task' \in [People -> Task] /\ Deciding'
    <3>1. CASE Done(a)
      BY <3>1, DoneTyped
    <3>2. ASSUME NEW k \in MayInsert(a, task[a]),
                 task' = [task EXCEPT ![a].pc = "insert", ![a].consent = k]
          PROVE  task' \in [People -> Task] /\ Deciding'
      <4> DEFINE t == [task[a] EXCEPT !.pc = "insert", !.consent = k]
      <4>1. k \in Consents \cup {Nil}
        BY MayInsertTyped
      <4>2. task[a] \in Task
        BY DEF TypeOK
      <4>3. t \in Task /\ t.pc = "insert"
        BY <4>1, <4>2 DEF Task
      <4>4. task' = [task EXCEPT ![a] = t]
        BY <3>2 DEF TypeOK
      <4> HIDE DEF t
      <4> QED BY <4>3, <4>4, TaskStep
    <3> QED BY <1>13, <3>1, <3>2 DEF RecordProposed
  <2> QED BY <1>13, <2>1 DEF RecordProposed, TypeOK
<1>14. ASSUME NEW a \in People, Link(a)
       PROVE  TypeInv'
  <2>1. proposals' \in [Proposals -> Proposal]
    <3>1. task[a].record \in Records \cup {Nil}
      BY TaskTypes DEF TypeOK
    <3> QED BY ZenonT(60), <1>14, <3>1 DEF Link, TypeOK, Proposal
  <2> QED BY <1>14, <2>1, DoneTyped DEF Link, TypeOK
<1>15. ASSUME NEW a \in People, Die(a)
       PROVE  TypeInv'
  <2>1. mishaps' \in 0 .. MaxMishaps
    BY <1>15 DEF Die, TypeOK
  <2> QED BY <1>15, <2>1, DoneTyped DEF Die, TypeOK
<1> QED BY <1>1, <1>2, <1>3, <1>4, <1>5, <1>6, <1>7, <1>8, <1>9, <1>10, <1>11, <1>12, <1>13,
           <1>14, <1>15 DEF Next, Direct, Proposed

\* Every reachable state of the register, the consents, the proposals and the
\* requests under way is well typed.
THEOREM TypeCorrect == Spec => []TypeOK
<1>1. Init => TypeInv
  BY GateAssumption, IdleTyped DEF Init, TypeInv, TypeOK, Deciding, NoConsent, Consent, NoRecord,
     Record, Proposal
<1>2. TypeInv /\ [Next]_vars => TypeInv'
  BY TypeInvStep
<1>3. TypeInv => TypeOK
  BY DEF TypeInv
<1> QED BY <1>1, <1>2, <1>3, PTL DEF Spec

-----------------------------------------------------------------------------
(***************************************************************************)
(* Consent.  A request that is about to insert or to write back an         *)
(* amendment has read the consent before; that a consent once granted to a *)
(* client remains that client's, though it may end, is why what it has     *)
(* read still holds.                                                       *)
(***************************************************************************)
Granted(k, c) == k \in Consents /\ consents[k].client = c /\ consents[k].permits

InsertsUnderConsent(t) == t.pc = "insert" /\ t.special => Granted(t.consent, t.client)

AmendsUnderConsent(t) ==
    t.pc = "amend" =>
        /\ t.record \in Records
        /\ records[t.record].status # "absent"
        /\ records[t.record].special = t.before.special
        /\ records[t.record].client = t.before.client
        /\ t.before.special => Granted(t.consent, t.before.client)

ConsentInv ==
    /\ TypeInv
    /\ SpecialHasConsent
    /\ \A a \in People : InsertsUnderConsent(task[a]) /\ AmendsUnderConsent(task[a])

\* Consents end, they do not change hands or lose their condition.
LEMMA GrantsStay ==
    ASSUME TypeInv, [Next]_vars, NEW k \in Consents, consents[k].permits
    PROVE  consents'[k].client = consents[k].client /\ consents'[k].permits
<1> USE DEF TypeInv
<1>1. CASE UNCHANGED consents
  BY <1>1
<1>2. ASSUME NEW l \in Consents, EndConsent(l)
      PROVE  consents'[k].client = consents[k].client /\ consents'[k].permits
  BY <1>2 DEF EndConsent, TypeOK, Consent
<1>3. ASSUME NEW l \in Consents, NEW c \in Clients, CaptureConsent(l, c)
      PROVE  consents'[k].client = consents[k].client /\ consents'[k].permits
  <2>1. l # k
    BY <1>3 DEF CaptureConsent, NoConsent
  <2> QED BY <1>3, <2>1 DEF CaptureConsent, TypeOK
<1>4. ASSUME NEW a \in People, Direct(a)
      PROVE  UNCHANGED consents
  BY <1>4 DEF Direct, RecordDirectly, NoIndicators, Insert, InsertNone, Amend, AmendWrite, Close
<1>5. ASSUME NEW a \in People, Proposed(a) \/ Die(a)
      PROVE  UNCHANGED consents
  BY <1>5 DEF Proposed, Apply, Decide, DecideWrite, RecordProposed, Link, Die
<1> QED BY <1>1, <1>2, <1>3, <1>4, <1>5 DEF Next, vars

\* A row, once inserted, stays and stays about the same client.
LEMMA RowsStay ==
    ASSUME TypeInv, [Next]_vars, NEW r \in Records, records[r].status # "absent"
    PROVE  /\ records'[r].status # "absent"
           /\ records'[r].special = records[r].special
           /\ records'[r].client = records[r].client
<1> USE DEF TypeInv
<1>0. /\ DOMAIN records = Records
      /\ DOMAIN records[r] = {"status", "client", "none", "special", "consent", "source"}
  BY DEF TypeOK, Record
<1>1. CASE UNCHANGED records
  BY <1>1
<1>2. ASSUME NEW a \in People, NEW x \in Records, Insert(a, x)
      PROVE  /\ records'[r].status # "absent"
             /\ records'[r].special = records[r].special
             /\ records'[r].client = records[r].client
  <2>1. x # r
    BY <1>2 DEF Insert
  <2>2. records'[r] = records[r] \/ records'[r] = [records[r] EXCEPT !.status = "superseded"]
    BY <1>2, <2>1 DEF Insert
  <2> QED BY <1>0, <2>2
<1>3. ASSUME NEW a \in People, NEW x \in Records, InsertNone(a, x)
      PROVE  UNCHANGED records \/ records'[r] = records[r]
  <2>1. x # r
    BY <1>3 DEF InsertNone
  <2> QED BY <1>0, <1>3, <2>1 DEF InsertNone
<1>4. ASSUME NEW a \in People, AmendWrite(a)
      PROVE  /\ records'[r].status # "absent"
             /\ records'[r].special = records[r].special
             /\ records'[r].client = records[r].client
  <2>1. \/ records'[r] = records[r]
        \/ records'[r] = [records[r] EXCEPT !.consent = task[a].consent]
    BY <1>0, <1>4 DEF AmendWrite
  <2> QED BY <1>0, <2>1
<1>5. ASSUME NEW a \in People, NEW x \in Records, NEW status \in {"resolved", "withdrawn"},
             Close(a, x, status)
      PROVE  /\ records'[r].status # "absent"
             /\ records'[r].special = records[r].special
             /\ records'[r].client = records[r].client
  <2>1. records'[r] = records[r] \/ records'[r] = [records[r] EXCEPT !.status = status]
    BY <1>0, <1>5 DEF Close
  <2> QED BY <1>0, <2>1
<1>6. ASSUME NEW a \in People, Direct(a)
      PROVE  \/ UNCHANGED records
             \/ \E x \in Records : Insert(a, x) \/ InsertNone(a, x)
             \/ AmendWrite(a)
             \/ \E x \in Records, status \in {"resolved", "withdrawn"} : Close(a, x, status)
  BY <1>6 DEF Direct, RecordDirectly, NoIndicators, Amend
<1>7. ASSUME NEW a \in People, Proposed(a) \/ Die(a)
      PROVE  UNCHANGED records
  BY <1>7 DEF Proposed, Apply, Decide, DecideWrite, RecordProposed, Link, Die
<1>8. ASSUME NEW k \in Consents, EndConsent(k) \/ \E c \in Clients : CaptureConsent(k, c)
      PROVE  UNCHANGED records
  BY <1>8 DEF EndConsent, CaptureConsent
<1> QED BY <1>1, <1>2, <1>3, <1>4, <1>5, <1>6, <1>7, <1>8 DEF Next, vars

\* What a step leaves the request of a person with: what it was, something that
\* writes no row, or something that has just read the consent it needs.
Outcome(a) ==
    \/ task'[a] = task[a]
    \/ task'[a].pc \notin {"insert", "amend"}
    \/ /\ UNCHANGED consents
       /\ task'[a].pc = "insert"
       /\ task'[a].special => Granted(task'[a].consent, task'[a].client)
    \/ /\ UNCHANGED <<consents, records>>
       /\ task'[a].pc = "amend" /\ task'[a].record \in Records
       /\ task'[a].before = records[task'[a].record] /\ task'[a].before.status # "absent"
       /\ task'[a].before.special => Granted(task'[a].consent, task'[a].before.client)

LEMMA MayInsertGranted ==
    ASSUME NEW a, NEW t, NEW k \in MayInsert(a, t), t.special
    PROVE  Granted(k, t.client)
BY DEF MayInsert, Permitting, Granted

LEMMA DoneOutcome ==
    ASSUME TypeInv, NEW b \in People, Done(b), NEW a \in People
    PROVE  Outcome(a)
BY IdleTyped DEF Done, Outcome, TypeInv, TypeOK

\* Only the request of b changes, and to t.
LEMMA OthersOutcome ==
    ASSUME TypeInv, NEW b \in People, NEW t, task' = [task EXCEPT ![b] = t],
           NEW a \in People
    PROVE  task'[a] = (IF a = b THEN t ELSE task[a])
BY DEF TypeInv, TypeOK

LEMMA TaskOutcome ==
    ASSUME TypeInv, SpecialHasConsent, [Next]_vars, NEW a \in People
    PROVE  Outcome(a)
<1>1. CASE UNCHANGED task
  BY <1>1 DEF Outcome
<1>2. ASSUME NEW k \in Consents, EndConsent(k) \/ \E c \in Clients : CaptureConsent(k, c)
      PROVE  UNCHANGED task
  BY <1>2 DEF EndConsent, CaptureConsent
<1>3. ASSUME NEW b \in People, NEW c \in Clients, NEW special \in BOOLEAN,
             NEW named \in Consents \cup {Nil}, RecordDirectly(b, c, special, named)
      PROVE  Outcome(a)
  <2> DEFINE t == [Idle EXCEPT !.client = c, !.special = special, !.consent = named]
  <2>1. PICK k \in MayInsert(b, t) :
           task' = [task EXCEPT ![b] = [t EXCEPT !.pc = "insert", !.consent = k]]
    BY <1>3 DEF RecordDirectly
  <2> DEFINE u == [t EXCEPT !.pc = "insert", !.consent = k]
  <2>2. /\ u.pc = "insert" /\ u.special = t.special /\ u.client = t.client /\ u.consent = k
    BY DEF Idle
  <2>3. t.special => Granted(k, t.client)
    BY MayInsertGranted
  <2>4. task' = [task EXCEPT ![b] = u]
    BY <2>1
  <2> HIDE DEF t, u
  <2>5. task'[a] = (IF a = b THEN u ELSE task[a])
    BY <2>4, OthersOutcome
  <2>6. UNCHANGED consents
    BY <1>3 DEF RecordDirectly
  <2>7. CASE a = b
    <3>1. task'[a] = u
      BY <2>5, <2>7
    <3>2. task'[a].special => Granted(task'[a].consent, task'[a].client)
      BY <2>2, <2>3, <3>1
    <3> QED BY <2>2, <2>6, <3>1, <3>2 DEF Outcome
  <2>8. CASE a # b
    BY <2>5, <2>8 DEF Outcome
  <2> QED BY <2>7, <2>8
<1>4. ASSUME NEW b \in People, RecordProposed(b)
      PROVE  Outcome(a)
  <2>1. CASE Done(b)
    BY <2>1, DoneOutcome
  <2>2. ASSUME NEW k \in MayInsert(b, task[b]),
               task' = [task EXCEPT ![b].pc = "insert", ![b].consent = k]
        PROVE  Outcome(a)
    <3> DEFINE u == [task[b] EXCEPT !.pc = "insert", !.consent = k]
    <3>1. task[b] \in Task
      BY DEF TypeInv, TypeOK
    <3>2. /\ u.pc = "insert" /\ u.special = task[b].special
          /\ u.client = task[b].client /\ u.consent = k
      BY <3>1 DEF Task
    <3>3. task[b].special => Granted(k, task[b].client)
      BY MayInsertGranted
    <3>4. task' = [task EXCEPT ![b] = u]
      BY <2>2 DEF TypeInv, TypeOK
    <3> HIDE DEF u
    <3>5. task'[a] = (IF a = b THEN u ELSE task[a])
      BY <3>4, OthersOutcome
    <3>6. UNCHANGED consents
      BY <1>4 DEF RecordProposed
    <3>7. CASE a = b
      <4>1. task'[a] = u
        BY <3>5, <3>7
      <4>2. task'[a].special => Granted(task'[a].consent, task'[a].client)
        BY <3>2, <3>3, <4>1
      <4> QED BY <3>2, <3>6, <4>1, <4>2 DEF Outcome
    <3>8. CASE a # b
      BY <3>5, <3>8 DEF Outcome
    <3> QED BY <3>7, <3>8
  <2> QED BY <1>4, <2>1, <2>2 DEF RecordProposed
<1>5. ASSUME NEW b \in People, NEW r \in Records, NEW named \in Consents \cup {Nil},
             Amend(b, r, named)
      PROVE  Outcome(a)
  <2> DEFINE before == records[r]
             k == IF named = Nil THEN before.consent ELSE named
             u == [Idle EXCEPT !.pc = "amend", !.record = r, !.consent = k, !.before = before]
  <2>1. u.pc = "amend" /\ u.record = r /\ u.consent = k /\ u.before = before
    BY DEF Idle
  <2>2. before.special => Granted(k, before.client)
    <3>1. before.special => Permitting(before.client, k) # {}
      BY <1>5 DEF Amend, AmendAllows
    <3>2. before.consent \in Consents \cup {Nil}
      BY DEF TypeInv, TypeOK, Record
    <3>3. before.special => before.consent # Nil
      BY DEF SpecialHasConsent
    <3>4. before.special => k \in Consents /\ k # Nil
      BY <3>2, <3>3, GateAssumption
    <3> QED BY <3>1, <3>4 DEF Granted, Permitting
  <2>3. task' = [task EXCEPT ![b] = u] /\ before.status # "absent"
    BY <1>5 DEF Amend
  <2> HIDE DEF u, k
  <2>4. task'[a] = (IF a = b THEN u ELSE task[a])
    BY ZenonT(60), <2>3, OthersOutcome
  <2>5. UNCHANGED <<consents, records>>
    BY <1>5 DEF Amend
  <2> QED BY <2>1, <2>2, <2>3, <2>4, <2>5 DEF Outcome
<1>6. ASSUME NEW b \in People, NEW c \in Clients, NoIndicators(b, c)
      PROVE  Outcome(a)
  <2> DEFINE u == [Idle EXCEPT !.pc = "insert-none", !.client = c]
  <2>1. u.pc = "insert-none"
    BY DEF Idle
  <2>2. task' = [task EXCEPT ![b] = u]
    BY <1>6 DEF NoIndicators
  <2> HIDE DEF u
  <2> QED BY <2>1, <2>2, OthersOutcome DEF Outcome
<1>7. ASSUME NEW b \in People, NEW r \in Records, Insert(b, r)
      PROVE  Outcome(a)
  <2>1. CASE Done(b)
    BY <2>1, DoneOutcome
  <2>2. CASE task' = [task EXCEPT ![b].pc = "link", ![b].record = r]
    BY <2>2 DEF Outcome, TypeInv, TypeOK, Task
  <2> QED BY <1>7, <2>1, <2>2 DEF Insert
<1>8. ASSUME NEW b \in People, NEW p \in Proposals, NEW decision \in Decisions,
             NEW named \in Consents \cup {Nil}, Apply(b, p, decision, named)
      PROVE  Outcome(a)
  <2>1. CASE Done(b)
    BY <2>1, DoneOutcome
  <2>2. ASSUME NEW writes, NEW special,
               task' = [task EXCEPT ![b] = [Idle EXCEPT
                          !.pc = "decide", !.proposal = p, !.decision = decision,
                          !.client = Client[p], !.writes = writes, !.consent = named,
                          !.special = special]]
        PROVE  Outcome(a)
    <3> DEFINE u == [Idle EXCEPT
                       !.pc = "decide", !.proposal = p, !.decision = decision,
                       !.client = Client[p], !.writes = writes, !.consent = named,
                       !.special = special]
    <3>1. u.pc = "decide"
      BY DEF Idle
    <3> HIDE DEF u
    <3> QED BY <2>2, <3>1, OthersOutcome DEF Outcome, u
  <2> QED BY ZenonT(60), <1>8, <2>1, <2>2 DEF Apply
<1>9. ASSUME NEW b \in People, Decide(b) \/ DecideWrite(b)
      PROVE  Outcome(a)
  <2>1. CASE Done(b)
    BY <2>1, DoneOutcome
  <2>2. CASE task' = [task EXCEPT ![b].pc = "decide-write"]
    BY <2>2 DEF Outcome, TypeInv, TypeOK, Task
  <2>3. CASE task' = [task EXCEPT ![b] = [task[b] EXCEPT !.pc = "record", !.decided = TRUE]]
    BY <2>3 DEF Outcome, TypeInv, TypeOK, Task
  <2> QED BY <1>9, <2>1, <2>2, <2>3 DEF Decide, DecideWrite, Done
<1>10. ASSUME NEW b \in People,
              AmendWrite(b) \/ Link(b) \/ Die(b) \/ \E r \in Records : InsertNone(b, r)
       PROVE  Outcome(a)
  <2>1. Done(b)
    BY <1>10 DEF AmendWrite, Link, Die, InsertNone
  <2> QED BY <2>1, DoneOutcome
<1>11. ASSUME NEW b \in People, NEW r \in Records, NEW status \in {"resolved", "withdrawn"},
              Close(b, r, status)
       PROVE  UNCHANGED task
  BY <1>11 DEF Close
<1>12. UNCHANGED vars => UNCHANGED task
  BY DEF vars
<1> QED BY <1>1, <1>2, <1>3, <1>4, <1>5, <1>6, <1>7, <1>8, <1>9, <1>10, <1>11, <1>12
        DEF Next, Direct, Proposed

\* What a request has read about its consent stays true while others go on.
LEMMA TasksKeepConsent ==
    ASSUME ConsentInv, [Next]_vars, NEW a \in People
    PROVE  InsertsUnderConsent(task[a])' /\ AmendsUnderConsent(task[a])'
<1>1. TypeInv /\ SpecialHasConsent /\ InsertsUnderConsent(task[a]) /\ AmendsUnderConsent(task[a])
  BY DEF ConsentInv
<1>2. Outcome(a)
  BY <1>1, TaskOutcome
<1>3. \A k \in Consents : consents[k].permits =>
         consents'[k].client = consents[k].client /\ consents'[k].permits
  BY <1>1, GrantsStay
<1>4. \A r \in Records : records[r].status # "absent" =>
         /\ records'[r].status # "absent"
         /\ records'[r].special = records[r].special
         /\ records'[r].client = records[r].client
  BY <1>1, RowsStay
<1>5. CASE task'[a] = task[a]
  <2>1. InsertsUnderConsent(task[a])'
    BY <1>1, <1>3, <1>5 DEF InsertsUnderConsent, Granted
  <2>2. AmendsUnderConsent(task[a])'
    BY <1>1, <1>3, <1>4, <1>5 DEF AmendsUnderConsent, Granted
  <2> QED BY <2>1, <2>2
<1>6. CASE task'[a].pc \notin {"insert", "amend"}
  BY <1>6 DEF InsertsUnderConsent, AmendsUnderConsent
<1>7. CASE /\ UNCHANGED consents
           /\ task'[a].pc = "insert"
           /\ task'[a].special => Granted(task'[a].consent, task'[a].client)
  BY <1>7 DEF InsertsUnderConsent, AmendsUnderConsent, Granted
<1>8. CASE /\ UNCHANGED <<consents, records>>
           /\ task'[a].pc = "amend" /\ task'[a].record \in Records
           /\ task'[a].before = records[task'[a].record] /\ task'[a].before.status # "absent"
           /\ task'[a].before.special => Granted(task'[a].consent, task'[a].before.client)
  BY <1>8 DEF InsertsUnderConsent, AmendsUnderConsent, Granted
<1> QED BY <1>2, <1>5, <1>6, <1>7, <1>8 DEF Outcome

\* What a step leaves in a row of health information: what was there, with the
\* consent that was there, or a consent that permits it.
LEMMA RowsKeepConsent ==
    ASSUME ConsentInv, [Next]_vars, NEW r \in Records, records'[r].special
    PROVE  \/ /\ records[r].special
              /\ records'[r].consent = records[r].consent
              /\ records'[r].client = records[r].client
           \/ Granted(records'[r].consent, records'[r].client) /\ UNCHANGED consents
<1> DEFINE Kept == /\ records[r].special
                   /\ records'[r].consent = records[r].consent
                   /\ records'[r].client = records[r].client
           New == Granted(records'[r].consent, records'[r].client) /\ UNCHANGED consents
<1> SUFFICES Kept \/ New
  OBVIOUS
<1>0. /\ DOMAIN records = Records
      /\ DOMAIN records[r] = {"status", "client", "none", "special", "consent", "source"}
      /\ TypeInv
  BY DEF ConsentInv, TypeInv, TypeOK, Record
<1>1. CASE records'[r] = records[r]
  BY <1>1
<1>2. ASSUME NEW a \in People, NEW x \in Records, Insert(a, x)
      PROVE  Kept \/ New
  <2>1. CASE x = r
    <3>1. /\ records'[r].special = task[a].special
          /\ records'[r].consent = task[a].consent
          /\ records'[r].client = task[a].client
      BY <1>2, <2>1 DEF Insert
    <3>2. task[a].special => Granted(task[a].consent, task[a].client)
      BY <1>2 DEF Insert, ConsentInv, InsertsUnderConsent
    <3>3. UNCHANGED consents
      BY <1>2 DEF Insert
    <3> QED BY <3>1, <3>2, <3>3
  <2>2. CASE x # r
    <3>1. records'[r] = records[r] \/ records'[r] = [records[r] EXCEPT !.status = "superseded"]
      BY <1>2, <2>2 DEF Insert
    <3> QED BY <1>0, <3>1
  <2> QED BY <2>1, <2>2
<1>3. ASSUME NEW a \in People, NEW x \in Records, InsertNone(a, x)
      PROVE  Kept \/ New
  <2>1. \/ records'[r] = records[r]
        \/ records'[r] = [NoRecord EXCEPT !.status = "active", !.client = task[a].client,
                                           !.none = TRUE]
    BY <1>0, <1>3 DEF InsertNone
  <2>2. CASE records'[r] # records[r]
    BY <2>1, <2>2 DEF NoRecord
  <2> QED BY <1>1, <2>2
<1>4. ASSUME NEW a \in People, AmendWrite(a)
      PROVE  Kept \/ New
  <2>1. CASE r = task[a].record
    <3>1. records'[r] = [records[r] EXCEPT !.consent = task[a].consent]
      BY <1>0, <1>4, <2>1 DEF AmendWrite
    <3>2. /\ records'[r].special = records[r].special /\ records'[r].consent = task[a].consent
          /\ records'[r].client = records[r].client
      BY <1>0, <3>1
    <3>3. AmendsUnderConsent(task[a]) /\ task[a].pc = "amend" /\ UNCHANGED consents
      BY <1>4 DEF AmendWrite, ConsentInv
    <3>4. Granted(task[a].consent, records[r].client)
      BY <2>1, <3>2, <3>3 DEF AmendsUnderConsent
    <3> QED BY <3>2, <3>3, <3>4
  <2>2. CASE r # task[a].record
    BY <1>0, <1>1, <1>4, <2>2 DEF AmendWrite
  <2> QED BY <2>1, <2>2
<1>5. ASSUME NEW a \in People, NEW x \in Records, NEW status \in {"resolved", "withdrawn"},
             Close(a, x, status)
      PROVE  Kept \/ New
  <2>1. records'[r] = records[r] \/ records'[r] = [records[r] EXCEPT !.status = status]
    BY <1>0, <1>5 DEF Close
  <2> QED BY <1>0, <2>1
<1>6. ASSUME NEW a \in People, Direct(a)
      PROVE  \/ UNCHANGED records
             \/ \E x \in Records : Insert(a, x) \/ InsertNone(a, x)
             \/ AmendWrite(a)
             \/ \E x \in Records, status \in {"resolved", "withdrawn"} : Close(a, x, status)
  BY <1>6 DEF Direct, RecordDirectly, NoIndicators, Amend
<1>7. ASSUME NEW a \in People, Proposed(a) \/ Die(a)
      PROVE  UNCHANGED records
  BY <1>7 DEF Proposed, Apply, Decide, DecideWrite, RecordProposed, Link, Die
<1>8. ASSUME NEW k \in Consents, EndConsent(k) \/ \E c \in Clients : CaptureConsent(k, c)
      PROVE  UNCHANGED records
  BY <1>8 DEF EndConsent, CaptureConsent
<1> HIDE DEF Kept, New
<1>9. UNCHANGED records => Kept \/ New
  BY <1>1
<1> QED BY <1>2, <1>3, <1>4, <1>5, <1>6, <1>7, <1>8, <1>9 DEF Next, vars

\* Health information is only ever held under a consent of that very client
\* that was granted and names an Article 9 condition (requireConsent of
\* vulnerability.ts), however the requests of any number of people interleave.
THEOREM ConsentHolds == Spec => []SpecialHasConsent
<1>1. Init => ConsentInv
  <2> SUFFICES ASSUME Init PROVE ConsentInv
    OBVIOUS
  <2>1. TypeInv
    BY GateAssumption, IdleTyped DEF Init, TypeInv, TypeOK, Deciding, NoConsent, Consent,
       NoRecord, Record, Proposal
  <2>2. SpecialHasConsent
    BY DEF Init, SpecialHasConsent, NoRecord
  <2>3. \A a \in People : task[a].pc = "idle"
    BY IdleTyped DEF Init
  <2> QED BY <2>1, <2>2, <2>3 DEF ConsentInv, InsertsUnderConsent, AmendsUnderConsent
<1>2. ConsentInv /\ [Next]_vars => ConsentInv'
  <2> SUFFICES ASSUME ConsentInv, [Next]_vars PROVE ConsentInv'
    OBVIOUS
  <2>1. TypeInv'
    BY TypeInvStep DEF ConsentInv
  <2>2. SpecialHasConsent'
    <3> SUFFICES ASSUME NEW r \in Records, records'[r].special
                 PROVE  /\ records'[r].consent # Nil
                        /\ consents'[records'[r].consent].client = records'[r].client
                        /\ consents'[records'[r].consent].permits
      BY DEF SpecialHasConsent
    <3> DEFINE k == records[r].consent
    <3>1. CASE /\ records[r].special
               /\ records'[r].consent = k
               /\ records'[r].client = records[r].client
      <4>1. k # Nil /\ consents[k].client = records[r].client /\ consents[k].permits
        BY <3>1 DEF ConsentInv, SpecialHasConsent
      <4>2. k \in Consents /\ TypeInv
        BY <4>1 DEF ConsentInv, TypeInv, TypeOK, Record
      <4>3. consents'[k].client = consents[k].client /\ consents'[k].permits
        BY <4>1, <4>2, GrantsStay
      <4> QED BY <3>1, <4>1, <4>3
    <3>2. CASE Granted(records'[r].consent, records'[r].client) /\ UNCHANGED consents
      BY <3>2, GateAssumption DEF Granted
    <3> QED BY <3>1, <3>2, RowsKeepConsent
  <2>3. \A a \in People : InsertsUnderConsent(task[a])' /\ AmendsUnderConsent(task[a])'
    BY TasksKeepConsent
  <2> QED BY <2>1, <2>2, <2>3 DEF ConsentInv
<1>3. ConsentInv => SpecialHasConsent
  BY DEF ConsentInv
<1> QED BY <1>1, <1>2, <1>3, PTL DEF Spec

-----------------------------------------------------------------------------
(***************************************************************************)
(* Decisions.  That nothing of a model's is in the register without a      *)
(* person's "yes" rests on the requests under way: one that is about to    *)
(* record a proposal has seen it accepted, and an acceptance stands.       *)
(***************************************************************************)
Warranted(t) ==
    /\ t.pc \in {"decide", "decide-write"} /\ t.writes => t.decision # "rejected"
    /\ t.pc = "record" => t.proposal \in Accepted
    /\ t.pc = "insert" /\ t.proposal # Nil => t.proposal \in Accepted

DecisionInv ==
    /\ TypeInv
    /\ NothingUndecided
    /\ \A a \in People : Warranted(task[a])

\* Most steps leave the proposals' status alone; the one that does not is guarded.
LEMMA StatusStays ==
    ASSUME TypeInv, [Next]_vars, NEW p \in Proposals, proposals[p].status # "pending"
    PROVE  proposals'[p].status = proposals[p].status
<1>0. /\ DOMAIN proposals = Proposals
      /\ DOMAIN proposals[p] = {"status", "by", "target"}
  BY DEF TypeInv, TypeOK, Proposal
<1>1. ASSUME NEW a \in People, DecideWrite(a)
      PROVE  proposals'[p].status = proposals[p].status
  BY <1>0, <1>1 DEF DecideWrite, GuardAllows
<1>2. ASSUME NEW a \in People, Link(a)
      PROVE  proposals'[p].status = proposals[p].status
  BY <1>0, <1>2 DEF Link
<1>3. ASSUME NEW a \in People, Direct(a)
      PROVE  UNCHANGED proposals
  BY <1>3 DEF Direct, RecordDirectly, NoIndicators, Insert, InsertNone, Amend, AmendWrite, Close
<1>4. ASSUME NEW a \in People, Proposed(a) \/ Die(a)
      PROVE  UNCHANGED proposals \/ DecideWrite(a) \/ Link(a)
  BY <1>4 DEF Proposed, Apply, Decide, RecordProposed, Die
<1>5. ASSUME NEW k \in Consents, EndConsent(k) \/ \E c \in Clients : CaptureConsent(k, c)
      PROVE  UNCHANGED proposals
  BY <1>5 DEF EndConsent, CaptureConsent
<1> QED BY <1>1, <1>2, <1>3, <1>4, <1>5 DEF Next, vars

\* A decision, once taken, is not turned into another (ai_proposals_guard of
\* 0011), by however many people decide the same proposal at once.
THEOREM DecisionsStand == Spec => DecisionStands
<1>1. Init => TypeInv
  BY GateAssumption, IdleTyped DEF Init, TypeInv, TypeOK, Deciding, NoConsent, Consent, NoRecord,
     Record, Proposal
<1>2. TypeInv /\ [Next]_vars => TypeInv'
  BY TypeInvStep
<1>3. TypeInv /\ [Next]_vars =>
         [\A p \in Proposals : proposals[p].status # "pending" =>
             proposals'[p].status = proposals[p].status]_vars
  BY StatusStays
<1> QED BY <1>1, <1>2, <1>3, PTL DEF Spec, DecisionStands

\* An accepted proposal stays accepted.
LEMMA AcceptedStay ==
    ASSUME TypeInv, [Next]_vars, NEW p, p \in Accepted
    PROVE  p \in Accepted'
BY StatusStays DEF Accepted

\* A request that keeps its place in the proposal's course, or leaves it.
LEMMA StillWarranted ==
    ASSUME TypeInv, [Next]_vars, NEW a \in People, Warranted(task[a]),
           task'[a] = task[a] \/ task'[a].pc \in {"idle", "insert-none", "link", "amend"}
    PROVE  Warranted(task[a])'
BY AcceptedStay DEF Warranted

LEMMA TasksWarranted ==
    ASSUME DecisionInv, [Next]_vars, NEW a \in People
    PROVE  Warranted(task[a])'
<1> USE DEF DecisionInv
<1>0. /\ DOMAIN task = People /\ \A b \in People : task[b] \in Task
      /\ DOMAIN proposals = Proposals
      /\ \A p \in Proposals : DOMAIN proposals[p] = {"status", "by", "target"}
  BY DEF TypeInv, TypeOK, Proposal
<1>1. CASE task'[a] = task[a] \/ task'[a].pc \in {"idle", "insert-none", "link", "amend"}
  BY <1>1, StillWarranted
<1>2. ASSUME NEW b \in People, Done(b)
      PROVE  task'[a] = task[a] \/ task'[a].pc \in {"idle", "insert-none", "link", "amend"}
  BY <1>0, <1>2, IdleTyped DEF Done
<1>3. ASSUME NEW b \in People, NEW c \in Clients, NEW special \in BOOLEAN,
             NEW named \in Consents \cup {Nil}, RecordDirectly(b, c, special, named)
      PROVE  Warranted(task[a])'
  <2>1. task'[a] = task[a] \/ (task'[a].pc = "insert" /\ task'[a].proposal = Nil)
    BY <1>0, <1>3 DEF RecordDirectly, Idle
  <2>2. CASE task'[a].pc = "insert" /\ task'[a].proposal = Nil
    BY <2>2 DEF Warranted
  <2> QED BY <1>1, <2>1, <2>2
<1>4. ASSUME NEW b \in People, NEW p \in Proposals, NEW decision \in Decisions,
             NEW named \in Consents \cup {Nil}, Apply(b, p, decision, named)
      PROVE  Warranted(task[a])'
  <2>1. CASE ~Done(b)
    <3>1. \/ task'[a] = task[a]
          \/ /\ task'[a].pc = "decide" /\ task'[a].decision = decision
             /\ task'[a].writes => decision # "rejected"
      <4>1. PICK signal \in Applied(p, decision) :
               task' = [task EXCEPT ![b] = [Idle EXCEPT
                          !.pc = "decide", !.proposal = p, !.decision = decision,
                          !.client = Client[p], !.writes = HasWriter(signal, decision),
                          !.consent = named, !.special = (signal.driver = "health")]]
        BY <1>4, <2>1 DEF Apply
      <4> DEFINE u == [Idle EXCEPT
                         !.pc = "decide", !.proposal = p, !.decision = decision,
                         !.client = Client[p], !.writes = HasWriter(signal, decision),
                         !.consent = named, !.special = (signal.driver = "health")]
      <4>2. u.pc = "decide" /\ u.decision = decision /\ u.writes = HasWriter(signal, decision)
        BY DEF Idle
      <4>3. task'[a] = task[a] \/ task'[a] = u
        BY <1>0, <4>1
      <4> QED BY <4>2, <4>3 DEF HasWriter
    <3>2. CASE /\ task'[a].pc = "decide" /\ task'[a].decision = decision
               /\ task'[a].writes => decision # "rejected"
      BY <3>2 DEF Warranted
    <3> QED BY <1>1, <3>1, <3>2
  <2> QED BY <1>1, <1>2, <2>1
<1>5. ASSUME NEW b \in People, Decide(b)
      PROVE  Warranted(task[a])'
  <2>1. CASE task' = [task EXCEPT ![b].pc = "decide-write"]
    <3>1. \/ task'[a] = task[a]
          \/ /\ task'[a].pc = "decide-write" /\ task[a].pc = "decide"
             /\ task'[a].decision = task[a].decision /\ task'[a].writes = task[a].writes
      BY <1>0, <1>5, <2>1 DEF Decide, Task
    <3>2. CASE /\ task'[a].pc = "decide-write" /\ task[a].pc = "decide"
               /\ task'[a].decision = task[a].decision /\ task'[a].writes = task[a].writes
      BY <3>2 DEF Warranted
    <3> QED BY <1>1, <3>1, <3>2
  <2> QED BY <1>1, <1>2, <1>5, <2>1 DEF Decide
<1>6. ASSUME NEW b \in People, DecideWrite(b)
      PROVE  Warranted(task[a])'
  <2> DEFINE t == task[b]
             u == [t EXCEPT !.pc = "record", !.decided = TRUE]
  <2>1. u.pc = "record" /\ u.proposal = t.proposal
    BY <1>0 DEF Task
  <2>2. CASE GuardAllows(t.proposal, t.decision) /\ t.writes
    <3>1. t.proposal \in Proposals /\ t.decision \in {"accepted", "modified"}
      BY <1>6, <2>2 DEF DecideWrite, TypeInv, Deciding, Warranted, Decisions
    <3>2. proposals'[t.proposal].status = t.decision
      BY <1>0, <1>6, <2>2, <3>1 DEF DecideWrite
    <3>3. t.proposal \in Accepted'
      BY <3>1, <3>2 DEF Accepted
    <3>4. task' = [task EXCEPT ![b] = u]
      BY <1>6, <2>2 DEF DecideWrite
    <3> HIDE DEF u
    <3>5. task'[a] = (IF a = b THEN u ELSE task[a])
      BY <1>0, <3>4
    <3>6. CASE a = b
      BY <2>1, <3>3, <3>5, <3>6 DEF Warranted
    <3>7. CASE a # b
      BY <1>1, <3>5, <3>7
    <3> QED BY <3>6, <3>7
  <2>3. CASE ~(GuardAllows(t.proposal, t.decision) /\ t.writes)
    <3>1. Done(b)
      BY <1>6, <2>3 DEF DecideWrite, Done
    <3> QED BY <1>1, <1>2, <3>1
  <2> QED BY <2>2, <2>3
<1>7. ASSUME NEW b \in People, RecordProposed(b)
      PROVE  Warranted(task[a])'
  <2>1. CASE ~Done(b)
    <3>1. \/ task'[a] = task[a]
          \/ /\ task'[a].pc = "insert" /\ task[a].pc = "record"
             /\ task'[a].proposal = task[a].proposal
      BY <1>0, <1>7, <2>1 DEF RecordProposed, Task
    <3>2. CASE /\ task'[a].pc = "insert" /\ task[a].pc = "record"
               /\ task'[a].proposal = task[a].proposal
      <4>1. task'[a].proposal \in Accepted
        BY <3>2 DEF Warranted
      <4>2. task'[a].proposal \in Accepted'
        BY <1>7, <4>1 DEF RecordProposed, Accepted
      <4> QED BY <3>2, <4>2 DEF Warranted
    <3> QED BY <1>1, <3>1, <3>2
  <2> QED BY <1>1, <1>2, <2>1
<1>8. ASSUME NEW b \in People, NEW r \in Records, Insert(b, r)
      PROVE  Warranted(task[a])'
  <2>1. CASE task' = [task EXCEPT ![b].pc = "link", ![b].record = r]
    <3>1. task'[a] = task[a] \/ task'[a].pc = "link"
      BY <1>0, <2>1 DEF Task
    <3> QED BY <1>1, <3>1
  <2> QED BY <1>1, <1>2, <1>8, <2>1 DEF Insert
<1>9. ASSUME NEW b \in People,
             \/ \E c \in Clients : NoIndicators(b, c)
             \/ \E r \in Records, named \in Consents \cup {Nil} : Amend(b, r, named)
      PROVE  task'[a] = task[a] \/ task'[a].pc \in {"idle", "insert-none", "link", "amend"}
  BY ZenonT(60), <1>0, <1>9 DEF NoIndicators, Amend, Idle
<1>10. ASSUME NEW b \in People,
              AmendWrite(b) \/ Link(b) \/ Die(b) \/ \E r \in Records : InsertNone(b, r)
       PROVE  Warranted(task[a])'
  <2>1. Done(b)
    BY <1>10 DEF AmendWrite, Link, Die, InsertNone
  <2> QED BY <1>1, <1>2, <2>1
<1>11. ASSUME NEW b \in People, NEW r \in Records, NEW status \in {"resolved", "withdrawn"},
              Close(b, r, status)
       PROVE  task'[a] = task[a]
  BY <1>11 DEF Close
<1>12. ASSUME NEW k \in Consents, EndConsent(k) \/ \E c \in Clients : CaptureConsent(k, c)
       PROVE  task'[a] = task[a]
  BY <1>12 DEF EndConsent, CaptureConsent
<1>13. UNCHANGED vars => task'[a] = task[a]
  BY DEF vars
<1> QED BY <1>1, <1>3, <1>4, <1>5, <1>6, <1>7, <1>8, <1>9, <1>10, <1>11, <1>12, <1>13
        DEF Next, Direct, Proposed

\* Where a row comes from: only an insert on behalf of a proposal names one.
LEMMA SourceOfRow ==
    ASSUME DecisionInv, [Next]_vars, NEW r \in Records, NEW p \in Proposals,
           records'[r].source = p
    PROVE  records[r].source = p \/ p \in Accepted
<1>0. /\ DOMAIN records = Records
      /\ DOMAIN records[r] = {"status", "client", "none", "special", "consent", "source"}
      /\ p # Nil
  BY GateAssumption DEF DecisionInv, TypeInv, TypeOK, Record
<1>1. ASSUME NEW a \in People, NEW x \in Records, Insert(a, x)
      PROVE  records[r].source = p \/ p \in Accepted
  <2>1. CASE x = r
    <3>1. records'[r].source = task[a].proposal /\ task[a].pc = "insert"
      BY <1>1, <2>1 DEF Insert
    <3> QED BY <1>0, <3>1 DEF DecisionInv, Warranted
  <2>2. CASE x # r
    <3>1. records'[r] = records[r] \/ records'[r] = [records[r] EXCEPT !.status = "superseded"]
      BY <1>1, <2>2 DEF Insert
    <3> QED BY <1>0, <3>1
  <2> QED BY <2>1, <2>2
<1>2. ASSUME NEW a \in People, NEW x \in Records, InsertNone(a, x)
      PROVE  records[r].source = p
  BY <1>0, <1>2 DEF InsertNone, NoRecord
<1>3. ASSUME NEW a \in People, AmendWrite(a)
      PROVE  records[r].source = p
  BY <1>0, <1>3 DEF AmendWrite
<1>4. ASSUME NEW a \in People, NEW x \in Records, NEW status \in {"resolved", "withdrawn"},
             Close(a, x, status)
      PROVE  records[r].source = p
  BY <1>0, <1>4 DEF Close
<1>5. ASSUME NEW a \in People, Direct(a)
      PROVE  \/ UNCHANGED records
             \/ \E x \in Records : Insert(a, x) \/ InsertNone(a, x)
             \/ AmendWrite(a)
             \/ \E x \in Records, status \in {"resolved", "withdrawn"} : Close(a, x, status)
  BY <1>5 DEF Direct, RecordDirectly, NoIndicators, Amend
<1>6. ASSUME NEW a \in People, Proposed(a) \/ Die(a)
      PROVE  UNCHANGED records
  BY <1>6 DEF Proposed, Apply, Decide, DecideWrite, RecordProposed, Link, Die
<1>7. ASSUME NEW k \in Consents, EndConsent(k) \/ \E c \in Clients : CaptureConsent(k, c)
      PROVE  UNCHANGED records
  BY <1>7 DEF EndConsent, CaptureConsent
<1> QED BY <1>1, <1>2, <1>3, <1>4, <1>5, <1>6, <1>7 DEF Next, vars

\* No signal of a model is in the register unless a person accepted it, however
\* the transactions of decideAndApply interleave and whichever requests die.
THEOREM NothingUndecidedHolds == Spec => []NothingUndecided
<1>1. Init => DecisionInv
  <2> SUFFICES ASSUME Init PROVE DecisionInv
    OBVIOUS
  <2>1. TypeInv
    BY GateAssumption, IdleTyped DEF Init, TypeInv, TypeOK, Deciding, NoConsent, Consent,
       NoRecord, Record, Proposal
  <2>2. NothingUndecided
    BY GateAssumption DEF Init, NothingUndecided, RecordsOf, NoRecord
  <2>3. \A a \in People : Warranted(task[a])
    BY IdleTyped DEF Init, Warranted
  <2> QED BY <2>1, <2>2, <2>3 DEF DecisionInv
<1>2. DecisionInv /\ [Next]_vars => DecisionInv'
  <2> SUFFICES ASSUME DecisionInv, [Next]_vars PROVE DecisionInv'
    OBVIOUS
  <2>1. TypeInv /\ TypeInv'
    BY TypeInvStep DEF DecisionInv
  <2>2. NothingUndecided'
    <3> SUFFICES ASSUME NEW p \in Proposals, NEW r \in Records, records'[r].source = p
                 PROVE  p \in Accepted'
      BY DEF NothingUndecided, RecordsOf
    <3>1. p \in Accepted
      BY SourceOfRow DEF DecisionInv, NothingUndecided, RecordsOf
    <3> QED BY <2>1, <3>1, AcceptedStay
  <2>3. \A a \in People : Warranted(task[a])'
    BY TasksWarranted
  <2> QED BY <2>1, <2>2, <2>3 DEF DecisionInv
<1>3. DecisionInv => NothingUndecided
  BY DEF DecisionInv
<1> QED BY <1>1, <1>2, <1>3, PTL DEF Spec

\* Whatever is in the register was decided by a person and, if it is about
\* health, rests on a consent of that client: RegisterJustified of the runs.
THEOREM RegisterHolds == Spec => []RegisterJustified
<1>1. SpecialHasConsent /\ NothingUndecided => RegisterJustified
  BY DEF RegisterJustified
<1> QED BY <1>1, ConsentHolds, NothingUndecidedHolds, PTL

-----------------------------------------------------------------------------
(***************************************************************************)
(* What became of a row.  A row that is in the table keeps its source, and *)
(* once closed it is closed for good.                                      *)
(***************************************************************************)
LEMMA RowCourse ==
    ASSUME TypeInv, [Next]_vars, NEW r \in Records
    PROVE  /\ records[r].status # "absent" \/ records'[r].status = "absent"
                => records'[r].source = records[r].source
           /\ records'[r].status = "absent" => records[r].status = "absent"
           /\ records[r].status \in Closed => records'[r].status \in Closed
<1> DEFINE Course ==
      \/ records'[r] = records[r]
      \/ /\ records[r].status = "absent" /\ records'[r].status = "active"
      \/ /\ records[r].status # "absent" /\ records'[r].source = records[r].source
         /\ records'[r].status \in Closed
      \/ /\ records'[r].status = records[r].status
         /\ records'[r].source = records[r].source
<1>0. /\ DOMAIN records = Records /\ records[r] \in Record
      /\ DOMAIN records[r] = {"status", "client", "none", "special", "consent", "source"}
  BY DEF TypeInv, TypeOK, Record
<1>1. CASE UNCHANGED records
  BY <1>1
<1>2. ASSUME NEW a \in People, NEW x \in Records, Insert(a, x)
      PROVE  Course
  <2>1. CASE x = r
    BY <1>2, <2>1 DEF Insert
  <2>2. CASE x # r
    <3>1. \/ records'[r] = records[r]
          \/ /\ records'[r] = [records[r] EXCEPT !.status = "superseded"]
             /\ records[r].status = "active"
      BY <1>2, <2>2 DEF Insert, ActiveNone
    <3> QED BY <1>0, <3>1 DEF Closed
  <2> QED BY <2>1, <2>2
<1>3. ASSUME NEW a \in People, NEW x \in Records, InsertNone(a, x)
      PROVE  Course
  <2>1. \/ records'[r] = records[r]
        \/ /\ x = r
           /\ records'[r] = [NoRecord EXCEPT !.status = "active", !.client = task[a].client,
                                              !.none = TRUE]
    BY <1>0, <1>3 DEF InsertNone
  <2> QED BY <1>3, <2>1 DEF InsertNone, NoRecord
<1>4. ASSUME NEW a \in People, AmendWrite(a)
      PROVE  Course
  <2>1. \/ records'[r] = records[r]
        \/ records'[r] = [records[r] EXCEPT !.consent = task[a].consent]
    BY <1>0, <1>4 DEF AmendWrite
  <2> QED BY <1>0, <2>1
<1>5. ASSUME NEW a \in People, NEW x \in Records, NEW status \in {"resolved", "withdrawn"},
             Close(a, x, status)
      PROVE  Course
  <2>1. \/ records'[r] = records[r]
        \/ records[r].status # "absent" /\ records'[r] = [records[r] EXCEPT !.status = status]
    BY <1>0, <1>5 DEF Close
  <2> QED BY <1>0, <2>1 DEF Closed
<1>6. ASSUME NEW a \in People, Direct(a)
      PROVE  \/ UNCHANGED records
             \/ \E x \in Records : Insert(a, x) \/ InsertNone(a, x)
             \/ AmendWrite(a)
             \/ \E x \in Records, status \in {"resolved", "withdrawn"} : Close(a, x, status)
  BY <1>6 DEF Direct, RecordDirectly, NoIndicators, Amend
<1>7. ASSUME NEW a \in People, Proposed(a) \/ Die(a)
      PROVE  UNCHANGED records
  BY <1>7 DEF Proposed, Apply, Decide, DecideWrite, RecordProposed, Link, Die
<1>8. ASSUME NEW k \in Consents, EndConsent(k) \/ \E c \in Clients : CaptureConsent(k, c)
      PROVE  UNCHANGED records
  BY <1>8 DEF EndConsent, CaptureConsent
<1>9. Course
  BY <1>1, <1>2, <1>3, <1>4, <1>5, <1>6, <1>7, <1>8 DEF Next, vars
<1> QED BY <1>9 DEF Closed

\* No closed record of the register is opened again, not even by an amendment
\* that had loaded it while it was open (amendVulnerability writes back only
\* the columns a person may change).
THEOREM ClosedForGood == Spec => ClosedStaysClosed
<1>1. Init => TypeInv
  BY GateAssumption, IdleTyped DEF Init, TypeInv, TypeOK, Deciding, NoConsent, Consent, NoRecord,
     Record, Proposal
<1>2. TypeInv /\ [Next]_vars => TypeInv'
  BY TypeInvStep
<1>3. TypeInv /\ [Next]_vars =>
         [\A r \in Records : records[r].status \in Closed => records'[r].status \in Closed]_vars
  BY RowCourse
<1> QED BY <1>1, <1>2, <1>3, PTL DEF Spec, ClosedStaysClosed

-----------------------------------------------------------------------------
(***************************************************************************)
(* What is accepted is recorded.  decideAndApply checks for a consent,     *)
(* decides, and only then writes.  As long as no request has died and no   *)
(* consent has ended, a request that is on its way carries everything the  *)
(* write will ask for, vulnerability:write excepted: of the role templates *)
(* the insolvency practitioner may accept and not record.  Who decided     *)
(* last is who the row names, so it is that person's request that has to   *)
(* be on its way.                                                          *)
(***************************************************************************)
Excused == mishaps > 0 \/ \E k \in Consents : consents[k].ended

OnCourse(a) ==
    LET t == task[a]
    IN  /\ t.decided => t.pc \in {"record", "insert", "link"}
        /\ t.pc \in {"decide", "decide-write"} /\ t.decision # "rejected"
             /\ Signal[t.proposal].driver # "none" => t.writes
        /\ t.pc = "record" => t.writes
        /\ t.pc \in {"decide", "decide-write", "record"} /\ t.writes /\ t.special
             => Permitting(t.client, t.consent) # {}
        /\ t.pc = "link" => t.proposal \in Proposals /\ RecordsOf(t.proposal) # {}

\* A row that is not there came from nowhere.
Blank == \A r \in Records : records[r].status = "absent" => records[r].source = Nil

\* Person a has decided proposal p, and that request still runs.
Carries(a, p) == a \in People /\ task[a].proposal = p /\ task[a].decided

Recorded ==
    \A p \in Accepted :
        proposals[p].by \in MayRecord /\ Signal[p].driver # "none" =>
            RecordsOf(p) # {} \/ Carries(proposals[p].by, p)

CourseInv ==
    /\ TypeInv
    /\ Blank
    /\ Excused \/ (Recorded /\ \A a \in People : OnCourse(a))

\* Requests that died and consents that ended do not come back.
LEMMA ExcusedStays ==
    ASSUME TypeInv, [Next]_vars, Excused
    PROVE  Excused'
<1> USE DEF TypeInv
<1>0. /\ mishaps \in Nat /\ DOMAIN consents = Consents
      /\ \A l \in Consents : DOMAIN consents[l] = {"client", "permits", "ended"}
  BY GateAssumption DEF TypeOK, Consent
<1>1. CASE mishaps > 0
  <2>1. mishaps' = mishaps \/ mishaps' = mishaps + 1
    BY ZenonT(60) DEF Next, Direct, Proposed, vars, EndConsent, CaptureConsent, RecordDirectly, NoIndicators,
           Insert, InsertNone, Amend, AmendWrite, Close, Apply, Decide, DecideWrite,
           RecordProposed, Link, Die
  <2> QED BY <1>0, <1>1, <2>1 DEF Excused
<1>2. ASSUME NEW k \in Consents, consents[k].ended
      PROVE  consents'[k].ended
  <2>1. CASE UNCHANGED consents
    BY <1>2, <2>1
  <2>2. ASSUME NEW l \in Consents, EndConsent(l)
        PROVE  consents'[k].ended
    BY <1>0, <1>2, <2>2 DEF EndConsent
  <2>3. ASSUME NEW l \in Consents, NEW c \in Clients, CaptureConsent(l, c)
        PROVE  consents'[k].ended
    <3>1. l # k
      BY <1>2, <2>3 DEF CaptureConsent, NoConsent
    <3> QED BY <1>0, <1>2, <2>3, <3>1 DEF CaptureConsent
  <2>4. ASSUME NEW a \in People, Direct(a) \/ Proposed(a) \/ Die(a)
        PROVE  UNCHANGED consents
    BY <2>4 DEF Direct, RecordDirectly, NoIndicators, Insert, InsertNone, Amend, AmendWrite, Close,
                Proposed, Apply, Decide, DecideWrite, RecordProposed, Link, Die
  <2> QED BY <2>1, <2>2, <2>3, <2>4 DEF Next, vars
<1> QED BY <1>1, <1>2 DEF Excused

\* A consent that would do still does, unless one has ended.
LEMMA PermittingStays ==
    ASSUME TypeInv, [Next]_vars, ~Excused', NEW c, NEW named, Permitting(c, named) # {}
    PROVE  Permitting(c, named)' # {}
<1>1. PICK k \in Consents : /\ consents[k].client = c /\ consents[k].permits
                            /\ named \in {Nil, k}
  BY DEF Permitting
<1>2. consents'[k].client = c /\ consents'[k].permits
  BY <1>1, GrantsStay
<1>3. ~consents'[k].ended
  BY DEF Excused
<1> QED BY <1>1, <1>2, <1>3 DEF Permitting

LEMMA RecordsStay ==
    ASSUME TypeInv, Blank, [Next]_vars, NEW p \in Proposals, RecordsOf(p) # {}
    PROVE  RecordsOf(p)' # {}
<1>1. PICK r \in Records : records[r].source = p
  BY DEF RecordsOf
<1>2. records[r].status # "absent"
  BY <1>1, GateAssumption DEF Blank
<1>3. records'[r].source = p
  BY <1>1, <1>2, RowCourse
<1> QED BY <1>3 DEF RecordsOf

LEMMA CourseKept ==
    ASSUME TypeInv, Blank, [Next]_vars, ~Excused', NEW a \in People, OnCourse(a),
           task'[a] = task[a]
    PROVE  OnCourse(a)'
BY PermittingStays, RecordsStay DEF OnCourse

\* A request that ends, or begins with something that is no proposal's.
LEMMA CourseFree ==
    ASSUME NEW a \in People, task'[a].decided = FALSE,
           task'[a].pc \in {"idle", "insert", "insert-none", "amend"}
    PROVE  OnCourse(a)'
BY DEF OnCourse

LEMMA IdleCourse ==
    /\ Idle.pc = "idle" /\ Idle.decided = FALSE /\ Idle.special = FALSE
BY DEF Idle

LEMMA DoneCourse ==
    ASSUME TypeInv, NEW b \in People, Done(b), NEW a \in People
    PROVE  task'[a] = task[a] \/ (task'[a].decided = FALSE /\ task'[a].pc = "idle")
BY IdleCourse DEF Done, TypeInv, TypeOK

\* A signal that is for this register stays one when a person modifies it.
LEMMA AppliedDriver ==
    ASSUME NEW p \in Proposals, NEW decision, NEW signal \in Applied(p, decision),
           Signal[p].driver # "none"
    PROVE  signal.driver # "none"
<1>1. Signal[p] \in Signals
  BY GateAssumption
<1> QED BY <1>1 DEF Applied, Drivers, Signals

LEMMA CourseStep ==
    ASSUME CourseInv, [Next]_vars, ~Excused, ~Excused', NEW a \in People
    PROVE  OnCourse(a)'
<1> USE DEF CourseInv
<1>0. /\ DOMAIN task = People /\ \A b \in People : task[b] \in Task
      /\ OnCourse(a)
  BY DEF TypeInv, TypeOK
<1>1. CASE task'[a] = task[a]
  BY <1>0, <1>1, CourseKept
<1>2. CASE task'[a].decided = FALSE /\ task'[a].pc \in {"idle", "insert", "insert-none", "amend"}
  BY <1>2, CourseFree
<1>3. ASSUME NEW b \in People, Done(b)
      PROVE  OnCourse(a)'
  BY <1>1, <1>2, <1>3, DoneCourse
<1>4. ASSUME NEW b \in People, NEW c \in Clients, NEW special \in BOOLEAN,
             NEW named \in Consents \cup {Nil}, RecordDirectly(b, c, special, named)
      PROVE  OnCourse(a)'
  <2>1. task'[a] = task[a] \/ (task'[a].pc = "insert" /\ task'[a].decided = FALSE)
    BY <1>0, <1>4 DEF RecordDirectly, Idle
  <2> QED BY <1>1, <1>2, <2>1
<1>5. ASSUME NEW b \in People,
             \/ \E c \in Clients : NoIndicators(b, c)
             \/ \E r \in Records, named \in Consents \cup {Nil} : Amend(b, r, named)
      PROVE  OnCourse(a)'
  <2>1. task'[a] = task[a] \/ (task'[a].pc \in {"insert-none", "amend"} /\ task'[a].decided = FALSE)
    BY ZenonT(60), <1>0, <1>5 DEF NoIndicators, Amend, Idle
  <2> QED BY <1>1, <1>2, <2>1
<1>6. ASSUME NEW b \in People, NEW p \in Proposals, NEW decision \in Decisions,
             NEW named \in Consents \cup {Nil}, Apply(b, p, decision, named)
      PROVE  OnCourse(a)'
  <2>1. CASE ~Done(b)
    <3>1. PICK signal \in Applied(p, decision) :
             /\ HasWriter(signal, decision) => CheckedFirst(signal, Client[p], named)
             /\ task' = [task EXCEPT ![b] = [Idle EXCEPT
                        !.pc = "decide", !.proposal = p, !.decision = decision,
                        !.client = Client[p], !.writes = HasWriter(signal, decision),
                        !.consent = named, !.special = (signal.driver = "health")]]
      BY <1>6, <2>1 DEF Apply
    <3> DEFINE u == [Idle EXCEPT
                       !.pc = "decide", !.proposal = p, !.decision = decision,
                       !.client = Client[p], !.writes = HasWriter(signal, decision),
                       !.consent = named, !.special = (signal.driver = "health")]
    <3>2. /\ u.pc = "decide" /\ u.decision = decision /\ u.writes = HasWriter(signal, decision)
          /\ u.proposal = p /\ u.client = Client[p] /\ u.consent = named
          /\ u.special = (signal.driver = "health") /\ u.decided = FALSE
      BY DEF Idle
    <3>3. task'[a] = task[a] \/ task'[a] = u
      BY <1>0, <3>1
    <3> HIDE DEF u
    <3>4. CASE task'[a] = u
      <4>1. decision # "rejected" /\ Signal[p].driver # "none" => u.writes
        BY <3>2, AppliedDriver DEF HasWriter
      <4>2. u.writes /\ u.special => Permitting(Client[p], named) # {}
        BY <3>1, <3>2 DEF CheckedFirst, Sensitive
      <4>3. u.writes /\ u.special => Permitting(Client[p], named)' # {}
        BY <4>2, PermittingStays
      <4> QED BY <3>2, <3>4, <4>1, <4>3 DEF OnCourse
    <3> QED BY <1>1, <3>3, <3>4
  <2> QED BY <1>3, <2>1
<1>7. ASSUME NEW b \in People, Decide(b)
      PROVE  OnCourse(a)'
  <2>1. CASE ~Done(b)
    <3> DEFINE t == task[b]
               u == [t EXCEPT !.pc = "decide-write"]
    <3>1. task' = [task EXCEPT ![b] = u] /\ t.pc = "decide"
      BY <1>7, <2>1 DEF Decide
    <3>2. /\ u.pc = "decide-write" /\ u.decision = t.decision /\ u.writes = t.writes
          /\ u.proposal = t.proposal /\ u.client = t.client /\ u.consent = t.consent
          /\ u.special = t.special /\ u.decided = t.decided
      BY <1>0 DEF Task
    <3> HIDE DEF u
    <3>3. task'[a] = (IF a = b THEN u ELSE task[a])
      BY <1>0, <3>1
    <3>4. CASE a = b
      <4>1. PICK c, named : c = t.client /\ named = t.consent
        OBVIOUS
      <4>2. t.writes /\ t.special => Permitting(c, named) # {}
        BY <1>0, <3>1, <3>4, <4>1 DEF OnCourse
      <4>3. t.writes /\ t.special => Permitting(c, named)' # {}
        BY <4>2, PermittingStays
      <4> QED BY <1>0, <3>1, <3>2, <3>3, <3>4, <4>1, <4>3 DEF OnCourse
    <3>5. CASE a # b
      BY <1>1, <3>3, <3>5
    <3> QED BY <3>4, <3>5
  <2> QED BY <1>3, <2>1
<1>8. ASSUME NEW b \in People, DecideWrite(b)
      PROVE  OnCourse(a)'
  <2>1. CASE ~Done(b)
    <3> DEFINE t == task[b]
               u == [t EXCEPT !.pc = "record", !.decided = TRUE]
    <3>1. task' = [task EXCEPT ![b] = u] /\ t.pc = "decide-write" /\ t.writes
      BY <1>8, <2>1 DEF DecideWrite, Done
    <3>2. /\ u.pc = "record" /\ u.writes = t.writes
          /\ u.client = t.client /\ u.consent = t.consent /\ u.special = t.special
      BY <1>0 DEF Task
    <3> HIDE DEF u
    <3>3. task'[a] = (IF a = b THEN u ELSE task[a])
      BY <1>0, <3>1
    <3>4. CASE a = b
      <4>1. PICK c, named : c = t.client /\ named = t.consent
        OBVIOUS
      <4>2. t.writes /\ t.special => Permitting(c, named) # {}
        BY <1>0, <3>1, <3>4, <4>1 DEF OnCourse
      <4>3. t.writes /\ t.special => Permitting(c, named)' # {}
        BY <4>2, PermittingStays
      <4> QED BY <1>0, <3>1, <3>2, <3>3, <3>4, <4>1, <4>3 DEF OnCourse
    <3>5. CASE a # b
      BY <1>1, <3>3, <3>5
    <3> QED BY <3>4, <3>5
  <2> QED BY <1>3, <2>1
<1>9. ASSUME NEW b \in People, RecordProposed(b)
      PROVE  OnCourse(a)'
  <2>1. CASE ~Done(b)
    <3>1. task'[a] = task[a] \/ task'[a].pc = "insert"
      BY <1>0, <1>9, <2>1 DEF RecordProposed, Task
    <3>2. CASE task'[a].pc = "insert"
      BY <3>2 DEF OnCourse
    <3> QED BY <1>1, <3>1, <3>2
  <2> QED BY <1>3, <2>1
<1>10. ASSUME NEW b \in People, NEW r \in Records, Insert(b, r)
       PROVE  OnCourse(a)'
  <2>1. CASE ~Done(b)
    <3> DEFINE t == task[b]
               u == [t EXCEPT !.pc = "link", !.record = r]
    <3>1. task' = [task EXCEPT ![b] = u] /\ t.proposal # Nil
      BY <1>10, <2>1 DEF Insert
    <3>2. u.pc = "link" /\ u.proposal = t.proposal
      BY <1>0 DEF Task
    <3> HIDE DEF u
    <3>3. task'[a] = (IF a = b THEN u ELSE task[a])
      BY <1>0, <3>1
    <3>4. t.proposal \in Proposals
      BY <1>0, <3>1, TaskTypes
    <3>5. records'[r].source = t.proposal
      BY <1>10 DEF Insert
    <3>6. CASE a = b
      <4>1. PICK p \in Proposals : p = t.proposal
        BY <3>4
      <4>2. RecordsOf(p)' # {}
        BY <3>5, <4>1 DEF RecordsOf
      <4> QED BY <3>2, <3>3, <3>6, <4>1, <4>2 DEF OnCourse
    <3>7. CASE a # b
      BY <1>1, <3>3, <3>7
    <3> QED BY <3>6, <3>7
  <2> QED BY <1>3, <2>1
<1>11. ASSUME NEW b \in People,
              AmendWrite(b) \/ Link(b) \/ Die(b) \/ \E r \in Records : InsertNone(b, r)
       PROVE  OnCourse(a)'
  <2>1. Done(b)
    BY <1>11 DEF AmendWrite, Link, Die, InsertNone
  <2> QED BY <1>3, <2>1
<1>12. ASSUME NEW b \in People, NEW r \in Records, NEW status \in {"resolved", "withdrawn"},
              Close(b, r, status)
       PROVE  task'[a] = task[a]
  BY <1>12 DEF Close
<1>13. ASSUME NEW k \in Consents, EndConsent(k) \/ \E c \in Clients : CaptureConsent(k, c)
       PROVE  task'[a] = task[a]
  BY <1>13 DEF EndConsent, CaptureConsent
<1>14. UNCHANGED vars => task'[a] = task[a]
  BY DEF vars
<1> QED BY <1>1, <1>4, <1>5, <1>6, <1>7, <1>8, <1>9, <1>10, <1>11, <1>12, <1>13, <1>14
        DEF Next, Direct, Proposed

\* The request of somebody who may record goes on once it has decided, until
\* there is a row.
LEMMA UnderWayStep ==
    ASSUME CourseInv, [Next]_vars, ~Excused, ~Excused', NEW p \in Proposals,
           NEW a \in MayRecord, Carries(a, p), task[a].pc \in {"record", "insert"}
    PROVE  RecordsOf(p)' # {} \/ Carries(a, p)'
<1> USE DEF CourseInv
<1>0. /\ DOMAIN task = People /\ \A b \in People : task[b] \in Task
      /\ OnCourse(a) /\ mishaps \in Nat /\ p # Nil
      /\ a \in People /\ task[a].proposal = p /\ task[a].decided
  BY GateAssumption DEF TypeInv, TypeOK, Carries
<1>1. CASE task'[a] = task[a]
  BY <1>1 DEF Carries
<1>2. ASSUME NEW b \in People, b # a, NEW t, task' = [task EXCEPT ![b] = t]
      PROVE  task'[a] = task[a]
  BY <1>0, <1>2
<1>3. ASSUME NEW b \in People,
             \/ \E c \in Clients, special \in BOOLEAN, named \in Consents \cup {Nil} :
                   RecordDirectly(b, c, special, named)
             \/ \E c \in Clients : NoIndicators(b, c)
             \/ \E r \in Records : InsertNone(b, r)
             \/ \E r \in Records, named \in Consents \cup {Nil} : Amend(b, r, named)
             \/ AmendWrite(b)
             \/ \E q \in Proposals, decision \in Decisions, named \in Consents \cup {Nil} :
                   Apply(b, q, decision, named)
             \/ Decide(b) \/ DecideWrite(b) \/ Link(b)
      PROVE  b # a
  BY <1>3 DEF RecordDirectly, NoIndicators, InsertNone, Amend, AmendWrite, Apply, Decide,
              DecideWrite, Link
<1>4. ASSUME NEW b \in People, b # a, Direct(b) \/ Proposed(b) \/ Die(b)
      PROVE  task'[a] = task[a]
  <2>1. CASE UNCHANGED task
    BY <2>1
  <2>2. CASE Done(b)
    BY <1>2, <1>4, <2>2 DEF Done
  <2>3. CASE \/ \E c \in Clients, special \in BOOLEAN, named \in Consents \cup {Nil} :
                  RecordDirectly(b, c, special, named)
             \/ \E c \in Clients : NoIndicators(b, c)
             \/ \E r \in Records, named \in Consents \cup {Nil} : Amend(b, r, named)
    BY <1>0, <1>4, <2>3 DEF RecordDirectly, NoIndicators, Amend
  <2>4. ASSUME NEW r \in Records, Insert(b, r) PROVE task'[a] = task[a]
    BY <1>0, <1>4, <2>2, <2>4 DEF Insert
  <2>5. ASSUME NEW q \in Proposals, NEW decision \in Decisions, NEW named \in Consents \cup {Nil},
               Apply(b, q, decision, named)
        PROVE  task'[a] = task[a]
    BY <1>0, <1>4, <2>2, <2>5 DEF Apply
  <2>6. CASE Decide(b) \/ DecideWrite(b) \/ RecordProposed(b)
    BY <1>0, <1>4, <2>2, <2>6 DEF Decide, DecideWrite, RecordProposed
  <2>7. CASE AmendWrite(b) \/ Link(b) \/ Die(b) \/ \E r \in Records : InsertNone(b, r)
    BY <2>2, <2>7 DEF AmendWrite, Link, Die, InsertNone
  <2>8. CASE \E r \in Records, status \in {"resolved", "withdrawn"} : Close(b, r, status)
    BY <2>8 DEF Close
  <2> QED BY <1>4, <2>1, <2>3, <2>4, <2>5, <2>6, <2>7, <2>8 DEF Direct, Proposed
<1>5. CASE RecordProposed(a)
  <2>1. MayInsert(a, task[a]) # {}
    <3>1. task[a].special => Permitting(task[a].client, task[a].consent) # {}
      BY <1>0, <1>5 DEF RecordProposed, OnCourse
    <3> QED BY <3>1 DEF MayInsert
  <2>2. PICK k : task' = [task EXCEPT ![a].pc = "insert", ![a].consent = k]
    BY <1>5, <2>1 DEF RecordProposed
  <2>3. task'[a].proposal = p /\ task'[a].decided
    BY <1>0, <2>2 DEF Task
  <2> QED BY <2>3 DEF Carries
<1>6. ASSUME NEW r \in Records, Insert(a, r)
      PROVE  RecordsOf(p)' # {}
  <2>1. records'[r].source = p
    BY <1>0, <1>6 DEF Insert
  <2> QED BY <2>1 DEF RecordsOf
<1>7. ~Die(a)
  BY <1>0 DEF Die, Excused
<1>8. CASE \E r \in Records, status \in {"resolved", "withdrawn"} : Close(a, r, status)
  BY <1>1, <1>8 DEF Close
<1>9. CASE \/ UNCHANGED vars
           \/ \E k \in Consents : EndConsent(k) \/ \E c \in Clients : CaptureConsent(k, c)
  BY <1>1, <1>9 DEF vars, EndConsent, CaptureConsent
<1> QED BY <1>1, <1>3, <1>4, <1>5, <1>6, <1>7, <1>8, <1>9 DEF Next, Direct, Proposed

\* Only the UPDATE of decideProposal accepts a proposal or names who did, and
\* it leaves a request of that person that will write what was proposed.
LEMMA AcceptedNow ==
    ASSUME CourseInv, [Next]_vars, ~Excused, NEW p \in Accepted',
           p \notin Accepted \/ proposals'[p].by # proposals[p].by,
           Signal[p].driver # "none"
    PROVE  Carries(proposals[p].by, p)'
<1> USE DEF CourseInv
<1>0. /\ DOMAIN task = People /\ \A b \in People : task[b] \in Task /\ OnCourse(b)
      /\ DOMAIN proposals = Proposals
      /\ \A q \in Proposals : DOMAIN proposals[q] = {"status", "by", "target"}
      /\ p \in Proposals
  BY DEF TypeInv, TypeOK, Proposal, Accepted
<1>1. /\ proposals'[p].status \in {"accepted", "modified"}
      /\ \/ proposals'[p].status # proposals[p].status
         \/ proposals'[p].by # proposals[p].by
  BY <1>0 DEF Accepted
<1>2. ASSUME NEW a \in People, Direct(a) \/ Die(a)
      PROVE  UNCHANGED proposals
  BY <1>2 DEF Direct, RecordDirectly, NoIndicators, Insert, InsertNone, Amend, AmendWrite, Close,
              Die
<1>3. ASSUME NEW a \in People, Proposed(a)
      PROVE  UNCHANGED proposals \/ DecideWrite(a) \/ Link(a)
  BY <1>3 DEF Proposed, Apply, Decide, RecordProposed
<1>4. ASSUME NEW k \in Consents, EndConsent(k) \/ \E c \in Clients : CaptureConsent(k, c)
      PROVE  UNCHANGED proposals
  BY <1>4 DEF EndConsent, CaptureConsent
<1>5. ASSUME NEW a \in People, Link(a)
      PROVE  proposals'[p].status = proposals[p].status /\ proposals'[p].by = proposals[p].by
  BY <1>0, <1>5 DEF Link
<1>6. PICK a \in People : DecideWrite(a)
  BY <1>1, <1>2, <1>3, <1>4, <1>5 DEF Next, vars
<1>7. GuardAllows(task[a].proposal, task[a].decision)
  BY <1>1, <1>6 DEF DecideWrite
<1>8. /\ task[a].proposal = p /\ proposals'[p].by = a
      /\ task[a].decision = proposals'[p].status
  BY <1>0, <1>1, <1>6, <1>7 DEF DecideWrite
<1>9. task[a].writes
  BY <1>0, <1>1, <1>6, <1>8 DEF DecideWrite, OnCourse
<1>10. task' = [task EXCEPT ![a] = [task[a] EXCEPT !.pc = "record", !.decided = TRUE]]
  BY <1>6, <1>7, <1>9 DEF DecideWrite
<1>11. task'[a].proposal = p /\ task'[a].decided
  BY <1>0, <1>8, <1>10 DEF Task
<1> QED BY <1>8, <1>11 DEF Carries

\* What somebody accepted who may record is in the register or on its way
\* there, unless a request died or a consent ended in between.
THEOREM AcceptedAreRecorded == Spec => []AcceptedIsRecorded
<1>1. Init => CourseInv
  <2> SUFFICES ASSUME Init PROVE CourseInv
    OBVIOUS
  <2>1. TypeInv
    BY GateAssumption, IdleTyped DEF Init, TypeInv, TypeOK, Deciding, NoConsent, Consent,
       NoRecord, Record, Proposal
  <2>2. Blank /\ Recorded
    BY DEF Init, Blank, NoRecord, Recorded, Accepted
  <2>3. \A a \in People : OnCourse(a)
    BY IdleCourse DEF Init, OnCourse
  <2> QED BY <2>1, <2>2, <2>3 DEF CourseInv
<1>2. CourseInv /\ [Next]_vars => CourseInv'
  <2> SUFFICES ASSUME CourseInv, [Next]_vars PROVE CourseInv'
    OBVIOUS
  <2> USE DEF CourseInv
  <2>1. TypeInv'
    BY TypeInvStep
  <2>2. Blank'
    BY RowCourse DEF Blank
  <2>3. CASE Excused'
    BY <2>1, <2>2, <2>3
  <2>4. CASE ~Excused'
    <3>1. ~Excused
      BY <2>4, ExcusedStays
    <3>2. \A a \in People : OnCourse(a)'
      BY <2>4, <3>1, CourseStep
    <3>3. Recorded'
      <4> SUFFICES ASSUME NEW p \in Accepted', proposals'[p].by \in MayRecord,
                          Signal[p].driver # "none"
                   PROVE  RecordsOf(p)' # {} \/ Carries(proposals[p].by, p)'
        BY DEF Recorded
      <4>1. p \in Proposals
        BY DEF Accepted
      <4>2. CASE p \notin Accepted \/ proposals'[p].by # proposals[p].by
        BY <3>1, <4>2, AcceptedNow
      <4>3. CASE RecordsOf(p) # {}
        BY <4>1, <4>3, RecordsStay
      <4>4. ASSUME p \in Accepted, proposals'[p].by = proposals[p].by, RecordsOf(p) = {}
            PROVE  RecordsOf(p)' # {} \/ Carries(proposals[p].by, p)'
        <5> DEFINE a == proposals[p].by
        <5>1. Carries(a, p) /\ a \in MayRecord
          BY <3>1, <4>4 DEF Recorded
        <5>2. task[a].pc \in {"record", "insert"}
          BY <3>1, <4>4, <5>1 DEF OnCourse, Carries
        <5>3. PICK x \in MayRecord : x = a
          BY <5>1
        <5>4. RecordsOf(p)' # {} \/ Carries(x, p)'
          BY <2>4, <3>1, <4>1, <5>1, <5>2, <5>3, UnderWayStep
        <5> QED BY <4>4, <5>3, <5>4 DEF Carries
      <4> QED BY <4>2, <4>3, <4>4
    <3> QED BY <2>1, <2>2, <3>2, <3>3
  <2> QED BY <2>3, <2>4
<1>3. CourseInv => AcceptedIsRecorded
  BY DEF CourseInv, AcceptedIsRecorded, Recorded, Excused, Carries, UnderWay
<1> QED BY <1>1, <1>2, <1>3, PTL DEF Spec

=============================================================================
