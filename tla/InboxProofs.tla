----------------------------- MODULE InboxProofs -----------------------------
(***************************************************************************)
(* Theorems about Inbox, for any numbers, clients, messages, deliveries    *)
(* and advisers.  A delivery and a page keep what they have read while     *)
(* others change the tables; the invariants say what of it still holds     *)
(* when it is written.                                                     *)
(***************************************************************************)
EXTENDS Inbox, SequenceTheorems, FiniteSetTheorems, TLAPS

-----------------------------------------------------------------------------
(* Type correctness. *)

Delivery ==
    [pc: {"idle", "route", "receive", "write", "fetch", "store", "answer", "scan"},
     message: Messages \cup {Nil}, existing: Conversation \cup {Nil},
     match: Clients \cup {Nil}, client: Clients \cup {Nil}, row: Nat]

Task ==
    [pc: {"idle", "opened", "page", "note", "reply", "letter", "record"},
     thread: Threads \cup {Nil}, client: Clients \cup {Nil}, outcome: {Nil, "sent", "failed"}]

\* The delivery has a row of its own.
HasRow(d) == delivery[d].pc \in {"fetch", "store", "answer", "scan"}

\* What a delivery carries fits the tables, and a conversation never goes away.
DeliveryFits(d) ==
    /\ delivery[d].row \in 0 .. Len(comms)
    /\ HasRow(d) => delivery[d].row # 0
    /\ delivery[d].pc # "idle" => delivery[d].message \in Messages
    /\ delivery[d].pc = "write" /\ delivery[d].existing # Nil
         => conversation[Thread[delivery[d].message]] # Nil

TaskFits(a) ==
    /\ task[a].pc # "idle" => /\ task[a].thread \in Threads
                              /\ conversation[task[a].thread] # Nil
    /\ task[a].pc = "record" => task[a].outcome \in {"sent", "failed"}

TypeInv ==
    /\ conversation \in [Threads -> Conversation \cup {Nil}]
    /\ comms \in Seq(Communication)
    /\ \A pair \in confirmed : pair[2] \in Clients
    /\ carried \in [Threads -> Nat]
    /\ delivery \in [Deliveries -> Delivery]
    /\ task \in [Advisers -> Task]
    /\ \A d \in Deliveries : DeliveryFits(d)
    /\ \A a \in Advisers : TaskFits(a)
    /\ accepted \cup dropped \subseteq Messages
    /\ mishaps \in 0 .. MaxMishaps

LEMMA DeliveryTypes ==
    ASSUME NEW r \in Delivery
    PROVE  /\ r.message \in Messages \cup {Nil} /\ r.existing \in Conversation \cup {Nil}
           /\ r.match \in Clients \cup {Nil} /\ r.client \in Clients \cup {Nil} /\ r.row \in Nat
BY DEF Delivery

LEMMA TaskTypes ==
    ASSUME NEW r \in Task
    PROVE  /\ r.thread \in Threads \cup {Nil} /\ r.client \in Clients \cup {Nil}
           /\ r.outcome \in {Nil, "sent", "failed"}
BY DEF Task

LEMMA NoneTyped ==
    /\ NoDelivery \in Delivery /\ NoDelivery.pc = "idle" /\ NoDelivery.row = 0
    /\ NoTask \in Task /\ NoTask.pc = "idle"
BY DEF NoDelivery, Delivery, NoTask, Task

\* What receiveInbound and the advisers' actions make of a conversation.
LEMMA RowsOfConversation ==
    ASSUME NEW row \in Conversation
    PROVE  /\ Reopened(row) \in Conversation /\ Reopened(row).client = row.client
           /\ Closed(row) \in Conversation /\ Closed(row).client = row.client
           /\ \A answered \in BOOLEAN : /\ Touched(row, answered) \in Conversation
                                        /\ Touched(row, answered).client = row.client
           /\ [row EXCEPT !.unread = FALSE] \in Conversation
           /\ \A c \in Clients : [row EXCEPT !.client = c] \in Conversation
BY DEF Conversation, Statuses, Reopened, Closed, Touched

LEMMA RowTyped ==
    ASSUME NEW t \in Threads, NEW m \in Messages \cup {Nil}, NEW c \in Clients \cup {Nil},
           NEW kind \in {"inbound", "note", "sent", "failed"}
    PROVE  /\ Row(t, m, c, kind) \in Communication
           /\ Row(t, m, c, kind).thread = t /\ Row(t, m, c, kind).client = c
           /\ Row(t, m, c, kind).kind = kind /\ Row(t, m, c, kind).holder = Nil
           /\ Row(t, m, c, kind).document = "none" /\ Row(t, m, c, kind).assessed = "no"
BY DEF Row, Communication

\* A communication stays one when one of its columns is written.
LEMMA ColumnsTyped ==
    ASSUME NEW r \in Communication
    PROVE  /\ \A c \in Clients : /\ [r EXCEPT !.client = c] \in Communication
                                 /\ [r EXCEPT !.document = "filed", !.holder = c] \in Communication
           /\ [r EXCEPT !.file = "skipped"] \in Communication
           /\ \A found \in {"nothing", "proposed"} : [r EXCEPT !.assessed = found] \in Communication
           /\ \A c \in Clients \cup {Nil} : Ingested(r, c) \subseteq Communication
<1>1. ASSUME NEW c \in Clients
      PROVE  /\ [r EXCEPT !.client = c] \in Communication
             /\ [r EXCEPT !.document = "filed", !.holder = c] \in Communication
  BY DEF Communication
<1>2. /\ [r EXCEPT !.file = "skipped"] \in Communication
      /\ \A found \in {"nothing", "proposed"} : [r EXCEPT !.assessed = found] \in Communication
  BY DEF Communication
<1>3. ASSUME NEW c \in Clients \cup {Nil}
      PROVE  Ingested(r, c) \subseteq Communication
  <2>1. \A f \in {"failed", "infected"} : [r EXCEPT !.file = f] \in Communication
    BY DEF Communication
  <2>2. [r EXCEPT !.file = "stored", !.document = "unfiled", !.holder = c] \in Communication
    BY DEF Communication
  <2> QED BY <2>1, <2>2 DEF Ingested
<1> QED BY <1>1, <1>2, <1>3

\* Writing one row, and writing all of them, leaves as many.
LEMMA OneWritten ==
    ASSUME comms \in Seq(Communication), NEW i \in 1 .. Len(comms), NEW row \in Communication,
           comms' = [comms EXCEPT ![i] = row]
    PROVE  /\ comms' \in Seq(Communication) /\ Len(comms') = Len(comms)
           /\ \A j \in 1 .. Len(comms) : comms'[j] = (IF j = i THEN row ELSE comms[j])
BY ExceptSeq

LEMMA OneAppended ==
    ASSUME comms \in Seq(Communication), NEW row \in Communication, comms' = Append(comms, row)
    PROVE  /\ comms' \in Seq(Communication) /\ Len(comms') = Len(comms) + 1
           /\ comms'[Len(comms) + 1] = row
           /\ \A j \in 1 .. Len(comms) : comms'[j] = comms[j]
BY AppendProperties

\* The deliveries fit after one of them has changed, if the tables only grow.
LEMMA DeliveryStep ==
    ASSUME TypeInv, NEW d \in Deliveries, NEW r \in Delivery, delivery' = [delivery EXCEPT ![d] = r],
           Len(comms') \in Nat, Len(comms) <= Len(comms'),
           \A t \in Threads : conversation[t] # Nil => conversation'[t] # Nil,
           r.row \in 0 .. Len(comms'),
           r.pc \in {"fetch", "store", "answer", "scan"} => r.row # 0,
           r.pc # "idle" => r.message \in Messages,
           r.pc = "write" /\ r.existing # Nil => conversation'[Thread[r.message]] # Nil
    PROVE  delivery' \in [Deliveries -> Delivery] /\ \A e \in Deliveries : DeliveryFits(e)'
<1>1. delivery' \in [Deliveries -> Delivery]
  BY DEF TypeInv
<1>2. ASSUME NEW e \in Deliveries PROVE DeliveryFits(e)'
  <2>1. CASE e = d
    <3>1. delivery'[e] = r
      BY <2>1 DEF TypeInv
    <3> QED BY <3>1 DEF DeliveryFits, HasRow
  <2>2. CASE e # d
    <3>1. delivery'[e] = delivery[e] /\ DeliveryFits(e)
      BY <2>2 DEF TypeInv
    <3>2. Len(comms) \in Nat
      BY DEF TypeInv
    <3>3. delivery[e].pc = "write" => Thread[delivery[e].message] \in Threads
      BY <3>1, InboxAssumption DEF DeliveryFits
    <3> QED BY <3>1, <3>2, <3>3 DEF DeliveryFits, HasRow
  <2> QED BY <2>1, <2>2
<1> QED BY <1>1, <1>2

LEMMA DeliveriesStay ==
    ASSUME TypeInv, delivery' = delivery, Len(comms') \in Nat, Len(comms) <= Len(comms'),
           \A t \in Threads : conversation[t] # Nil => conversation'[t] # Nil
    PROVE  delivery' \in [Deliveries -> Delivery] /\ \A e \in Deliveries : DeliveryFits(e)'
<1> SUFFICES ASSUME NEW e \in Deliveries PROVE DeliveryFits(e)'
  BY DEF TypeInv
<1>1. delivery'[e] = delivery[e] /\ DeliveryFits(e)
  BY DEF TypeInv
<1>2. Len(comms) \in Nat
  BY DEF TypeInv
<1>3. delivery[e].pc = "write" => Thread[delivery[e].message] \in Threads
  BY <1>1, InboxAssumption DEF DeliveryFits
<1> QED BY <1>1, <1>2, <1>3 DEF DeliveryFits, HasRow

\* The same for the advisers.
LEMMA TaskStep ==
    ASSUME TypeInv, NEW a \in Advisers, NEW r \in Task, task' = [task EXCEPT ![a] = r],
           \A t \in Threads : conversation[t] # Nil => conversation'[t] # Nil,
           r.pc # "idle" => r.thread \in Threads /\ conversation[r.thread] # Nil,
           r.pc = "record" => r.outcome \in {"sent", "failed"}
    PROVE  task' \in [Advisers -> Task] /\ \A b \in Advisers : TaskFits(b)'
<1>1. task' \in [Advisers -> Task]
  BY DEF TypeInv
<1>2. ASSUME NEW b \in Advisers PROVE TaskFits(b)'
  <2>1. task'[b] = (IF b = a THEN r ELSE task[b]) /\ TaskFits(b)
    BY DEF TypeInv
  <2> QED BY <2>1 DEF TaskFits
<1> QED BY <1>1, <1>2

LEMMA TasksStay ==
    ASSUME TypeInv, task' = task,
           \A t \in Threads : conversation[t] # Nil => conversation'[t] # Nil
    PROVE  task' \in [Advisers -> Task] /\ \A b \in Advisers : TaskFits(b)'
BY DEF TypeInv, TaskFits

\* One conversation is written, and stays a conversation.
LEMMA ConversationStep ==
    ASSUME TypeInv, NEW t \in Threads, NEW row \in Conversation,
           conversation' = [conversation EXCEPT ![t] = row]
    PROVE  /\ conversation' \in [Threads -> Conversation \cup {Nil}]
           /\ \A u \in Threads : conversation[u] # Nil => conversation'[u] # Nil
           /\ \A u \in Threads : conversation'[u] = (IF u = t THEN row ELSE conversation[u])
BY NilIsNoRow DEF TypeInv

\* Relabelling the messages of a thread keeps them and their places.
LEMMA Relabelled ==
    ASSUME comms \in Seq(Communication), NEW t \in Threads, NEW c \in Clients,
           comms' = [i \in DOMAIN comms |->
              IF comms[i].thread = t THEN [comms[i] EXCEPT !.client = c] ELSE comms[i]]
    PROVE  /\ comms' \in Seq(Communication) /\ Len(comms') = Len(comms)
           /\ \A i \in 1 .. Len(comms) :
                 comms'[i] = (IF comms[i].thread = t THEN [comms[i] EXCEPT !.client = c]
                              ELSE comms[i])
<1>1. DOMAIN comms = 1 .. Len(comms) /\ Len(comms) \in Nat
  OBVIOUS
<1>2. \A i \in 1 .. Len(comms) :
         (IF comms[i].thread = t THEN [comms[i] EXCEPT !.client = c] ELSE comms[i])
            \in Communication
  <2>1. \A i \in 1 .. Len(comms) : comms[i] \in Communication
    BY ElementOfSeq
  <2> QED BY <2>1, ColumnsTyped
<1>3. comms' \in [1 .. Len(comms) -> Communication]
  BY <1>1, <1>2
<1>4. comms' \in Seq(Communication)
  BY <1>1, <1>3, SeqDef
<1>5. Len(comms') = Len(comms)
  BY <1>1, <1>3, <1>4
<1> QED BY <1>1, <1>4, <1>5

LEMMA MatchTyped ==
    ASSUME NEW number
    PROVE  Match(number) # Nil => Match(number) \in Clients /\ <<number, Match(number)>> \in confirmed
<1> DEFINE owners == {c \in Clients : <<number, c>> \in confirmed}
<1>1. CASE owners = {}
  <2>1. Cardinality(owners) = 0
    BY <1>1, FS_EmptySet
  <2> QED BY <2>1 DEF Match
<1>2. CASE owners # {}
  <2>1. (CHOOSE c \in owners : TRUE) \in owners
    BY <1>2
  <2> QED BY <2>1 DEF Match
<1> QED BY <1>1, <1>2

LEMMA TypeInvInit == Init => TypeInv
<1> SUFFICES ASSUME Init PROVE TypeInv
  OBVIOUS
<1>1. comms \in Seq(Communication) /\ Len(comms) = 0
  BY EmptySeq DEF Init
<1>2. delivery \in [Deliveries -> Delivery] /\ \A d \in Deliveries : DeliveryFits(d)
  BY <1>1, NoneTyped DEF Init, DeliveryFits, HasRow
<1>3. task \in [Advisers -> Task] /\ \A a \in Advisers : TaskFits(a)
  BY NoneTyped DEF Init, TaskFits
<1> QED BY <1>1, <1>2, <1>3, InboxAssumption DEF Init, TypeInv

LEMMA ServeTyped ==
    ASSUME TypeInv, NEW d \in Deliveries, Serve(d) \/ Crash(d) \/ \E m \in Messages : HandIn(d, m)
    PROVE  TypeInv'
<1> USE InboxAssumption
<1>t. /\ conversation \in [Threads -> Conversation \cup {Nil}]
      /\ comms \in Seq(Communication)
      /\ delivery \in [Deliveries -> Delivery]
      /\ accepted \cup dropped \subseteq Messages
      /\ mishaps \in 0 .. MaxMishaps
  BY DEF TypeInv
<1>0. /\ delivery[d] \in Delivery /\ DeliveryFits(d) /\ Len(comms) \in Nat
      /\ DOMAIN comms = 1 .. Len(comms) /\ Len(comms) <= Len(comms)
      /\ 0 \in 0 .. Len(comms)
  BY DEF TypeInv
<1>m. Mishap => mishaps' \in 0 .. MaxMishaps
  BY <1>t DEF Mishap
<1>1. ASSUME NEW m \in Messages, HandIn(d, m) PROVE TypeInv'
  <2> DEFINE r == [NoDelivery EXCEPT !.pc = "route", !.message = m]
  <2>1. r \in Delivery /\ r.pc = "route" /\ r.message = m /\ r.row = 0
    BY DEF NoDelivery, Delivery
  <2>2. delivery' = [delivery EXCEPT ![d] = r] /\ UNCHANGED <<stored, task, accepted, dropped>>
    BY <1>t, <1>1 DEF HandIn
  <2> HIDE DEF r
  <2>3. delivery' \in [Deliveries -> Delivery] /\ \A e \in Deliveries : DeliveryFits(e)'
    BY <1>t, <1>0, <2>1, <2>2, DeliveryStep DEF stored
  <2>4. mishaps' \in 0 .. MaxMishaps
    BY <1>t, <1>1, <1>m DEF HandIn
  <2>5. \A a \in Advisers : TaskFits(a)'
    BY <2>2, TasksStay DEF stored
  <2> QED BY <2>2, <2>3, <2>4, <2>5 DEF stored, TypeInv
<1>2. CASE Route(d)
  <2>1. /\ [delivery[d] EXCEPT !.pc = "receive"] \in Delivery
        /\ [delivery[d] EXCEPT !.pc = "receive"].pc = "receive"
        /\ [delivery[d] EXCEPT !.pc = "receive"].row = delivery[d].row
        /\ [delivery[d] EXCEPT !.pc = "receive"].message = delivery[d].message
    BY <1>t, <1>0 DEF Delivery
  <2>2. PICK r \in Delivery :
           /\ delivery' = [delivery EXCEPT ![d] = r]
           /\ r.pc \in {"idle", "receive"} /\ r.row \in 0 .. Len(comms)
           /\ r.pc # "idle" => r.message \in Messages
    <3>1. CASE delivery' = [delivery EXCEPT ![d].pc = "receive"]
      BY <1>0, <1>2, <2>1, <3>1 DEF DeliveryFits, Route
    <3>2. CASE delivery' = [delivery EXCEPT ![d] = NoDelivery]
      BY <1>0, <3>2, NoneTyped
    <3> QED BY <1>2, <3>1, <3>2 DEF Route
  <2>3. delivery' \in [Deliveries -> Delivery] /\ \A e \in Deliveries : DeliveryFits(e)'
    BY <1>t, <1>0, <1>2, <2>2, DeliveryStep DEF stored, Route
  <2>4. mishaps' \in 0 .. MaxMishaps
    BY <1>t, <1>2, <1>m DEF Route
  <2>5. \A a \in Advisers : TaskFits(a)'
    BY <1>t, <1>2, TasksStay DEF stored, Route
  <2>6. accepted' \cup dropped' \subseteq Messages
    BY <1>t, <1>0, <1>2 DEF Route, DeliveryFits
  <2> QED BY <1>2, <2>3, <2>4, <2>5, <2>6 DEF stored, Route, TypeInv
<1>3. CASE Receive(d)
  <2> DEFINE t == Thread[delivery[d].message]
             r == [delivery[d] EXCEPT !.pc = "write", !.match = Match(Number[t]),
                                      !.existing = conversation[t]]
  <2>1. t \in Threads /\ delivery[d].message \in Messages
    BY <1>t, <1>0, <1>3 DEF Receive, DeliveryFits
  <2>2. Match(Number[t]) \in Clients \cup {Nil}
    BY MatchTyped
  <2>3. /\ r \in Delivery /\ r.pc = "write" /\ r.message = delivery[d].message
        /\ r.existing = conversation[t] /\ r.row = delivery[d].row
    BY <1>t, <1>0, <2>1, <2>2 DEF Delivery
  <2>4. delivery' = [delivery EXCEPT ![d] = r] /\ UNCHANGED <<stored, task, outside>>
    BY <1>t, <1>3 DEF Receive
  <2> HIDE DEF r
  <2>5. delivery' \in [Deliveries -> Delivery] /\ \A e \in Deliveries : DeliveryFits(e)'
    BY <1>t, <1>0, <2>1, <2>3, <2>4, DeliveryStep DEF stored, DeliveryFits
  <2>6. \A a \in Advisers : TaskFits(a)'
    BY <2>4, TasksStay DEF stored
  <2> QED BY <2>4, <2>5, <2>6 DEF stored, outside, TypeInv
<1>4. CASE Write(d)
  <2> DEFINE m == delivery[d].message
             t == Thread[m]
             found == delivery[d].existing # Nil
             client == IF found /\ delivery[d].existing.client # Nil
                         THEN delivery[d].existing.client ELSE delivery[d].match
             row == IF found THEN Reopened(conversation[t])
                    ELSE [client |-> delivery[d].match, status |-> "open", due |-> TRUE,
                          unread |-> TRUE]
             r == [NoDelivery EXCEPT !.pc = IF m \in WithFile THEN "fetch" ELSE "answer",
                                     !.message = m, !.client = client, !.row = Len(comms) + 1]
  <2>1. m \in Messages /\ t \in Threads
    BY <1>t, <1>0, <1>4 DEF Write, DeliveryFits
  <2>2. client \in Clients \cup {Nil} /\ delivery[d].match \in Clients \cup {Nil}
    <3>1. found => delivery[d].existing \in Conversation
      BY <1>0, DeliveryTypes
    <3>2. found => delivery[d].existing.client \in Clients \cup {Nil}
      BY <3>1 DEF Conversation
    <3> QED BY <1>0, <3>2, DeliveryTypes
  <2>3. row \in Conversation
    <3>1. CASE found
      <4>1. conversation[t] \in Conversation
        BY <1>t, <1>0, <1>4, <2>1, <3>1 DEF Write, DeliveryFits
      <4> QED BY <3>1, <4>1, RowsOfConversation
    <3>2. CASE ~found
      BY <2>2, <3>2 DEF Conversation, Statuses
    <3> QED BY <3>1, <3>2
  <2>4. /\ conversation' = [conversation EXCEPT ![t] = row]
        /\ comms' = Append(comms, Row(t, m, client, "inbound"))
        /\ delivery' = [delivery EXCEPT ![d] = r]
        /\ UNCHANGED <<confirmed, carried, task, outside>>
    BY <1>t, <1>4 DEF Write
  <2>5. /\ r \in Delivery /\ r.pc \in {"fetch", "answer"} /\ r.message = m
        /\ r.row = Len(comms) + 1
    <3> HIDE DEF client
    <3>1. Len(comms) + 1 \in Nat
      BY <1>0
    <3>2. (IF m \in WithFile THEN "fetch" ELSE "answer") \in {"fetch", "answer"}
      OBVIOUS
    <3> QED BY <2>1, <2>2, <3>1, <3>2 DEF NoDelivery, Delivery
  <2> HIDE DEF row, r, client, found
  <2>6. /\ conversation' \in [Threads -> Conversation \cup {Nil}]
        /\ \A u \in Threads : conversation[u] # Nil => conversation'[u] # Nil
    BY <2>1, <2>3, <2>4, ConversationStep
  <2>7. comms' \in Seq(Communication) /\ Len(comms') = Len(comms) + 1
    BY <1>t, <2>1, <2>2, <2>4, RowTyped, OneAppended
  <2>8. delivery' \in [Deliveries -> Delivery] /\ \A e \in Deliveries : DeliveryFits(e)'
    <3>1. r.row \in 0 .. Len(comms') /\ r.row # 0 /\ Len(comms') \in Nat /\ Len(comms) <= Len(comms')
      BY <1>0, <2>5, <2>7
    <3> QED BY <2>1, <2>4, <2>5, <2>6, <3>1, DeliveryStep
  <2>9. \A a \in Advisers : TaskFits(a)'
    BY <2>4, <2>6, TasksStay
  <2> QED BY <2>4, <2>6, <2>7, <2>8, <2>9 DEF outside, TypeInv
<1>5. CASE InsertRefused(d) \/ Crash(d)
  <2>1. delivery' = [delivery EXCEPT ![d] = NoDelivery] /\ UNCHANGED <<stored, task, accepted, dropped>>
    BY <1>t, <1>5 DEF InsertRefused, Crash, outside
  <2>2. delivery' \in [Deliveries -> Delivery] /\ \A e \in Deliveries : DeliveryFits(e)'
    BY <1>t, <1>0, <2>1, NoneTyped, DeliveryStep DEF stored
  <2>3. mishaps' \in 0 .. MaxMishaps
    BY <1>t, <1>5, <1>m DEF InsertRefused, Crash, outside
  <2>4. \A a \in Advisers : TaskFits(a)'
    BY <2>1, TasksStay DEF stored
  <2> QED BY <2>1, <2>2, <2>3, <2>4 DEF stored, TypeInv
<1>6. CASE Fetch(d)
  <2> DEFINE r == [delivery[d] EXCEPT !.pc = "store", !.match = comms[delivery[d].row].client]
  <2>1. delivery[d].row \in 1 .. Len(comms)
    BY <1>t, <1>0, <1>6 DEF Fetch, DeliveryFits, HasRow
  <2>2. comms[delivery[d].row].client \in Clients \cup {Nil}
    <3>1. comms[delivery[d].row] \in Communication
      BY <1>t, <2>1, ElementOfSeq
    <3> QED BY <3>1 DEF Communication
  <2>3. /\ r \in Delivery /\ r.pc = "store" /\ r.message = delivery[d].message
        /\ r.row = delivery[d].row
    BY <1>t, <1>0, <2>2 DEF Delivery
  <2>4. delivery' = [delivery EXCEPT ![d] = r] /\ UNCHANGED <<stored, task, outside>>
    BY <1>t, <1>6 DEF Fetch
  <2> HIDE DEF r
  <2>5. delivery' \in [Deliveries -> Delivery] /\ \A e \in Deliveries : DeliveryFits(e)'
    <3>1. delivery[d].message \in Messages
      BY <1>0, <1>6 DEF DeliveryFits, Fetch
    <3>2. r.row \in 0 .. Len(comms) /\ r.row # 0
      BY <1>0, <2>1, <2>3
    <3> QED BY <1>0, <2>3, <2>4, <3>1, <3>2, DeliveryStep DEF stored
  <2>6. \A a \in Advisers : TaskFits(a)'
    BY <2>4, TasksStay DEF stored
  <2> QED BY <2>4, <2>5, <2>6 DEF stored, outside, TypeInv
<1>7. CASE Store(d)
  <2> DEFINE r == [delivery[d] EXCEPT !.pc = "answer", !.match = Nil]
  <2>1. delivery[d].row \in 1 .. Len(comms)
    BY <1>t, <1>0, <1>7 DEF Store, DeliveryFits, HasRow
  <2>2. r \in Delivery /\ r.pc = "answer" /\ r.message = delivery[d].message /\ r.row = delivery[d].row
    BY <1>t, <1>0 DEF Delivery
  <2>3. /\ delivery' = [delivery EXCEPT ![d] = r]
        /\ UNCHANGED <<conversation, confirmed, carried, task, accepted, dropped>>
    BY <1>t, <1>7 DEF Store
  <2>4. comms' \in Seq(Communication) /\ Len(comms') = Len(comms)
    <3>1. comms[delivery[d].row] \in Communication /\ delivery[d].match \in Clients \cup {Nil}
      BY <1>t, <1>0, <2>1, ElementOfSeq, DeliveryTypes
    <3>2. Ingested(comms[delivery[d].row], delivery[d].match) \subseteq Communication
      BY <3>1, ColumnsTyped
    <3>3. CASE UNCHANGED comms
      BY <1>t, <3>3
    <3>4. ASSUME NEW row \in Ingested(comms[delivery[d].row], delivery[d].match),
                 comms' = [comms EXCEPT ![delivery[d].row] = row]
          PROVE  comms' \in Seq(Communication) /\ Len(comms') = Len(comms)
      BY <1>t, <2>1, <3>2, <3>4, OneWritten
    <3> QED BY <1>7, <3>3, <3>4 DEF Store
  <2>5. mishaps' \in 0 .. MaxMishaps
    BY <1>t, <1>7, <1>m DEF Store
  <2> HIDE DEF r
  <2>6. delivery' \in [Deliveries -> Delivery] /\ \A e \in Deliveries : DeliveryFits(e)'
    <3>1. delivery[d].message \in Messages
      BY <1>0, <1>7 DEF DeliveryFits, Store
    <3>2. r.row \in 0 .. Len(comms') /\ r.row # 0
      BY <1>0, <2>1, <2>2, <2>4
    <3> QED BY <1>0, <2>2, <2>3, <2>4, <3>1, <3>2, DeliveryStep
  <2>7. \A a \in Advisers : TaskFits(a)'
    BY <2>3, TasksStay
  <2> QED BY <2>3, <2>4, <2>5, <2>6, <2>7 DEF TypeInv
<1>8. CASE Answer(d)
  <2> DEFINE r == [delivery[d] EXCEPT !.pc = "scan"]
  <2>1. r \in Delivery /\ r.pc = "scan" /\ r.message = delivery[d].message /\ r.row = delivery[d].row
    BY <1>t, <1>0 DEF Delivery
  <2>2. delivery' = [delivery EXCEPT ![d] = r] /\ UNCHANGED <<stored, task, dropped, mishaps>>
    BY <1>t, <1>8 DEF Answer
  <2> HIDE DEF r
  <2>3. delivery' \in [Deliveries -> Delivery] /\ \A e \in Deliveries : DeliveryFits(e)'
    <3>1. delivery[d].message \in Messages /\ delivery[d].row \in 1 .. Len(comms)
      BY <1>0, <1>8 DEF DeliveryFits, Answer, HasRow
    <3>2. r.row \in 0 .. Len(comms) /\ r.row # 0
      BY <1>0, <2>1, <3>1
    <3> QED BY <1>0, <2>1, <2>2, <3>1, <3>2, DeliveryStep DEF stored
  <2>4. \A a \in Advisers : TaskFits(a)'
    BY <2>2, TasksStay DEF stored
  <2>5. accepted' \cup dropped' \subseteq Messages
    BY <1>t, <1>0, <1>8 DEF Answer, DeliveryFits
  <2> QED BY <2>2, <2>3, <2>4, <2>5 DEF stored, TypeInv
<1>9. CASE Scan(d)
  <2> DEFINE i == delivery[d].row
  <2>1. i \in 1 .. Len(comms)
    BY <1>t, <1>0, <1>9 DEF Scan, DeliveryFits, HasRow
  <2>2. comms' \in Seq(Communication) /\ Len(comms') = Len(comms)
    <3>1. comms[i] \in Communication
      BY <1>t, <2>1, ElementOfSeq
    <3>2. ASSUME NEW found \in {"nothing", "proposed"}, comms' = [comms EXCEPT ![i].assessed = found]
          PROVE  comms' \in Seq(Communication) /\ Len(comms') = Len(comms)
      <4>1. comms' = [comms EXCEPT ![i] = [comms[i] EXCEPT !.assessed = found]]
        BY <3>2
      <4> QED BY <1>t, <2>1, <3>1, <4>1, ColumnsTyped, OneWritten
    <3> QED BY <1>t, <1>9, <3>2 DEF Scan
  <2>3. /\ delivery' = [delivery EXCEPT ![d] = NoDelivery]
        /\ UNCHANGED <<conversation, confirmed, carried, task, outside>>
    BY <1>t, <1>9 DEF Scan
  <2>4. delivery' \in [Deliveries -> Delivery] /\ \A e \in Deliveries : DeliveryFits(e)'
    BY <1>t, <1>0, <2>2, <2>3, NoneTyped, DeliveryStep
  <2>5. \A a \in Advisers : TaskFits(a)'
    BY <2>3, TasksStay
  <2> QED BY <2>2, <2>3, <2>4, <2>5 DEF outside, TypeInv
<1> QED BY <1>1, <1>2, <1>3, <1>4, <1>5, <1>6, <1>7, <1>8, <1>9 DEF Serve

LEMMA AdviserTyped ==
    ASSUME TypeInv, NEW a \in Advisers, Adviser(a)
    PROVE  TypeInv'
<1> USE InboxAssumption
<1>t. /\ conversation \in [Threads -> Conversation \cup {Nil}]
      /\ comms \in Seq(Communication) /\ carried \in [Threads -> Nat]
      /\ task \in [Advisers -> Task]
      /\ \A pair \in confirmed : pair[2] \in Clients
      /\ mishaps \in 0 .. MaxMishaps
  BY DEF TypeInv
<1>0. /\ task[a] \in Task /\ TaskFits(a) /\ Len(comms) \in Nat /\ Len(comms) <= Len(comms)
      /\ DOMAIN comms = 1 .. Len(comms)
      /\ \A i \in 1 .. Len(comms) : comms[i] \in Communication
  BY DEF TypeInv
<1>m. Mishap => mishaps' \in 0 .. MaxMishaps
  BY <1>t DEF Mishap
<1>1. ASSUME NEW t \in Threads, Open(a, t) PROVE TypeInv'
  <2> DEFINE r == [NoTask EXCEPT !.pc = "opened", !.thread = t, !.client = conversation[t].client]
  <2>1. conversation[t] \in Conversation
    BY <1>t, <1>1 DEF Open
  <2>2. r \in Task /\ r.pc = "opened" /\ r.thread = t
    BY <2>1 DEF NoTask, Task, Conversation
  <2>3. task' = [task EXCEPT ![a] = r] /\ UNCHANGED <<stored, delivery, outside>>
    BY <1>1 DEF Open
  <2> HIDE DEF r
  <2>4. task' \in [Advisers -> Task] /\ \A b \in Advisers : TaskFits(b)'
    <3>1. /\ r \in Task /\ task' = [task EXCEPT ![a] = r]
          /\ conversation' = conversation
      BY <2>2, <2>3 DEF stored
    <3>2. r.pc # "record" /\ r.thread \in Threads /\ conversation[r.thread] # Nil
      BY <1>1, <2>2 DEF Open
    <3> QED BY <3>1, <3>2, <2>2, TaskStep
  <2>5. \A e \in Deliveries : DeliveryFits(e)'
    BY <1>0, <2>3, DeliveriesStay DEF stored
  <2> QED BY <2>3, <2>4, <2>5 DEF stored, outside, TypeInv
<1>2. CASE MarkRead(a)
  <2> DEFINE t == task[a].thread
             row == [conversation[t] EXCEPT !.unread = FALSE]
             r == [task[a] EXCEPT !.pc = "page"]
  <2>1. t \in Threads /\ conversation[t] \in Conversation
    BY <1>t, <1>0, <1>2 DEF MarkRead, TaskFits
  <2>2. row \in Conversation
    BY <2>1, RowsOfConversation
  <2>3. /\ conversation' = [conversation EXCEPT ![t] = row]
        /\ task' = [task EXCEPT ![a] = r]
        /\ UNCHANGED <<comms, confirmed, carried, delivery, outside>>
    BY <1>2 DEF MarkRead
  <2>4. r \in Task /\ r.pc = "page" /\ r.thread = t
    BY <1>0 DEF Task
  <2>5. /\ conversation' \in [Threads -> Conversation \cup {Nil}]
        /\ \A u \in Threads : conversation[u] # Nil => conversation'[u] # Nil
    BY <2>1, <2>2, <2>3, ConversationStep
  <2> HIDE DEF r, row
  <2>6. task' \in [Advisers -> Task] /\ \A b \in Advisers : TaskFits(b)'
    BY <2>1, <2>3, <2>4, <2>5, NilIsNoRow, TaskStep
  <2>7. \A e \in Deliveries : DeliveryFits(e)'
    BY <1>0, <2>3, <2>5, DeliveriesStay
  <2> QED BY <2>3, <2>5, <2>6, <2>7 DEF outside, TypeInv
<1>3. CASE Leave(a)
  <2>1. task' = [task EXCEPT ![a] = NoTask] /\ UNCHANGED <<stored, delivery, outside>>
    BY <1>3 DEF Leave
  <2>2. task' \in [Advisers -> Task] /\ \A b \in Advisers : TaskFits(b)'
    BY <2>1, NoneTyped, TaskStep DEF stored
  <2>3. \A e \in Deliveries : DeliveryFits(e)'
    BY <1>0, <2>1, DeliveriesStay DEF stored
  <2> QED BY <2>1, <2>2, <2>3 DEF stored, outside, TypeInv
<1>4. ASSUME NEW c \in Clients, LinkConversation(a, c) PROVE TypeInv'
  <2> DEFINE t == task[a].thread
             row == [conversation[t] EXCEPT !.client = c]
  <2>1. t \in Threads /\ conversation[t] \in Conversation
    BY <1>t, <1>0, <1>4 DEF LinkConversation, TaskFits
  <2>2. row \in Conversation
    BY <2>1, RowsOfConversation
  <2>3. /\ conversation' = [conversation EXCEPT ![t] = row]
        /\ task' = [task EXCEPT ![a] = NoTask]
        /\ UNCHANGED <<carried, delivery, outside>>
    BY <1>4 DEF LinkConversation
  <2> HIDE DEF t, row
  <2>4. comms' \in Seq(Communication) /\ Len(comms') = Len(comms)
    <3>1. comms' = [i \in DOMAIN comms |->
              IF comms[i].thread = t THEN [comms[i] EXCEPT !.client = c] ELSE comms[i]]
      BY <1>4 DEF LinkConversation, t
    <3>2. comms \in Seq(Communication) /\ t \in Threads
      BY <1>t, <2>1
    <3> QED BY <3>1, <3>2, Relabelled
  <2>5. \A pair \in confirmed' : pair[2] \in Clients
    BY <1>t, <1>4 DEF LinkConversation, Remembered
  <2>6. /\ conversation' \in [Threads -> Conversation \cup {Nil}]
        /\ \A u \in Threads : conversation[u] # Nil => conversation'[u] # Nil
    BY <2>1, <2>2, <2>3, ConversationStep
  <2>7. task' \in [Advisers -> Task] /\ \A b \in Advisers : TaskFits(b)'
    BY <2>3, <2>6, NoneTyped, TaskStep
  <2>8. \A e \in Deliveries : DeliveryFits(e)'
    BY <1>0, <2>3, <2>4, <2>6, DeliveriesStay
  <2> QED BY <2>3, <2>4, <2>5, <2>6, <2>7, <2>8 DEF outside, TypeInv
<1>5. CASE Close(a)
  <2> DEFINE t == task[a].thread
             row == Closed(conversation[t])
  <2>1. t \in Threads /\ conversation[t] \in Conversation
    BY <1>t, <1>0, <1>5 DEF Close, TaskFits
  <2>2. row \in Conversation
    BY <2>1, RowsOfConversation
  <2>3. /\ conversation' = [conversation EXCEPT ![t] = row]
        /\ task' = [task EXCEPT ![a] = NoTask]
        /\ UNCHANGED <<comms, confirmed, carried, delivery, outside>>
    BY <1>5 DEF Close
  <2>4. /\ conversation' \in [Threads -> Conversation \cup {Nil}]
        /\ \A u \in Threads : conversation[u] # Nil => conversation'[u] # Nil
    BY <2>1, <2>2, <2>3, ConversationStep
  <2>5. task' \in [Advisers -> Task] /\ \A b \in Advisers : TaskFits(b)'
    BY <2>3, <2>4, NoneTyped, TaskStep
  <2>6. \A e \in Deliveries : DeliveryFits(e)'
    BY <1>0, <2>3, <2>4, DeliveriesStay
  <2> QED BY <2>3, <2>4, <2>5, <2>6 DEF outside, TypeInv
<1>6. ASSUME NEW kind \in {"note", "reply", "letter"}, StartWriting(a, kind) PROVE TypeInv'
  <2> DEFINE client == IF kind = "letter" THEN task[a].client
                       ELSE conversation[task[a].thread].client
             r == [task[a] EXCEPT !.pc = kind, !.client = client]
  <2>1. task[a].thread \in Threads /\ conversation[task[a].thread] \in Conversation
    BY <1>t, <1>0, <1>6 DEF StartWriting, TaskFits
  <2>2. client \in Clients \cup {Nil}
    BY <1>0, <2>1, TaskTypes DEF Conversation
  <2>3. task' = [task EXCEPT ![a] = r] /\ UNCHANGED <<stored, delivery, outside>>
    BY <1>t, <1>6 DEF StartWriting
  <2> HIDE DEF client
  <2>4. r \in Task /\ r.pc = kind /\ r.thread = task[a].thread
    BY <1>0, <2>2 DEF Task
  <2> HIDE DEF r
  <2>5. task' \in [Advisers -> Task] /\ \A b \in Advisers : TaskFits(b)'
    BY <2>1, <2>3, <2>4, NilIsNoRow, TaskStep DEF stored
  <2>6. \A e \in Deliveries : DeliveryFits(e)'
    BY <1>0, <2>3, DeliveriesStay DEF stored
  <2> QED BY <2>3, <2>5, <2>6 DEF stored, outside, TypeInv
<1>7. CASE Send(a)
  <2>1. task[a].thread \in Threads /\ conversation[task[a].thread] # Nil
    BY <1>0, <1>7 DEF Send, TaskFits
  <2>2. UNCHANGED <<conversation, comms, confirmed, delivery, outside>>
    BY <1>7 DEF Send
  <2>3. carried' \in [Threads -> Nat]
    BY <1>t, <1>7, <2>1 DEF Send
  <2>4. task' \in [Advisers -> Task] /\ \A b \in Advisers : TaskFits(b)'
    <3>1. CASE task' = [task EXCEPT ![a] = NoTask]
      BY <2>2, <3>1, NoneTyped, TaskStep
    <3>2. ASSUME NEW outcome \in {"sent", "failed"},
                 task' = [task EXCEPT ![a].pc = "record", ![a].outcome = outcome]
          PROVE  task' \in [Advisers -> Task] /\ \A b \in Advisers : TaskFits(b)'
      <4> DEFINE r == [task[a] EXCEPT !.pc = "record", !.outcome = outcome]
      <4>1. r \in Task /\ r.pc = "record" /\ r.thread = task[a].thread /\ r.outcome = outcome
        BY <1>0 DEF Task
      <4>2. task' = [task EXCEPT ![a] = r]
        BY <1>t, <3>2
      <4> HIDE DEF r
      <4> QED BY <2>1, <2>2, <4>1, <4>2, TaskStep
    <3> QED BY <1>7, <3>1, <3>2 DEF Send
  <2>5. \A e \in Deliveries : DeliveryFits(e)'
    BY <1>0, <2>2, DeliveriesStay
  <2> QED BY <2>2, <2>3, <2>4, <2>5 DEF outside, TypeInv
<1>8. CASE Record(a)
  <2> DEFINE t == task[a].thread
             row == Touched(conversation[t], task[a].pc = "record")
  <2>1. t \in Threads /\ conversation[t] \in Conversation /\ task[a].client \in Clients \cup {Nil}
    BY <1>t, <1>0, <1>8, TaskTypes DEF Record, TaskFits
  <2>2. row \in Conversation
    BY <2>1, RowsOfConversation
  <2>3. /\ conversation' = [conversation EXCEPT ![t] = row]
        /\ comms' = Append(comms, Row(t, Nil, task[a].client, Outcome(a)))
        /\ task' = [task EXCEPT ![a] = NoTask]
        /\ UNCHANGED <<confirmed, carried, delivery, outside>>
    BY <1>8 DEF Record
  <2>4. Outcome(a) \in {"inbound", "note", "sent", "failed"}
    BY <1>0, <1>8 DEF Outcome, Record, TaskFits
  <2>5. comms' \in Seq(Communication) /\ Len(comms') = Len(comms) + 1
    BY <1>t, <2>1, <2>3, <2>4, RowTyped, OneAppended
  <2> HIDE DEF row
  <2>6. /\ conversation' \in [Threads -> Conversation \cup {Nil}]
        /\ \A u \in Threads : conversation[u] # Nil => conversation'[u] # Nil
    BY <2>1, <2>2, <2>3, ConversationStep
  <2>7. task' \in [Advisers -> Task] /\ \A b \in Advisers : TaskFits(b)'
    BY <2>3, <2>6, NoneTyped, TaskStep
  <2>8. \A e \in Deliveries : DeliveryFits(e)'
    BY <1>0, <2>3, <2>5, <2>6, DeliveriesStay
  <2> QED BY <2>3, <2>5, <2>6, <2>7, <2>8 DEF outside, TypeInv
<1>9. CASE Die(a)
  <2>1. /\ task' = [task EXCEPT ![a] = NoTask] /\ UNCHANGED <<stored, delivery, accepted, dropped>>
        /\ mishaps' \in 0 .. MaxMishaps
    BY <1>9, <1>m DEF Die
  <2>2. task' \in [Advisers -> Task] /\ \A b \in Advisers : TaskFits(b)'
    BY <2>1, NoneTyped, TaskStep DEF stored
  <2>3. \A e \in Deliveries : DeliveryFits(e)'
    BY <1>0, <2>1, DeliveriesStay DEF stored
  <2> QED BY <2>1, <2>2, <2>3 DEF stored, TypeInv
<1>10. ASSUME NEW i \in DOMAIN comms, FileAttachment(a, i) \/ RejectAttachment(a, i) PROVE TypeInv'
  <2>1. /\ task' = [task EXCEPT ![a] = NoTask]
        /\ UNCHANGED <<conversation, confirmed, carried, delivery, outside>>
    BY <1>10 DEF FileAttachment, RejectAttachment
  <2>2. comms[i] \in Communication /\ i \in 1 .. Len(comms)
    BY <1>0
  <2>3. comms' \in Seq(Communication) /\ Len(comms') = Len(comms)
    <3>1. CASE FileAttachment(a, i)
      <4>1. comms' = [comms EXCEPT ![i] = [comms[i] EXCEPT !.document = "filed",
                                                          !.holder = task[a].client]]
        BY <1>t, <3>1 DEF FileAttachment
      <4>2. task[a].client \in Clients
        BY <1>0, <3>1, TaskTypes DEF FileAttachment
      <4>3. [comms[i] EXCEPT !.document = "filed", !.holder = task[a].client] \in Communication
        BY <2>2, <4>2, ColumnsTyped
      <4> QED BY <1>t, <2>2, <4>1, <4>3, OneWritten
    <3>2. CASE RejectAttachment(a, i)
      <4>1. comms' = [comms EXCEPT ![i] = [comms[i] EXCEPT !.file = "skipped"]]
        BY <3>2 DEF RejectAttachment
      <4>2. [comms[i] EXCEPT !.file = "skipped"] \in Communication
        BY <2>2, ColumnsTyped
      <4> QED BY <1>t, <2>2, <4>1, <4>2, OneWritten
    <3> QED BY <1>10, <3>1, <3>2
  <2>4. task' \in [Advisers -> Task] /\ \A b \in Advisers : TaskFits(b)'
    BY <2>1, NoneTyped, TaskStep
  <2>5. \A e \in Deliveries : DeliveryFits(e)'
    BY <1>0, <2>1, <2>3, DeliveriesStay
  <2> QED BY <2>1, <2>3, <2>4, <2>5 DEF outside, TypeInv
<1> QED BY <1>1, <1>2, <1>3, <1>4, <1>5, <1>6, <1>7, <1>8, <1>9, <1>10 DEF Adviser

LEMMA TypeInvStep == TypeInv /\ [Next]_vars => TypeInv'
<1> SUFFICES ASSUME TypeInv, [Next]_vars PROVE TypeInv'
  OBVIOUS
<1>1. CASE UNCHANGED vars
  BY <1>1 DEF vars, TypeInv, DeliveryFits, HasRow, TaskFits
<1>2. ASSUME NEW d \in Deliveries, Serve(d) \/ Crash(d) \/ \E m \in Messages : HandIn(d, m)
      PROVE  TypeInv'
  BY <1>2, ServeTyped
<1>3. ASSUME NEW a \in Advisers, Adviser(a)
      PROVE  TypeInv'
  BY <1>3, AdviserTyped
<1> QED BY <1>1, <1>2, <1>3 DEF Next, Provider

\* Every reachable state of the conversations, the deliveries and the pages on
\* the advisers' screens is well typed.
THEOREM TypeCorrect == Spec => []TypeOK
<1>1. TypeInv => TypeOK
  <2> SUFFICES ASSUME TypeInv PROVE TypeOK
    OBVIOUS
  <2>1. \A i \in DOMAIN comms : comms[i] \in Communication
    BY DEF TypeInv
  <2>2. ASSUME NEW d \in Deliveries
        PROVE  /\ delivery[d].pc \in {"idle", "route", "receive", "write", "fetch", "store",
                                      "answer", "scan"}
               /\ delivery[d].row \in 0 .. Len(comms)
               /\ delivery[d].pc \in {"fetch", "store", "answer", "scan"} => delivery[d].row # 0
    <3>1. delivery[d] \in Delivery /\ DeliveryFits(d)
      BY DEF TypeInv
    <3> QED BY <3>1 DEF Delivery, DeliveryFits, HasRow
  <2>3. ASSUME NEW a \in Advisers
        PROVE  /\ task[a].pc \in {"idle", "opened", "page", "note", "reply", "letter", "record"}
               /\ task[a].pc # "idle" => task[a].thread \in Threads
               /\ task[a].client \in Clients \cup {Nil}
    <3>1. task[a] \in Task /\ TaskFits(a)
      BY DEF TypeInv
    <3> QED BY <3>1 DEF Task, TaskFits
  <2> QED BY <2>1, <2>2, <2>3 DEF TypeInv, TypeOK
<1> QED BY <1>1, TypeInvInit, TypeInvStep, PTL DEF Spec

-----------------------------------------------------------------------------
(* What a step does to one row of each table. *)

Serving == \E d \in Deliveries : \/ Serve(d) \/ Crash(d)
                                 \/ \E m \in Messages : HandIn(d, m)
Advising == \E a \in Advisers : Adviser(a)

LEMMA NextSplit ==
    ASSUME [Next]_vars
    PROVE  Serving \/ Advising \/ UNCHANGED vars
BY DEF Next, Provider, Serving, Advising

\* A row as receiveInbound inserts it for delivery d.
Inserted(d, row) ==
    /\ delivery[d].pc = "write" /\ delivery[d].existing = Nil
    /\ row = [client |-> delivery[d].match, status |-> "open", due |-> TRUE, unread |-> TRUE]

LEMMA ConversationEffect ==
    ASSUME TypeInv, [Next]_vars, NEW t \in Threads
    PROVE  \/ conversation'[t] = conversation[t]
           \/ /\ conversation[t] \in Conversation
              /\ \/ conversation'[t] \in {Reopened(conversation[t]), Closed(conversation[t]),
                                          Touched(conversation[t], TRUE),
                                          Touched(conversation[t], FALSE),
                                          [conversation[t] EXCEPT !.unread = FALSE]}
                 \/ \E c \in Clients : /\ conversation'[t] = [conversation[t] EXCEPT !.client = c]
                                       /\ <<Number[t], c>> \in confirmed'
           \/ \E d \in Deliveries : /\ Inserted(d, conversation'[t])
                                    /\ Thread[delivery[d].message] = t
<1> DEFINE Effect ==
      \/ conversation'[t] = conversation[t]
      \/ /\ conversation[t] \in Conversation
         /\ \/ conversation'[t] \in {Reopened(conversation[t]), Closed(conversation[t]),
                                     Touched(conversation[t], TRUE),
                                     Touched(conversation[t], FALSE),
                                     [conversation[t] EXCEPT !.unread = FALSE]}
            \/ \E c \in Clients : /\ conversation'[t] = [conversation[t] EXCEPT !.client = c]
                                  /\ <<Number[t], c>> \in confirmed'
      \/ \E d \in Deliveries : /\ Inserted(d, conversation'[t])
                               /\ Thread[delivery[d].message] = t
<1>t. /\ conversation \in [Threads -> Conversation \cup {Nil}]
      /\ \A d \in Deliveries : DeliveryFits(d)
      /\ \A a \in Advisers : TaskFits(a)
  BY DEF TypeInv
<1>1. CASE UNCHANGED conversation
  BY <1>1
<1>2. ASSUME NEW d \in Deliveries, Write(d)
      PROVE  Effect
  <2>1. CASE Thread[delivery[d].message] # t
    BY <1>t, <1>2, <2>1 DEF Write
  <2>2. CASE Thread[delivery[d].message] = t /\ delivery[d].existing # Nil
    <3>1. conversation[t] # Nil
      BY <1>t, <1>2, <2>2 DEF Write, DeliveryFits
    <3>2. conversation'[t] = Reopened(conversation[t])
      BY <1>t, <1>2, <2>2 DEF Write
    <3> QED BY <1>t, <3>1, <3>2
  <2>3. CASE Thread[delivery[d].message] = t /\ delivery[d].existing = Nil
    BY <1>t, <1>2, <2>3 DEF Write, Inserted
  <2> QED BY <2>1, <2>2, <2>3
<1>3. ASSUME NEW a \in Advisers, MarkRead(a) \/ Close(a) \/ Record(a)
      PROVE  Effect
  <2>1. CASE task[a].thread # t
    BY <1>t, <1>3, <2>1 DEF MarkRead, Close, Record
  <2>2. CASE task[a].thread = t
    <3>1. conversation[t] \in Conversation
      BY <1>t, <1>3, <2>2 DEF MarkRead, Close, Record, TaskFits
    <3>2. CASE MarkRead(a)
      BY <1>t, <2>2, <3>1, <3>2 DEF MarkRead
    <3>3. CASE Close(a)
      BY <1>t, <2>2, <3>1, <3>3 DEF Close
    <3>4. CASE Record(a)
      <4>1. conversation'[t] = Touched(conversation[t], task[a].pc = "record")
        BY <1>t, <2>2, <3>4 DEF Record
      <4> QED BY <3>1, <4>1
    <3> QED BY <1>3, <3>2, <3>3, <3>4
  <2> QED BY <2>1, <2>2
<1>4. ASSUME NEW a \in Advisers, NEW c \in Clients, LinkConversation(a, c)
      PROVE  Effect
  <2>1. CASE task[a].thread # t
    BY <1>t, <1>4, <2>1 DEF LinkConversation
  <2>2. CASE task[a].thread = t
    <3>1. conversation[t] \in Conversation
      BY <1>t, <1>4, <2>2 DEF LinkConversation, TaskFits
    <3>2. /\ conversation'[t] = [conversation[t] EXCEPT !.client = c]
          /\ <<Number[t], c>> \in confirmed'
      BY <1>t, <1>4, <2>2 DEF LinkConversation, Remembered
    <3> QED BY <3>1, <3>2
  <2> QED BY <2>1, <2>2
<1>5. ASSUME NEW d \in Deliveries,
             \/ Serve(d) /\ ~Write(d)
             \/ Crash(d)
             \/ \E m \in Messages : HandIn(d, m)
      PROVE  UNCHANGED conversation
  BY <1>5 DEF Serve, Route, Receive, InsertRefused, Fetch, Store, Answer, Scan, Crash, HandIn, stored
<1>6. ASSUME NEW a \in Advisers, Adviser(a), ~MarkRead(a), ~Close(a), ~Record(a),
             \A c \in Clients : ~LinkConversation(a, c)
      PROVE  UNCHANGED conversation
  BY <1>6 DEF Adviser, Open, Leave, StartWriting, Send, Die, FileAttachment, RejectAttachment, stored
<1>7. Effect
  BY <1>1, <1>2, <1>3, <1>4, <1>5, <1>6, NextSplit DEF Serving, Advising, vars
<1> QED BY <1>7

\* The UPDATEs of one communication.
LEMMA CommunicationEffect ==
    ASSUME TypeInv, [Next]_vars, NEW i \in 1 .. Len(comms), comms'[i] # comms[i]
    PROVE  \/ \E c \in Clients : /\ comms'[i] = [comms[i] EXCEPT !.client = c]
                                 /\ <<Number[comms[i].thread], c>> \in confirmed'
           \/ \E d \in Deliveries : /\ Store(d) /\ delivery[d].row = i
                                    /\ comms'[i] \in Ingested(comms[i], delivery[d].match)
           \/ \E d \in Deliveries, found \in {"nothing", "proposed"} :
                 /\ delivery[d].pc = "scan" /\ delivery[d].row = i
                 /\ MayAssess(comms[i], delivery[d].client)
                 /\ comms'[i] = [comms[i] EXCEPT !.assessed = found]
           \/ \E a \in Advisers :
                 /\ task[a].pc = "page" /\ task[a].thread = comms[i].thread
                 /\ task[a].client # Nil
                 /\ comms[i].document # "none" /\ comms[i].file = "stored"
                 /\ comms'[i] = [comms[i] EXCEPT !.document = "filed", !.holder = task[a].client]
           \/ comms'[i] = [comms[i] EXCEPT !.file = "skipped"]
<1>t. /\ comms \in Seq(Communication) /\ DOMAIN comms = 1 .. Len(comms) /\ Len(comms) \in Nat
      /\ \A a \in Advisers : TaskFits(a)
      /\ \A j \in 1 .. Len(comms) : comms[j] \in Communication
  BY DEF TypeInv
<1>1. ASSUME NEW row, comms' = Append(comms, row)
      PROVE  comms'[i] = comms[i]
  BY <1>t, <1>1
<1>2. ASSUME NEW d \in Deliveries, Write(d)
      PROVE  FALSE
  BY <1>1, <1>2 DEF Write
<1>3. ASSUME NEW a \in Advisers, Record(a)
      PROVE  FALSE
  BY <1>1, <1>3 DEF Record
<1>4. ASSUME NEW d \in Deliveries, Store(d)
      PROVE  delivery[d].row = i /\ comms'[i] \in Ingested(comms[i], delivery[d].match)
  BY <1>t, <1>4 DEF Store
<1>5. ASSUME NEW d \in Deliveries, Scan(d)
      PROVE  \E found \in {"nothing", "proposed"} :
                /\ delivery[d].pc = "scan" /\ delivery[d].row = i
                /\ MayAssess(comms[i], delivery[d].client)
                /\ comms'[i] = [comms[i] EXCEPT !.assessed = found]
  <2>1. PICK found \in {"nothing", "proposed"} :
           /\ MayAssess(comms[delivery[d].row], delivery[d].client)
           /\ comms' = [comms EXCEPT ![delivery[d].row].assessed = found]
    BY <1>5 DEF Scan
  <2>2. delivery[d].row = i
    BY <1>t, <2>1
  <2> QED BY <1>t, <1>5, <2>1, <2>2 DEF Scan
<1>6. ASSUME NEW a \in Advisers, NEW c \in Clients, LinkConversation(a, c)
      PROVE  /\ comms'[i] = [comms[i] EXCEPT !.client = c]
             /\ <<Number[comms[i].thread], c>> \in confirmed'
  <2>1. task[a].thread \in Threads
    BY <1>t, <1>6 DEF LinkConversation, TaskFits
  <2>2. comms'[i] = (IF comms[i].thread = task[a].thread THEN [comms[i] EXCEPT !.client = c]
                     ELSE comms[i])
    BY <1>t, <1>6 DEF LinkConversation
  <2> QED BY <1>6, <2>2 DEF LinkConversation, Remembered
<1>7. ASSUME NEW a \in Advisers, NEW j \in DOMAIN comms, FileAttachment(a, j)
      PROVE  /\ task[a].pc = "page" /\ task[a].thread = comms[i].thread /\ task[a].client # Nil
             /\ comms[i].document # "none" /\ comms[i].file = "stored"
             /\ comms'[i] = [comms[i] EXCEPT !.document = "filed", !.holder = task[a].client]
  <2>1. j = i
    BY <1>t, <1>7 DEF FileAttachment
  <2> QED BY <1>t, <1>7, <2>1 DEF FileAttachment
<1>8. ASSUME NEW a \in Advisers, NEW j \in DOMAIN comms, RejectAttachment(a, j)
      PROVE  comms'[i] = [comms[i] EXCEPT !.file = "skipped"]
  BY <1>t, <1>8 DEF RejectAttachment
<1>9. ASSUME NEW d \in Deliveries,
             \/ Serve(d) /\ ~Write(d) /\ ~Store(d) /\ ~Scan(d)
             \/ Crash(d)
             \/ \E m \in Messages : HandIn(d, m)
      PROVE  UNCHANGED comms
  BY <1>9 DEF Serve, Route, Receive, InsertRefused, Fetch, Answer, Crash, HandIn, stored
<1>10. ASSUME NEW a \in Advisers, Adviser(a), ~Record(a),
              \A c \in Clients : ~LinkConversation(a, c),
              \A j \in DOMAIN comms : ~FileAttachment(a, j) /\ ~RejectAttachment(a, j)
       PROVE  UNCHANGED comms
  BY <1>10 DEF Adviser, Open, MarkRead, Leave, Close, StartWriting, Send, Die, stored
<1> QED BY <1>2, <1>3, <1>4, <1>5, <1>6, <1>7, <1>8, <1>9, <1>10, NextSplit
        DEF Serving, Advising, vars

-----------------------------------------------------------------------------
(* The queue. *)

\* A row of the queue tells what it owes.
Tells(row) == /\ row.unread => row.due
              /\ row.due => row.status # "closed"

LEMMA TellingKept ==
    ASSUME NEW row \in Conversation, Tells(row)
    PROVE  /\ Tells(Reopened(row)) /\ Tells(Closed(row))
           /\ \A answered \in BOOLEAN : Tells(Touched(row, answered))
           /\ Tells([row EXCEPT !.unread = FALSE])
           /\ \A c \in Clients : Tells([row EXCEPT !.client = c])
BY DEF Conversation, Statuses, Reopened, Closed, Touched, Tells

\* What is unread is owed and what is owed is open, whatever arrives while
\* advisers close, answer and read (touch, setConversationStatus, receiveInbound).
THEOREM OwedShown == Spec => []OwedIsShown
<1> DEFINE Inv == TypeInv /\ OwedIsShown
<1>1. Init => Inv
  BY TypeInvInit DEF Init, OwedIsShown
<1>2. Inv /\ [Next]_vars => Inv'
  <2> SUFFICES ASSUME TypeInv, OwedIsShown, [Next]_vars PROVE TypeInv' /\ OwedIsShown'
    OBVIOUS
  <2>1. TypeInv'
    BY TypeInvStep
  <2>2. ASSUME NEW t \in Threads, conversation'[t] # Nil
        PROVE  Tells(conversation'[t])
    <3>0. conversation[t] # Nil => Tells(conversation[t])
      BY DEF OwedIsShown, Tells
    <3>1. CASE conversation'[t] = conversation[t]
      BY <2>2, <3>0, <3>1
    <3>2. CASE conversation[t] \in Conversation
               /\ \/ conversation'[t] \in {Reopened(conversation[t]), Closed(conversation[t]),
                                           Touched(conversation[t], TRUE),
                                           Touched(conversation[t], FALSE),
                                           [conversation[t] EXCEPT !.unread = FALSE]}
                  \/ \E c \in Clients : conversation'[t] = [conversation[t] EXCEPT !.client = c]
      BY <3>0, <3>2, TellingKept, NilIsNoRow
    <3>3. CASE \E d \in Deliveries : Inserted(d, conversation'[t])
      BY <3>3 DEF Inserted, Tells
    <3> QED BY <3>1, <3>2, <3>3, ConversationEffect
  <2>3. OwedIsShown'
    BY <2>2 DEF OwedIsShown, Tells
  <2> QED BY <2>1, <2>3
<1>3. Inv => OwedIsShown
  OBVIOUS
<1> QED BY <1>1, <1>2, <1>3, PTL DEF Spec

-----------------------------------------------------------------------------
(* Who moves, and the rows that are inserted. *)

LEMMA WhoServes ==
    ASSUME TypeInv, [Next]_vars, NEW d \in Deliveries, delivery'[d] # delivery[d]
    PROVE  Serve(d) \/ Crash(d) \/ \E m \in Messages : HandIn(d, m)
<1>t. delivery \in [Deliveries -> Delivery]
  BY DEF TypeInv
<1>1. ASSUME NEW e \in Deliveries, Serve(e) \/ Crash(e) \/ \E m \in Messages : HandIn(e, m)
      PROVE  e = d
  <2>1. PICK r : delivery' = [delivery EXCEPT ![e] = r]
    BY <1>1 DEF Serve, Route, Receive, Write, InsertRefused, Fetch, Store, Answer, Scan, Crash, HandIn
  <2> QED BY <1>t, <2>1
<1>2. ~Advising /\ delivery' # delivery
  BY DEF Advising, Adviser, Open, MarkRead, Leave, LinkConversation, Close, StartWriting, Send, Record, Die,
         FileAttachment, RejectAttachment
<1> QED BY <1>1, <1>2, NextSplit DEF Serving, vars

LEMMA WhoActs ==
    ASSUME TypeInv, [Next]_vars, NEW a \in Advisers, task'[a] # task[a]
    PROVE  Adviser(a)
<1>t. task \in [Advisers -> Task]
  BY DEF TypeInv
<1>1. ASSUME NEW b \in Advisers, Adviser(b)
      PROVE  b = a
  <2>1. PICK r : task' = [task EXCEPT ![b] = r]
    BY <1>1 DEF Adviser, Open, MarkRead, Leave, LinkConversation, Close, StartWriting, Send, Record, Die,
                FileAttachment, RejectAttachment
  <2> QED BY <1>t, <2>1
<1>2. ~Serving /\ task' # task
  BY DEF Serving, Serve, Route, Receive, Write, InsertRefused, Fetch, Store, Answer, Scan, Crash, HandIn
<1> QED BY <1>1, <1>2, NextSplit DEF Advising, vars

\* What is confirmed stays confirmed.
LEMMA ConfirmedGrows ==
    ASSUME [Next]_vars
    PROVE  confirmed \subseteq confirmed'
<1>1. Serving \/ Advising \/ UNCHANGED vars
  BY NextSplit
<1>2. CASE Serving
  BY <1>2 DEF Serving, Serve, Route, Receive, Write, InsertRefused, Fetch, Store, Answer, Scan, Crash,
              HandIn, stored
<1>3. CASE Advising
  BY <1>3 DEF Advising, Adviser, Open, MarkRead, Leave, LinkConversation, Close, StartWriting, Send, Record,
              Die, FileAttachment, RejectAttachment, stored
<1> QED BY <1>1, <1>2, <1>3 DEF vars

\* The client of the message a delivery inserts: the one of the conversation it
\* has read, or else the one it has matched.
Sender(d) ==
    IF delivery[d].existing # Nil /\ delivery[d].existing.client # Nil
      THEN delivery[d].existing.client ELSE delivery[d].match

Delivered(d) == Row(Thread[delivery[d].message], delivery[d].message, Sender(d), "inbound")
WrittenBy(a) == Row(task[a].thread, Nil, task[a].client, Outcome(a))

\* At most one communication is new, and it is the last one.
LEMMA NewRow ==
    ASSUME TypeInv, [Next]_vars
    PROVE  \/ Len(comms') = Len(comms)
           \/ \E d \in Deliveries : Write(d) /\ Len(comms') = Len(comms) + 1
                                    /\ comms'[Len(comms')] = Delivered(d)
           \/ \E a \in Advisers : Record(a) /\ Len(comms') = Len(comms) + 1
                                  /\ comms'[Len(comms')] = WrittenBy(a)
<1>t. /\ comms \in Seq(Communication) /\ comms' \in Seq(Communication)
      /\ Len(comms) \in Nat /\ Len(comms') \in Nat
      /\ DOMAIN comms = 1 .. Len(comms) /\ DOMAIN comms' = 1 .. Len(comms')
  BY TypeInvStep DEF TypeInv
<1>0. ASSUME DOMAIN comms' = DOMAIN comms
      PROVE  Len(comms') = Len(comms)
  <2>1. \A m, n \in Nat : 1 .. m = 1 .. n => m = n
    <3> SUFFICES ASSUME NEW m \in Nat, NEW n \in Nat, 1 .. m = 1 .. n
                 PROVE  m = n
      OBVIOUS
    <3>1. (m > 0 => m \in 1 .. n) /\ (n > 0 => n \in 1 .. m)
      BY m \in 1 .. m \/ m = 0, n \in 1 .. n \/ n = 0
    <3> QED BY <3>1
  <2>2. 1 .. Len(comms) = 1 .. Len(comms')
    BY <1>t, <1>0
  <2> QED BY <1>t, <2>1, <2>2
<1>1. ASSUME NEW row, comms' = Append(comms, row)
      PROVE  Len(comms') = Len(comms) + 1 /\ comms'[Len(comms')] = row
  BY <1>t, <1>1
<1>2. ASSUME NEW d \in Deliveries, Write(d)
      PROVE  Len(comms') = Len(comms) + 1 /\ comms'[Len(comms')] = Delivered(d)
  <2>1. comms' = Append(comms, Delivered(d))
    BY <1>2 DEF Write, Delivered, Sender
  <2> QED BY <1>1, <2>1
<1>3. ASSUME NEW a \in Advisers, Record(a)
      PROVE  Len(comms') = Len(comms) + 1 /\ comms'[Len(comms')] = WrittenBy(a)
  <2>1. comms' = Append(comms, WrittenBy(a))
    BY <1>3 DEF Record, WrittenBy
  <2> QED BY <1>1, <2>1
<1>4. ASSUME NEW d \in Deliveries,
             \/ Serve(d) /\ ~Write(d)
             \/ Crash(d)
             \/ \E m \in Messages : HandIn(d, m)
      PROVE  DOMAIN comms' = DOMAIN comms
  BY <1>4 DEF Serve, Route, Receive, InsertRefused, Fetch, Store, Answer, Scan, Crash, HandIn, stored
<1>5. ASSUME NEW a \in Advisers, Adviser(a), ~Record(a)
      PROVE  DOMAIN comms' = DOMAIN comms
  BY <1>5 DEF Adviser, Open, MarkRead, Leave, LinkConversation, Close, StartWriting, Send, Die,
              FileAttachment, RejectAttachment, stored
<1> QED BY <1>0, <1>2, <1>3, <1>4, <1>5, NextSplit DEF Serving, Advising, vars

\* A communication keeps its thread and its kind.
LEMMA ThreadKept ==
    ASSUME TypeInv, [Next]_vars, NEW i \in 1 .. Len(comms)
    PROVE  /\ i \in 1 .. Len(comms')
           /\ comms'[i].thread = comms[i].thread /\ comms'[i].kind = comms[i].kind
           /\ comms[i].client # Nil => comms'[i].client # Nil
<1>t. comms[i] \in Communication /\ Len(comms) \in Nat /\ Len(comms') \in Nat
  BY TypeInvStep DEF TypeInv
<1>1. i \in 1 .. Len(comms')
  BY <1>t, NewRow
<1>2. CASE comms'[i] = comms[i]
  BY <1>1, <1>2
<1>3. CASE comms'[i] # comms[i]
  <2>1. ASSUME NEW c, comms'[i] \in Ingested(comms[i], c)
        PROVE  /\ comms'[i].thread = comms[i].thread /\ comms'[i].kind = comms[i].kind
               /\ comms'[i].client = comms[i].client
    BY <1>t, <2>1 DEF Ingested, Communication
  <2>2. /\ comms'[i].thread = comms[i].thread /\ comms'[i].kind = comms[i].kind
        /\ comms'[i].client = comms[i].client \/ comms'[i].client \in Clients
    BY <1>t, <1>3, <2>1, CommunicationEffect DEF Communication
  <2> QED BY <1>1, <2>2, InboxAssumption
<1> QED BY <1>2, <1>3

-----------------------------------------------------------------------------
(* Whose messages and documents they are. *)

Owner(t, c) == c = Nil \/ <<Number[t], c>> \in confirmed
OwnerAfter(t, c) == c = Nil \/ <<Number[t], c>> \in confirmed'

\* Whoever a delivery has matched, or read, was confirmed by then.
DeliveryOwned(d) ==
    /\ delivery[d].pc = "write" =>
          /\ Owner(Thread[delivery[d].message], delivery[d].match)
          /\ delivery[d].existing # Nil =>
                Owner(Thread[delivery[d].message], delivery[d].existing.client)
    /\ delivery[d].pc = "store" => Owner(comms[delivery[d].row].thread, delivery[d].match)

\* So was the client a page was rendered with.
TaskOwned(a) == task[a].pc # "idle" => Owner(task[a].thread, task[a].client)

OwnInv ==
    /\ TypeInv
    /\ OnlyConfirmed
    /\ \A d \in Deliveries : DeliveryOwned(d)
    /\ \A a \in Advisers : TaskOwned(a)

LEMMA Owned ==
    ASSUME TypeInv, OnlyConfirmed
    PROVE  /\ \A t \in Threads : conversation[t] # Nil => Owner(t, conversation[t].client)
           /\ \A i \in 1 .. Len(comms) : /\ comms[i].thread \in Threads
                                         /\ Owner(comms[i].thread, comms[i].client)
                                         /\ Owner(comms[i].thread, comms[i].holder)
<1>1. /\ comms \in Seq(Communication) /\ DOMAIN comms = 1 .. Len(comms)
      /\ \A i \in 1 .. Len(comms) : comms[i] \in Communication
  BY DEF TypeInv
<1> QED BY <1>1 DEF OnlyConfirmed, Owner, Communication

LEMMA ConversationsOwned ==
    ASSUME OwnInv, [Next]_vars, NEW t \in Threads, conversation'[t] # Nil
    PROVE  OwnerAfter(t, conversation'[t].client)
<1>1. TypeInv /\ OnlyConfirmed /\ (conversation[t] # Nil => Owner(t, conversation[t].client))
  BY Owned DEF OwnInv
<1>2. CASE conversation[t] # Nil /\ conversation'[t].client = conversation[t].client
  BY <1>1, <1>2, ConfirmedGrows DEF Owner, OwnerAfter
<1>3. CASE \E c \in Clients : /\ conversation[t] \in Conversation
                              /\ conversation'[t] = [conversation[t] EXCEPT !.client = c]
                              /\ <<Number[t], c>> \in confirmed'
  BY <1>3 DEF OwnerAfter, Owner, Conversation
<1>4. CASE \E d \in Deliveries : /\ Inserted(d, conversation'[t])
                                 /\ Thread[delivery[d].message] = t
  <2>1. PICK d \in Deliveries : Inserted(d, conversation'[t]) /\ Thread[delivery[d].message] = t
    BY <1>4
  <2>2. conversation'[t].client = delivery[d].match /\ Owner(t, delivery[d].match)
    BY <2>1 DEF Inserted, OwnInv, DeliveryOwned
  <2> QED BY <2>2, ConfirmedGrows DEF Owner, OwnerAfter
<1>5. CASE conversation[t] \in Conversation
           /\ conversation'[t] \in {Reopened(conversation[t]), Closed(conversation[t]),
                                    Touched(conversation[t], TRUE),
                                    Touched(conversation[t], FALSE),
                                    [conversation[t] EXCEPT !.unread = FALSE]}
  <2>1. conversation'[t].client = conversation[t].client
    <3>1. [conversation[t] EXCEPT !.unread = FALSE].client = conversation[t].client
      BY <1>5 DEF Conversation
    <3> QED BY <1>5, <3>1, RowsOfConversation
  <2> QED BY <1>2, <1>5, <2>1, NilIsNoRow
<1> QED BY <1>1, <1>2, <1>3, <1>4, <1>5, ConversationEffect

LEMMA CommunicationsOwned ==
    ASSUME OwnInv, [Next]_vars, NEW i \in 1 .. Len(comms')
    PROVE  OwnerAfter(comms'[i].thread, comms'[i].client) /\ OwnerAfter(comms'[i].thread, comms'[i].holder)
<1>t. /\ TypeInv /\ OnlyConfirmed /\ TypeInv' /\ comms' \in Seq(Communication)
      /\ comms \in Seq(Communication) /\ Len(comms) \in Nat /\ Len(comms') \in Nat
      /\ \A d \in Deliveries : delivery[d] \in Delivery /\ DeliveryFits(d) /\ DeliveryOwned(d)
      /\ \A a \in Advisers : task[a] \in Task /\ TaskFits(a) /\ TaskOwned(a)
  BY TypeInvStep DEF OwnInv, TypeInv
<1>1. ASSUME i \in 1 .. Len(comms)
      PROVE  OwnerAfter(comms'[i].thread, comms'[i].client) /\ OwnerAfter(comms'[i].thread, comms'[i].holder)
  <2> DEFINE t == comms[i].thread
  <2>1. /\ comms[i] \in Communication /\ t \in Threads
        /\ Owner(t, comms[i].client) /\ Owner(t, comms[i].holder)
    BY <1>t, <1>1, Owned
  <2>2. comms'[i].thread = t
    BY <1>t, <1>1, ThreadKept
  <2>3. CASE comms'[i] = comms[i]
    BY <2>1, <2>3, ConfirmedGrows DEF Owner, OwnerAfter
  <2>4. ASSUME NEW c \in Clients, comms'[i] = [comms[i] EXCEPT !.client = c],
               <<Number[t], c>> \in confirmed'
        PROVE  OwnerAfter(t, comms'[i].client) /\ OwnerAfter(t, comms'[i].holder)
    BY <2>1, <2>4, ConfirmedGrows DEF OwnerAfter, Owner, Communication
  <2>5. ASSUME NEW d \in Deliveries, Store(d), delivery[d].row = i,
               comms'[i] \in Ingested(comms[i], delivery[d].match)
        PROVE  OwnerAfter(t, comms'[i].client) /\ OwnerAfter(t, comms'[i].holder)
    <3>1. Owner(t, delivery[d].match)
      BY <1>t, <2>5 DEF Store, DeliveryOwned
    <3>2. /\ comms'[i].client = comms[i].client
          /\ comms'[i].holder \in {comms[i].holder, delivery[d].match}
      BY <2>1, <2>5 DEF Ingested, Communication
    <3> QED BY <2>1, <3>1, <3>2, ConfirmedGrows DEF Owner, OwnerAfter
  <2>6. ASSUME NEW a \in Advisers, task[a].pc = "page", task[a].thread = t,
               comms'[i] = [comms[i] EXCEPT !.document = "filed", !.holder = task[a].client]
        PROVE  OwnerAfter(t, comms'[i].client) /\ OwnerAfter(t, comms'[i].holder)
    <3>1. Owner(t, task[a].client)
      BY <1>t, <2>6 DEF TaskOwned
    <3>2. comms'[i].client = comms[i].client /\ comms'[i].holder = task[a].client
      BY <2>1, <2>6 DEF Communication
    <3> QED BY <2>1, <3>1, <3>2, ConfirmedGrows DEF Owner, OwnerAfter
  <2>7. ASSUME \/ comms'[i] = [comms[i] EXCEPT !.file = "skipped"]
               \/ \E found : comms'[i] = [comms[i] EXCEPT !.assessed = found]
        PROVE  OwnerAfter(t, comms'[i].client) /\ OwnerAfter(t, comms'[i].holder)
    BY <2>1, <2>7, ConfirmedGrows DEF OwnerAfter, Owner, Communication
  <2>8. OwnerAfter(t, comms'[i].client) /\ OwnerAfter(t, comms'[i].holder)
    BY <1>t, <1>1, <2>3, <2>4, <2>5, <2>6, <2>7, CommunicationEffect
  <2> QED BY <2>2, <2>8
<1>2. ASSUME NEW d \in Deliveries, Write(d), i = Len(comms'), comms'[i] = Delivered(d)
      PROVE  OwnerAfter(comms'[i].thread, comms'[i].client) /\ OwnerAfter(comms'[i].thread, comms'[i].holder)
  <2>1. /\ comms'[i].thread = Thread[delivery[d].message]
        /\ comms'[i].client = Sender(d) /\ comms'[i].holder = Nil
    BY <1>2 DEF Delivered, Row
  <2>2. Owner(Thread[delivery[d].message], Sender(d))
    BY <1>t, <1>2 DEF Write, DeliveryOwned, Sender
  <2> QED BY <2>1, <2>2, ConfirmedGrows DEF Owner, OwnerAfter
<1>3. ASSUME NEW a \in Advisers, Record(a), i = Len(comms'), comms'[i] = WrittenBy(a)
      PROVE  OwnerAfter(comms'[i].thread, comms'[i].client) /\ OwnerAfter(comms'[i].thread, comms'[i].holder)
  <2>1. /\ comms'[i].thread = task[a].thread
        /\ comms'[i].client = task[a].client /\ comms'[i].holder = Nil
    BY <1>3 DEF WrittenBy, Row
  <2>2. Owner(task[a].thread, task[a].client)
    BY <1>t, <1>3 DEF Record, TaskOwned
  <2> QED BY <2>1, <2>2, ConfirmedGrows DEF Owner, OwnerAfter
<1>4. i \in 1 .. Len(comms) \/ (Len(comms') = Len(comms) + 1 /\ i = Len(comms'))
  BY <1>t, NewRow
<1> QED BY <1>t, <1>1, <1>2, <1>3, <1>4, NewRow

LEMMA DeliveriesOwned ==
    ASSUME OwnInv, [Next]_vars, NEW d \in Deliveries
    PROVE  DeliveryOwned(d)'
<1>t. /\ TypeInv /\ OnlyConfirmed /\ delivery \in [Deliveries -> Delivery]
      /\ delivery[d] \in Delivery /\ DeliveryFits(d) /\ DeliveryOwned(d)
      /\ Len(comms) \in Nat
  BY DEF OwnInv, TypeInv
<1>0. HasRow(d) => /\ delivery[d].row \in 1 .. Len(comms)
                   /\ comms'[delivery[d].row].thread = comms[delivery[d].row].thread
  <2>1. HasRow(d) => delivery[d].row \in 1 .. Len(comms)
    BY <1>t DEF DeliveryFits
  <2> QED BY <1>t, <2>1, ThreadKept
<1>1. CASE delivery'[d] = delivery[d]
  BY <1>t, <1>0, <1>1, ConfirmedGrows DEF DeliveryOwned, Owner, OwnerAfter, HasRow
<1>2. CASE delivery'[d].pc \notin {"write", "store"}
  BY <1>2 DEF DeliveryOwned
<1>3. CASE Receive(d)
  <2> DEFINE t == Thread[delivery[d].message]
  <2>1. t \in Threads
    BY <1>t, <1>3, InboxAssumption DEF Receive, DeliveryFits
  <2>2. /\ delivery'[d].pc = "write" /\ delivery'[d].message = delivery[d].message
        /\ delivery'[d].match = Match(Number[t]) /\ delivery'[d].existing = conversation[t]
    BY <1>t, <1>3 DEF Receive, Delivery
  <2>3. Owner(t, Match(Number[t]))
    BY MatchTyped DEF Owner, OwnerAfter
  <2>4. conversation[t] # Nil => Owner(t, conversation[t].client)
    BY <1>t, <2>1, Owned
  <2> QED BY <2>2, <2>3, <2>4, ConfirmedGrows DEF DeliveryOwned, Owner, OwnerAfter
<1>4. CASE Fetch(d)
  <2> DEFINE i == delivery[d].row
  <2>1. /\ delivery'[d].pc = "store" /\ delivery'[d].row = i
        /\ delivery'[d].match = comms[i].client /\ comms' = comms
    BY <1>t, <1>4 DEF Fetch, Delivery, stored
  <2>2. Owner(comms[i].thread, comms[i].client)
    BY <1>t, <1>0, <1>4, Owned DEF Fetch, HasRow
  <2> QED BY <2>1, <2>2, ConfirmedGrows DEF DeliveryOwned, Owner, OwnerAfter
<1>5. ASSUME Serve(d) \/ Crash(d) \/ \E m \in Messages : HandIn(d, m), ~Receive(d), ~Fetch(d)
      PROVE  delivery'[d].pc \notin {"write", "store"}
  <2>1. CASE Write(d)
    BY <1>t, <2>1 DEF Write, NoDelivery
  <2>2. CASE Route(d) \/ Store(d) \/ Answer(d)
    BY <1>t, <2>2 DEF Route, Store, Answer, NoDelivery, Delivery
  <2>3. CASE InsertRefused(d) \/ Scan(d) \/ Crash(d)
    BY <1>t, <2>3 DEF InsertRefused, Scan, Crash, NoDelivery
  <2>4. ASSUME NEW m \in Messages, HandIn(d, m)
        PROVE  delivery'[d].pc \notin {"write", "store"}
    BY <1>t, <2>4 DEF HandIn, NoDelivery
  <2> QED BY <1>5, <2>1, <2>2, <2>3, <2>4 DEF Serve
<1> QED BY <1>t, <1>1, <1>2, <1>3, <1>4, <1>5, WhoServes

LEMMA TasksOwned ==
    ASSUME OwnInv, [Next]_vars, NEW a \in Advisers
    PROVE  TaskOwned(a)'
<1>t. /\ TypeInv /\ OnlyConfirmed /\ task \in [Advisers -> Task] /\ task[a] \in Task
      /\ TaskFits(a) /\ TaskOwned(a)
      /\ \A t \in Threads : conversation[t] # Nil => Owner(t, conversation[t].client)
  BY Owned DEF OwnInv, TypeInv
<1>1. CASE /\ task[a].pc # "idle" /\ task'[a].thread = task[a].thread
           /\ task'[a].client = task[a].client
  BY <1>t, <1>1, ConfirmedGrows DEF TaskOwned, Owner, OwnerAfter
<1>2. CASE task'[a].pc = "idle"
  BY <1>2 DEF TaskOwned
<1>3. ASSUME NEW t \in Threads, task'[a].thread = t, conversation[t] # Nil,
             task'[a].client = conversation[t].client
      PROVE  TaskOwned(a)'
  BY <1>t, <1>3, ConfirmedGrows DEF TaskOwned, Owner, OwnerAfter
<1>4. ASSUME NEW t \in Threads, Open(a, t)
      PROVE  TaskOwned(a)'
  BY <1>t, <1>3, <1>4 DEF Open, NoTask
<1>5. CASE MarkRead(a)
  BY <1>t, <1>1, <1>5 DEF MarkRead, Task
<1>6. ASSUME NEW kind \in {"note", "reply", "letter"}, StartWriting(a, kind)
      PROVE  TaskOwned(a)'
  <2>1. /\ task[a].pc # "idle" /\ task'[a].thread = task[a].thread
        /\ task[a].thread \in Threads /\ conversation[task[a].thread] # Nil
        /\ task'[a].client \in {task[a].client, conversation[task[a].thread].client}
    BY <1>t, <1>6 DEF StartWriting, Task, TaskFits
  <2> QED BY <1>1, <1>3, <2>1
<1>7. CASE Send(a)
  BY <1>t, <1>1, <1>2, <1>7 DEF Send, Task, NoTask
<1>8. ASSUME \/ Leave(a) \/ Close(a) \/ Record(a) \/ Die(a)
             \/ \E c \in Clients : LinkConversation(a, c)
             \/ \E i \in DOMAIN comms : FileAttachment(a, i) \/ RejectAttachment(a, i)
      PROVE  TaskOwned(a)'
  <2>1. task' = [task EXCEPT ![a] = NoTask]
    BY <1>8 DEF Leave, Close, Record, Die, LinkConversation, FileAttachment, RejectAttachment
  <2> QED BY <1>t, <1>2, <2>1, NoneTyped
<1>9. CASE task'[a] = task[a]
  BY <1>1, <1>2, <1>9
<1> QED BY <1>t, <1>4, <1>5, <1>6, <1>7, <1>8, <1>9, WhoActs DEF Adviser

\* Nobody's message or document is put down to a client whom nobody confirmed for
\* the number it came from (matchIdentifier, linkConversation, ingestAttachment,
\* fileAttachment), for any number of deliveries and advisers at once.
THEOREM ConfirmedOnly == Spec => []OnlyConfirmed
<1>1. Init => OwnInv
  <2> SUFFICES ASSUME Init PROVE OwnInv
    OBVIOUS
  <2>1. comms = <<>> /\ DOMAIN comms = {}
    BY DEF Init
  <2>2. OnlyConfirmed
    BY <2>1 DEF Init, OnlyConfirmed
  <2>3. \A d \in Deliveries : delivery[d].pc = "idle"
    BY NoneTyped DEF Init
  <2>4. \A a \in Advisers : task[a].pc = "idle"
    BY NoneTyped DEF Init
  <2> QED BY <2>2, <2>3, <2>4, TypeInvInit DEF OwnInv, DeliveryOwned, TaskOwned
<1>2. OwnInv /\ [Next]_vars => OwnInv'
  <2> SUFFICES ASSUME OwnInv, [Next]_vars PROVE OwnInv'
    OBVIOUS
  <2>1. TypeInv'
    BY TypeInvStep DEF OwnInv
  <2>2. DOMAIN comms' = 1 .. Len(comms')
    BY <2>1 DEF TypeInv
  <2>3. OnlyConfirmed'
    BY <2>2, ConversationsOwned, CommunicationsOwned DEF OnlyConfirmed, Owner, OwnerAfter
  <2> QED BY <2>1, <2>3, DeliveriesOwned, TasksOwned DEF OwnInv
<1>3. OwnInv => OnlyConfirmed
  BY DEF OwnInv
<1> QED BY <1>1, <1>2, <1>3, PTL DEF Spec

-----------------------------------------------------------------------------
(* What is held as a document, and what is assessed. *)

Ingesting(d) == delivery[d].pc \in {"fetch", "store"}

\* The row a delivery has written knows the client the delivery knows of, and
\* has no document while the delivery ingests its file.
DeliveryHolds(d) ==
    /\ HasRow(d) /\ delivery[d].client # Nil => comms[delivery[d].row].client # Nil
    /\ Ingesting(d) => comms[delivery[d].row].document = "none"

\* No two deliveries ingest the same file.
Apart(d, e) == Ingesting(d) /\ Ingesting(e) /\ d # e => delivery[d].row # delivery[e].row

Cleared(row) ==
    /\ row.document # "none" => row.file \in {"stored", "skipped"}
    /\ row.assessed # "no" => row.client # Nil

HeldInv ==
    /\ TypeInv
    /\ \A i \in 1 .. Len(comms) : Cleared(comms[i])
    /\ \A d \in Deliveries : DeliveryHolds(d)
    /\ \A d, e \in Deliveries : Apart(d, e)

\* How a delivery comes to its row, and to what it does with it.
LEMMA DeliveryCourse ==
    ASSUME TypeInv, [Next]_vars, NEW d \in Deliveries, HasRow(d)'
    PROVE  \/ /\ HasRow(d) /\ delivery'[d].row = delivery[d].row
              /\ delivery'[d].client = delivery[d].client
              /\ Ingesting(d)' => Ingesting(d) /\ ~Store(d)
           \/ /\ Write(d) /\ delivery'[d].row = Len(comms) + 1
              /\ delivery'[d].client = Sender(d)
<1>t. /\ delivery \in [Deliveries -> Delivery] /\ delivery[d] \in Delivery
  BY DEF TypeInv
<1>s. ASSUME Store(d)
      PROVE  /\ HasRow(d) /\ delivery'[d].row = delivery[d].row
             /\ delivery'[d].client = delivery[d].client /\ delivery'[d].pc = "answer"
  BY <1>t, <1>s DEF Store, Delivery, HasRow
<1>1. CASE delivery'[d] = delivery[d]
  <2>1. ~Store(d)
    BY <1>1, <1>s DEF Store
  <2> QED BY <1>1, <2>1 DEF HasRow, Ingesting
<1>2. CASE Write(d)
  BY <1>t, <1>2 DEF Write, NoDelivery, Sender
<1>3. CASE Fetch(d)
  <2>1. ~Store(d)
    BY <1>3 DEF Fetch, Store
  <2> QED BY <1>t, <1>3, <2>1 DEF Fetch, Delivery, HasRow, Ingesting
<1>4. CASE Store(d)
  BY <1>s, <1>4 DEF Ingesting
<1>5. CASE Answer(d)
  BY <1>t, <1>5 DEF Answer, Delivery, HasRow, Ingesting
<1>6. CASE Route(d) \/ Receive(d) \/ InsertRefused(d) \/ Scan(d) \/ Crash(d)
  <2>1. ~HasRow(d)'
    BY <1>t, <1>6 DEF Route, Receive, InsertRefused, Scan, Crash, NoDelivery, Delivery, HasRow
  <2> QED BY <2>1
<1>7. ASSUME NEW m \in Messages, HandIn(d, m)
      PROVE  FALSE
  BY <1>t, <1>7 DEF HandIn, NoDelivery, HasRow
<1> QED BY <1>1, <1>2, <1>3, <1>4, <1>5, <1>6, <1>7, WhoServes DEF Serve

LEMMA RowsCleared ==
    ASSUME HeldInv, [Next]_vars, NEW i \in 1 .. Len(comms')
    PROVE  Cleared(comms'[i])
<1>t. /\ TypeInv /\ comms \in Seq(Communication) /\ Len(comms) \in Nat /\ Len(comms') \in Nat
      /\ \A d \in Deliveries : DeliveryHolds(d)
      /\ \A a \in Advisers : task[a] \in Task
  BY TypeInvStep DEF HeldInv, TypeInv
<1>1. ASSUME i \in 1 .. Len(comms)
      PROVE  Cleared(comms'[i])
  <2>1. comms[i] \in Communication /\ Cleared(comms[i])
    BY <1>t, <1>1 DEF HeldInv
  <2>2. ASSUME NEW c \in Clients, comms'[i] = [comms[i] EXCEPT !.client = c]
        PROVE  Cleared(comms'[i])
    BY <2>1, <2>2, InboxAssumption DEF Cleared, Communication
  <2>3. ASSUME NEW d \in Deliveries, Store(d), delivery[d].row = i,
               comms'[i] \in Ingested(comms[i], delivery[d].match)
        PROVE  Cleared(comms'[i])
    <3>1. comms[i].document = "none"
      BY <1>t, <2>3 DEF Store, DeliveryHolds, Ingesting
    <3> QED BY <2>1, <2>3, <3>1 DEF Cleared, Ingested, Communication
  <2>4. ASSUME NEW d \in Deliveries, NEW found, delivery[d].pc = "scan", delivery[d].row = i,
               MayAssess(comms[i], delivery[d].client),
               comms'[i] = [comms[i] EXCEPT !.assessed = found]
        PROVE  Cleared(comms'[i])
    <3>1. comms[i].client # Nil
      BY <1>t, <2>4 DEF MayAssess, DeliveryHolds, HasRow
    <3> QED BY <2>1, <2>4, <3>1 DEF Cleared, Communication
  <2>5. ASSUME NEW c, comms[i].file = "stored",
               comms'[i] = [comms[i] EXCEPT !.document = "filed", !.holder = c]
        PROVE  Cleared(comms'[i])
    BY <2>1, <2>5 DEF Cleared, Communication
  <2>6. CASE comms'[i] = [comms[i] EXCEPT !.file = "skipped"]
    BY <2>1, <2>6 DEF Cleared, Communication
  <2> QED BY <1>t, <1>1, <2>1, <2>2, <2>3, <2>4, <2>5, <2>6, CommunicationEffect
<1>2. ASSUME comms'[i].document = "none", comms'[i].assessed = "no"
      PROVE  Cleared(comms'[i])
  BY <1>2 DEF Cleared
<1>3. ASSUME i \notin 1 .. Len(comms)
      PROVE  comms'[i].document = "none" /\ comms'[i].assessed = "no"
  <2>1. Len(comms') = Len(comms) + 1 /\ i = Len(comms')
    BY <1>t, <1>3, NewRow
  <2>2. (\E d \in Deliveries : comms'[i] = Delivered(d))
        \/ (\E a \in Advisers : comms'[i] = WrittenBy(a))
    BY <1>t, <2>1, NewRow
  <2>3. /\ \A d \in Deliveries : Delivered(d).document = "none" /\ Delivered(d).assessed = "no"
        /\ \A a \in Advisers : WrittenBy(a).document = "none" /\ WrittenBy(a).assessed = "no"
    BY DEF Delivered, WrittenBy, Row
  <2> QED BY <2>2, <2>3
<1> QED BY <1>1, <1>2, <1>3

LEMMA DeliveriesHold ==
    ASSUME HeldInv, [Next]_vars, NEW d \in Deliveries
    PROVE  DeliveryHolds(d)'
<1>t. /\ TypeInv /\ comms \in Seq(Communication) /\ Len(comms) \in Nat /\ DeliveryHolds(d)
      /\ DeliveryFits(d) /\ \A e \in Deliveries : Apart(d, e)
  BY DEF HeldInv, TypeInv
<1>1. CASE ~HasRow(d)'
  BY <1>1 DEF DeliveryHolds, HasRow, Ingesting
<1>2. CASE /\ HasRow(d)' /\ HasRow(d) /\ delivery'[d].row = delivery[d].row
           /\ delivery'[d].client = delivery[d].client
           /\ Ingesting(d)' => Ingesting(d) /\ ~Store(d)
  <2> DEFINE i == delivery[d].row
  <2>1. i \in 1 .. Len(comms) /\ comms[i] \in Communication
    BY <1>t, <1>2 DEF DeliveryFits
  <2>2. comms[i].client # Nil => comms'[i].client # Nil
    BY <1>t, <2>1, ThreadKept
  <2>3. ASSUME Ingesting(d)'
        PROVE  comms'[i].document = "none"
    <3>1. Ingesting(d) /\ ~Store(d) /\ comms[i].document = "none"
      BY <1>t, <1>2, <2>3 DEF DeliveryHolds
    <3>2. \A e \in Deliveries : ~(Store(e) /\ delivery[e].row = i)
      BY <1>t, <3>1 DEF Apart, Ingesting, Store
    <3>3. \/ comms'[i] = comms[i]
          \/ \E c \in Clients : comms'[i] = [comms[i] EXCEPT !.client = c]
          \/ \E found : comms'[i] = [comms[i] EXCEPT !.assessed = found]
          \/ comms'[i] = [comms[i] EXCEPT !.file = "skipped"]
      BY <1>t, <2>1, <3>1, <3>2, CommunicationEffect
    <3> QED BY <2>1, <3>1, <3>3 DEF Communication
  <2> QED BY <1>t, <1>2, <2>2, <2>3 DEF DeliveryHolds
<1>3. CASE Write(d) /\ delivery'[d].row = Len(comms) + 1 /\ delivery'[d].client = Sender(d)
  <2>1. comms' = Append(comms, Delivered(d))
    BY <1>3 DEF Write, Delivered, Sender
  <2>2. comms'[delivery'[d].row] = Delivered(d)
    BY <1>t, <1>3, <2>1
  <2>3. Delivered(d).client = Sender(d) /\ Delivered(d).document = "none"
    BY DEF Delivered, Row
  <2> QED BY <1>3, <2>2, <2>3 DEF DeliveryHolds
<1> QED BY <1>t, <1>1, <1>2, <1>3, DeliveryCourse

LEMMA DeliveriesApart ==
    ASSUME HeldInv, [Next]_vars, NEW d \in Deliveries, NEW e \in Deliveries
    PROVE  Apart(d, e)'
<1> SUFFICES ASSUME Ingesting(d)', Ingesting(e)', d # e
             PROVE  delivery'[d].row # delivery'[e].row
  BY DEF Apart
<1>t. /\ TypeInv /\ Len(comms) \in Nat /\ DeliveryFits(d) /\ DeliveryFits(e) /\ Apart(d, e)
      /\ delivery \in [Deliveries -> Delivery]
  BY DEF HeldInv, TypeInv
<1>1. HasRow(d)' /\ HasRow(e)'
  BY DEF HasRow, Ingesting
<1>2. ASSUME NEW f \in Deliveries, HasRow(f), DeliveryFits(f)
      PROVE  delivery[f].row <= Len(comms) /\ delivery[f].row \in Nat
  BY <1>t, <1>2 DEF DeliveryFits
<1>3. ~(Write(d) /\ Write(e))
  <2> SUFFICES ASSUME Write(d), Write(e) PROVE FALSE
    OBVIOUS
  <2>1. delivery'[e] = delivery[e] /\ delivery[e].pc = "write"
    BY <1>t DEF Write
  <2> QED BY <2>1, <1>1 DEF HasRow
<1> QED BY <1>t, <1>1, <1>2, <1>3, DeliveryCourse DEF Apart

\* Nothing that failed its scan, or never arrived, is held as a document, and
\* nothing is assessed before it is known whose words they are (ingestAttachment,
\* fileAttachment, scanInboundForVulnerability).
THEOREM HeldCleared == Spec => []HeldWasCleared
<1>1. Init => HeldInv
  <2> SUFFICES ASSUME Init PROVE HeldInv
    OBVIOUS
  <2>1. comms = <<>> /\ 1 .. Len(comms) = {}
    BY DEF Init
  <2>2. \A d \in Deliveries : delivery[d].pc = "idle"
    BY NoneTyped DEF Init
  <2> QED BY <2>1, <2>2, TypeInvInit DEF HeldInv, DeliveryHolds, Apart, HasRow, Ingesting
<1>2. HeldInv /\ [Next]_vars => HeldInv'
  <2> SUFFICES ASSUME HeldInv, [Next]_vars PROVE HeldInv'
    OBVIOUS
  <2>1. TypeInv'
    BY TypeInvStep DEF HeldInv
  <2>2. \A i \in 1 .. Len(comms') : Cleared(comms'[i])
    BY RowsCleared
  <2>3. (\A i \in 1 .. Len(comms) : Cleared(comms[i]))'
    BY <2>2 DEF Cleared
  <2> QED BY <2>1, <2>3, DeliveriesHold, DeliveriesApart DEF HeldInv
<1>3. HeldInv => HeldWasCleared
  <2> SUFFICES ASSUME HeldInv PROVE HeldWasCleared
    OBVIOUS
  <2>1. DOMAIN comms = 1 .. Len(comms)
    BY DEF HeldInv, TypeInv
  <2> QED BY <2>1 DEF HeldInv, HeldWasCleared, Cleared
<1> QED BY <1>1, <1>2, <1>3, PTL DEF Spec

-----------------------------------------------------------------------------
(* What was sent. *)

Sent(t) == {i \in DOMAIN comms : comms[i].thread = t /\ comms[i].kind = "sent"}

\* Requests that have handed a message to the channel and not recorded it yet.
Pending(t) ==
    {a \in Advisers : task[a].pc = "record" /\ task[a].outcome = "sent" /\ task[a].thread = t}

\* Whatever is down as sent, or about to be, the channel has carried; a request
\* that dies in between leaves it carried and not recorded.
SentInv ==
    /\ TypeInv
    /\ \A t \in Threads : /\ IsFiniteSet(Pending(t))
                          /\ Cardinality(Sent(t)) + Cardinality(Pending(t)) <= carried[t]

LEMMA SentFinite ==
    ASSUME TypeInv, NEW t
    PROVE  IsFiniteSet(Sent(t)) /\ Cardinality(Sent(t)) \in Nat /\ Sent(t) \subseteq 1 .. Len(comms)
<1>1. Sent(t) \subseteq 1 .. Len(comms) /\ Len(comms) \in Nat
  BY DEF TypeInv, Sent
<1>2. IsFiniteSet(1 .. Len(comms))
  BY <1>1, FS_Interval
<1> QED BY <1>1, <1>2, FS_Subset, FS_CardinalityType

\* An adviser's request becomes pending only as the channel carries its message.
LEMMA Carried ==
    ASSUME TypeInv, [Next]_vars, NEW t \in Threads
    PROVE  /\ carried'[t] >= carried[t]
           /\ \A a \in Pending(t)' \ Pending(t) :
                 /\ Send(a) /\ carried'[t] = carried[t] + 1
                 /\ Pending(t)' \subseteq Pending(t) \cup {a}
<1>t. /\ carried \in [Threads -> Nat] /\ carried[t] \in Nat
      /\ task \in [Advisers -> Task] /\ \A a \in Advisers : TaskFits(a)
  BY DEF TypeInv
<1>1. ASSUME NEW a \in Advisers, Send(a)
      PROVE  carried' = carried \/ carried' = [carried EXCEPT ![task[a].thread] = carried[task[a].thread] + 1]
  BY <1>1 DEF Send
<1>2. ASSUME \A a \in Advisers : ~Send(a)
      PROVE  carried' = carried
  <2>1. CASE Serving
    BY <2>1 DEF Serving, Serve, Route, Receive, Write, InsertRefused, Fetch, Store, Answer, Scan, Crash,
                HandIn, stored
  <2>2. CASE Advising
    BY <1>2, <2>2 DEF Advising, Adviser, Open, MarkRead, Leave, LinkConversation, Close, StartWriting,
                      Record, Die, FileAttachment, RejectAttachment, stored
  <2> QED BY <2>1, <2>2, NextSplit DEF vars
<1>3. carried'[t] >= carried[t]
  BY <1>t, <1>1, <1>2
<1>4. ASSUME NEW a \in Pending(t)', a \notin Pending(t)
      PROVE  /\ Send(a) /\ carried'[t] = carried[t] + 1
             /\ Pending(t)' \subseteq Pending(t) \cup {a}
  <2>1. /\ a \in Advisers /\ task'[a] # task[a] /\ task'[a].pc = "record"
        /\ task'[a].outcome = "sent" /\ task'[a].thread = t
    BY <1>4 DEF Pending
  <2>2. Adviser(a)
    BY <2>1, WhoActs
  <2>3. Send(a)
    <3>1. CASE \/ Leave(a) \/ Close(a) \/ Record(a) \/ Die(a)
               \/ \E c \in Clients : LinkConversation(a, c)
               \/ \E i \in DOMAIN comms : FileAttachment(a, i) \/ RejectAttachment(a, i)
      <4>1. task' = [task EXCEPT ![a] = NoTask]
        BY <3>1 DEF Leave, Close, Record, Die, LinkConversation, FileAttachment, RejectAttachment
      <4> QED BY <1>t, <2>1, <4>1, NoneTyped
    <3>2. CASE MarkRead(a) \/ \E u \in Threads : Open(a, u)
      BY <1>t, <2>1, <3>2 DEF MarkRead, Open, NoTask, Task
    <3>3. ASSUME NEW kind \in {"note", "reply", "letter"}, StartWriting(a, kind)
          PROVE  FALSE
      BY <1>t, <2>1, <3>3 DEF StartWriting, Task
    <3> QED BY <2>2, <3>1, <3>2, <3>3 DEF Adviser
  <2>4. task[a].thread = t /\ task' = [task EXCEPT ![a] = task'[a]]
    BY <1>t, <2>1, <2>3 DEF Send, Task, NoTask
  <2>5. carried' = [carried EXCEPT ![t] = carried[t] + 1]
    <3>1. CASE task' = [task EXCEPT ![a] = NoTask]
      BY <1>t, <2>1, <3>1, NoneTyped
    <3>2. CASE task' = [task EXCEPT ![a].pc = "record", ![a].outcome = "failed"]
      BY <1>t, <2>1, <3>2 DEF Task
    <3> QED BY <2>3, <2>4, <3>1, <3>2 DEF Send
  <2>6. \A b \in Advisers : b # a => task'[b] = task[b]
    BY <1>t, <2>4
  <2> QED BY <1>t, <2>3, <2>5, <2>6 DEF Pending
<1> QED BY <1>3, <1>4

\* A message goes down as sent only by the request that had it carried, which is
\* then no longer pending.
LEMMA PutDown ==
    ASSUME TypeInv, [Next]_vars, NEW t \in Threads
    PROVE  \/ Sent(t)' = Sent(t)
           \/ \E a \in Pending(t) :
                 /\ Sent(t)' = Sent(t) \cup {Len(comms) + 1}
                 /\ Pending(t)' \subseteq Pending(t) \ {a}
<1>t. /\ comms \in Seq(Communication) /\ comms' \in Seq(Communication)
      /\ Len(comms) \in Nat /\ Len(comms') \in Nat
      /\ DOMAIN comms = 1 .. Len(comms) /\ DOMAIN comms' = 1 .. Len(comms')
      /\ task \in [Advisers -> Task] /\ \A a \in Advisers : task[a] \in Task /\ TaskFits(a)
  BY TypeInvStep DEF TypeInv
<1>1. \A i \in 1 .. Len(comms) : i \in Sent(t)' <=> i \in Sent(t)
  BY <1>t, ThreadKept DEF Sent
<1>2. CASE Len(comms') = Len(comms)
  <2>1. Sent(t)' \subseteq 1 .. Len(comms) /\ Sent(t) \subseteq 1 .. Len(comms)
    BY <1>t, <1>2 DEF Sent
  <2> QED BY <1>1, <2>1
<1>3. ASSUME Len(comms') = Len(comms) + 1,
             ~(comms'[Len(comms')].thread = t /\ comms'[Len(comms')].kind = "sent")
      PROVE  Sent(t)' = Sent(t)
  <2>1. Sent(t)' \subseteq 1 .. Len(comms) /\ Sent(t) \subseteq 1 .. Len(comms)
    BY <1>t, <1>3 DEF Sent
  <2> QED BY <1>1, <2>1
<1>4. ASSUME NEW d \in Deliveries, comms'[Len(comms')] = Delivered(d)
      PROVE  comms'[Len(comms')].kind # "sent"
  BY <1>4 DEF Delivered, Row
<1>5. ASSUME NEW a \in Advisers, Record(a), Len(comms') = Len(comms) + 1,
             comms'[Len(comms')] = WrittenBy(a),
             comms'[Len(comms')].thread = t, comms'[Len(comms')].kind = "sent"
      PROVE  /\ a \in Pending(t)
             /\ Sent(t)' = Sent(t) \cup {Len(comms) + 1}
             /\ Pending(t)' \subseteq Pending(t) \ {a}
  <2>1. task[a].thread = t /\ Outcome(a) = "sent"
    BY <1>5 DEF WrittenBy, Row
  <2>2. task[a].pc = "record" /\ task[a].outcome = "sent"
    BY <1>5, <2>1 DEF Record, Outcome
  <2>3. a \in Pending(t)
    BY <2>1, <2>2 DEF Pending
  <2>4. Sent(t)' = Sent(t) \cup {Len(comms) + 1}
    <3>1. /\ Sent(t)' \subseteq 1 .. Len(comms) \cup {Len(comms) + 1}
          /\ Sent(t) \subseteq 1 .. Len(comms) /\ Len(comms) + 1 \in Sent(t)'
      BY <1>t, <1>5 DEF Sent
    <3> QED BY <1>1, <3>1
  <2>5. task' = [task EXCEPT ![a] = NoTask]
    BY <1>5 DEF Record
  <2>6. Pending(t)' \subseteq Pending(t) \ {a}
    BY <1>t, <2>5, NoneTyped DEF Pending
  <2> QED BY <2>3, <2>4, <2>6
<1> QED BY <1>2, <1>3, <1>4, <1>5, NewRow

\* No more messages of a thread are down as sent than the channel has carried
\* (sendCommunication, replyInConversation), however many advisers write at once
\* and wherever their requests die.
THEOREM SentOnlyCarried == Spec => []SentWasCarried
<1>1. Init => SentInv
  <2> SUFFICES ASSUME Init PROVE SentInv
    OBVIOUS
  <2>1. \A t \in Threads : Sent(t) = {} /\ Pending(t) = {} /\ carried[t] = 0
    BY NoneTyped DEF Init, Sent, Pending
  <2> QED BY <2>1, FS_EmptySet, TypeInvInit DEF SentInv
<1>2. SentInv /\ [Next]_vars => SentInv'
  <2> SUFFICES ASSUME SentInv, [Next]_vars PROVE SentInv'
    OBVIOUS
  <2>0. TypeInv /\ TypeInv'
    BY TypeInvStep DEF SentInv
  <2>1. ASSUME NEW t \in Threads
        PROVE  /\ IsFiniteSet(Pending(t)')
               /\ Cardinality(Sent(t)') + Cardinality(Pending(t)') <= carried'[t]
    <3> DEFINE S == Sent(t)
               P == Pending(t)
    <3>t. /\ IsFiniteSet(S) /\ IsFiniteSet(P) /\ Cardinality(S) \in Nat /\ Cardinality(P) \in Nat
          /\ Cardinality(S) + Cardinality(P) <= carried[t]
          /\ carried[t] \in Nat /\ carried'[t] \in Nat /\ carried'[t] >= carried[t]
          /\ Len(comms) + 1 \notin S
      <4>1. Len(comms) \in Nat /\ carried[t] \in Nat /\ carried'[t] \in Nat
        BY <2>0 DEF TypeInv
      <4> QED BY <2>0, <4>1, SentFinite, FS_CardinalityType, Carried DEF SentInv
    <3>1. CASE S' = S /\ Pending(t)' \subseteq P
      <4>1. IsFiniteSet(P') /\ Cardinality(P') <= Cardinality(P) /\ Cardinality(P') \in Nat
        BY <3>t, <3>1, FS_Subset, FS_CardinalityType
      <4> QED BY <3>t, <3>1, <4>1
    <3>2. ASSUME NEW a \in P' \ P, S' = S
          PROVE  IsFiniteSet(P') /\ Cardinality(S') + Cardinality(P') <= carried'[t]
      <4>1. carried'[t] = carried[t] + 1 /\ P' \subseteq P \cup {a}
        BY <2>0, <3>2, Carried
      <4>2. /\ IsFiniteSet(P \cup {a}) /\ Cardinality(P \cup {a}) = Cardinality(P) + 1
        BY <3>t, <3>2, FS_AddElement
      <4>3. IsFiniteSet(P') /\ Cardinality(P') <= Cardinality(P) + 1 /\ Cardinality(P') \in Nat
        BY <4>1, <4>2, FS_Subset, FS_CardinalityType
      <4> QED BY <3>t, <3>2, <4>1, <4>3
    <3>3. ASSUME NEW a \in P, S' = S \cup {Len(comms) + 1}, P' \subseteq P \ {a}
          PROVE  IsFiniteSet(P') /\ Cardinality(S') + Cardinality(P') <= carried'[t]
      <4>1. Cardinality(S') = Cardinality(S) + 1
        BY <3>t, <3>3, FS_AddElement
      <4>2. IsFiniteSet(P \ {a}) /\ Cardinality(P \ {a}) = Cardinality(P) - 1
        BY <3>t, <3>3, FS_RemoveElement
      <4>3. IsFiniteSet(P') /\ Cardinality(P') <= Cardinality(P) - 1 /\ Cardinality(P') \in Nat
        BY <3>3, <4>2, FS_Subset, FS_CardinalityType
      <4> QED BY <3>t, <4>1, <4>3
    <3> QED BY <2>0, <3>1, <3>2, <3>3, PutDown
  <2> QED BY <2>0, <2>1 DEF SentInv
<1>3. SentInv => SentWasCarried
  <2> SUFFICES ASSUME SentInv, NEW t \in Threads
               PROVE  Cardinality(Sent(t)) <= carried[t]
    BY DEF SentWasCarried, Sent
  <2>1. /\ Cardinality(Sent(t)) \in Nat /\ Cardinality(Pending(t)) \in Nat /\ carried[t] \in Nat
        /\ Cardinality(Sent(t)) + Cardinality(Pending(t)) <= carried[t]
    BY SentFinite, FS_CardinalityType DEF SentInv, TypeInv
  <2> QED BY <2>1
<1> QED BY <1>1, <1>2, <1>3, PTL DEF Spec

=============================================================================
