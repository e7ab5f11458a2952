-------------------------------- MODULE Inbox --------------------------------
(***************************************************************************)
(* Conversations: packages/comms (conversations.ts, matching.ts,           *)
(* attachments.ts, send.ts, templates.ts, vulnerability-scan.ts), the      *)
(* webhook through which messages come in, and the conversation pane from  *)
(* which advisers answer them.                                             *)
(*                                                                         *)
(* A delivery is one request of the provider: it looks the account up,     *)
(* receives the message, ingests its file, answers, and then reads the     *)
(* message for signs of vulnerability.  Each of these is a transaction of  *)
(* its own, and receiving reads first and writes later.  The provider      *)
(* hands a message in again when it has no answer, and sometimes when it   *)
(* has one.                                                                *)
(*                                                                         *)
(* One UPDATE of a conversation evaluates its CASE and coalesce on the row *)
(* it has locked, and is one step.  linkConversation takes the lock of the *)
(* conversation first and holds it, so that it is one step as well.        *)
(* The text of messages, cases, owners and queues are left out; a client   *)
(* stands for their case where a document is filed.  A page of the pane is *)
(* rendered from what was read, marks the conversation read, and its forms *)
(* keep what it was rendered from.                                         *)
(***************************************************************************)
EXTENDS Naturals, Sequences, FiniteSets

CONSTANTS
    Threads,        \* a number of the firm's with a number that writes to it
    Number,         \* Threads -> the number that writes
    Clients,
    Messages,       \* what clients write
    Thread,         \* Messages -> Threads
    WithFile,       \* the messages that carry an attachment
    Deliveries,     \* requests the server handles at once
    Advisers,
    MaxWritten,     \* bound: notes and messages advisers write
    MaxMishaps,     \* bound: crashes, failed lookups, answers that are late or lost
    Nil

ASSUME InboxAssumption ==
    /\ Thread \in [Messages -> Threads]
    /\ WithFile \subseteq Messages
    /\ Nil \notin Clients \cup Threads \cup Messages
    /\ MaxWritten \in Nat /\ MaxMishaps \in Nat

VARIABLES
    conversation,   \* per thread, the row, or Nil before the first message
    comms,          \* communications in the order of their insertion, each with
                    \* its attachment and the document made of it
    confirmed,      \* channel_identities: <<number, client>> somebody confirmed
    carried,        \* per thread, the messages the channel has carried
    delivery,       \* per delivery, what it has read and how far it is
    task,           \* per adviser, the page on the screen or the request under way
    accepted,       \* messages the provider was told are accepted
    dropped,        \* messages answered as if the number were unknown
    mishaps

vars == <<conversation, comms, confirmed, carried, delivery, task, accepted, dropped, mishaps>>
stored == <<conversation, comms, confirmed, carried>>
outside == <<accepted, dropped, mishaps>>

\* No caller sets a conversation pending or snoozed: what is not closed is open.
Statuses == {"open", "closed"}

Conversation == [client: Clients \cup {Nil}, status: Statuses, due: BOOLEAN, unread: BOOLEAN]

ASSUME NilIsNoRow == Nil \notin Conversation

\* file: ingest_status of its attachment ("failed" stands for "expired" too); document: whose it is held for, and
\* whether it is filed; assessed: what the scan left behind.
Communication ==
    [thread: Threads, message: Messages \cup {Nil}, client: Clients \cup {Nil},
     kind: {"inbound", "note", "sent", "failed"},
     file: {"none", "pending", "stored", "failed", "infected", "skipped"},
     document: {"none", "unfiled", "filed"}, holder: Clients \cup {Nil},
     assessed: {"no", "nothing", "proposed"}]

Row(thread, message, client, kind) ==
    [thread |-> thread, message |-> message, client |-> client, kind |-> kind,
     file |-> IF message \in WithFile THEN "pending" ELSE "none",
     document |-> "none", holder |-> Nil, assessed |-> "no"]

NoDelivery == [pc |-> "idle", message |-> Nil, existing |-> Nil, match |-> Nil,
               client |-> Nil, row |-> 0]
NoTask == [pc |-> "idle", thread |-> Nil, client |-> Nil, outcome |-> Nil]

TypeOK ==
    /\ \A t \in Threads : conversation[t] \in Conversation \cup {Nil}
    /\ \A i \in DOMAIN comms : comms[i] \in Communication
    /\ \A pair \in confirmed : pair[2] \in Clients
    /\ carried \in [Threads -> Nat]
    /\ \A d \in Deliveries :
          /\ delivery[d].pc \in {"idle", "route", "receive", "write", "fetch", "store", "answer", "scan"}
          /\ delivery[d].row \in 0 .. Len(comms)
          /\ delivery[d].pc \in {"fetch", "store", "answer", "scan"} => delivery[d].row # 0
    /\ \A a \in Advisers :
          /\ task[a].pc \in {"idle", "opened", "page", "note", "reply", "letter", "record"}
          /\ task[a].pc # "idle" => task[a].thread \in Threads
          /\ task[a].client \in Clients \cup {Nil}
    /\ accepted \cup dropped \subseteq Messages
    /\ mishaps \in 0 .. MaxMishaps

Init ==
    /\ conversation = [t \in Threads |-> Nil]
    /\ comms = <<>>
    /\ confirmed = {}
    /\ carried = [t \in Threads |-> 0]
    /\ delivery = [d \in Deliveries |-> NoDelivery]
    /\ task = [a \in Advisers |-> NoTask]
    /\ accepted = {} /\ dropped = {}
    /\ mishaps = 0

Mishap == mishaps < MaxMishaps /\ mishaps' = mishaps + 1

-----------------------------------------------------------------------------
(* Receiving. *)

\* Seeded fault: the message is answered for before it is received.
HandIn_AnswersFirst(d, m) ==
    /\ delivery[d].pc = "idle" /\ m \notin dropped
    /\ IF (\A e \in Deliveries : delivery[e].message # m) /\ m \notin accepted THEN UNCHANGED mishaps ELSE Mishap
    /\ delivery' = [delivery EXCEPT ![d] = [NoDelivery EXCEPT !.pc = "route", !.message = m]]
    /\ accepted' = accepted \cup {m}
    /\ UNCHANGED <<stored, task, dropped>>

\* The provider hands a message in: because nobody has answered for it, or once
\* more although somebody has or still might (the answer is slow, or was lost).
HandIn(d, m) ==
    LET waiting == \A e \in Deliveries : delivery[e].message # m
    IN  /\ delivery[d].pc = "idle"
        /\ m \notin dropped
        /\ IF waiting /\ m \notin accepted THEN UNCHANGED mishaps ELSE Mishap
        /\ delivery' = [delivery EXCEPT ![d] = [NoDelivery EXCEPT !.pc = "route", !.message = m]]
        /\ UNCHANGED <<stored, task, accepted, dropped>>

\* POST: the firm whose number it is.  A lookup that fails is caught and answered
\* like one that finds nothing.
Route(d) ==
    /\ delivery[d].pc = "route"
    /\ \/ /\ delivery' = [delivery EXCEPT ![d].pc = "receive"]
          /\ UNCHANGED <<dropped, mishaps>>
       \/ /\ Mishap
          /\ delivery' = [delivery EXCEPT ![d] = NoDelivery]
          /\ dropped' = dropped \cup ({delivery[d].message} \ accepted)
    /\ UNCHANGED <<stored, task, accepted>>

\* Seeded fault: a number on one client's record is taken for that client.
Match_OnRecord(number) == CHOOSE c \in Clients : TRUE

\* matchIdentifier: one confirmed owner is a match.  Several, or a number that is
\* only on a client's record, are for a person to decide.
Match(number) ==
    LET owners == {c \in Clients : <<number, c>> \in confirmed}
    IN  IF Cardinality(owners) = 1 THEN CHOOSE c \in owners : TRUE ELSE Nil

\* receiveInbound: matchIdentifier, and the conversation there may be.
Receive(d) ==
    LET t == Thread[delivery[d].message]
    IN  /\ delivery[d].pc = "receive"
        /\ delivery' = [delivery EXCEPT ![d].pc = "write",
                                        ![d].match = Match(Number[t]),
                                        ![d].existing = conversation[t]]
        /\ UNCHANGED <<stored, task, outside>>

\* Seeded fault: a closed conversation stays closed.
Reopened_Never(row) == [row EXCEPT !.due = TRUE, !.unread = TRUE]

\* The UPDATE of an existing conversation, on the row as it is now.
Reopened(row) ==
    [row EXCEPT !.status = IF @ = "closed" THEN "open" ELSE @, !.due = TRUE, !.unread = TRUE]

\* receiveInbound: the conversation, the message and its attachment.  What was
\* read decides between UPDATE and INSERT and whose message it is; the unique
\* index refuses a second conversation for the thread (InsertRefused).
Write(d) ==
    LET m == delivery[d].message
        t == Thread[m]
        found == delivery[d].existing # Nil
        client == IF found /\ delivery[d].existing.client # Nil
                    THEN delivery[d].existing.client ELSE delivery[d].match
    IN  /\ delivery[d].pc = "write"
        /\ found \/ conversation[t] = Nil
        /\ conversation' = [conversation EXCEPT ![t] =
              IF found THEN Reopened(conversation[t])
              ELSE [client |-> delivery[d].match, status |-> "open", due |-> TRUE, unread |-> TRUE]]
        /\ comms' = Append(comms, Row(t, m, client, "inbound"))
        /\ delivery' = [delivery EXCEPT ![d] =
              [NoDelivery EXCEPT !.pc = IF m \in WithFile THEN "fetch" ELSE "answer",
                                 !.message = m, !.client = client, !.row = Len(comms) + 1]]
        /\ UNCHANGED <<confirmed, carried, task, outside>>

\* The INSERT meets the row another delivery has inserted: the transaction is
\* rolled back and the request fails, so that the provider tries again.
InsertRefused(d) ==
    /\ delivery[d].pc = "write"
    /\ delivery[d].existing = Nil /\ conversation[Thread[delivery[d].message]] # Nil
    /\ delivery' = [delivery EXCEPT ![d] = NoDelivery]
    /\ UNCHANGED <<stored, task, outside>>

\* ingestAttachment: the row with its client is read, then the file is fetched.
Fetch(d) ==
    /\ delivery[d].pc = "fetch"
    /\ delivery' = [delivery EXCEPT ![d].pc = "store", ![d].match = comms[delivery[d].row].client]
    /\ UNCHANGED <<stored, task, outside>>

\* Seeded fault: the scanner's verdict is not looked at.
Ingested_Unscanned(row, client) ==
    {[row EXCEPT !.file = f] : f \in {"failed"}}
        \cup {[row EXCEPT !.file = f, !.document = "unfiled", !.holder = client] : f \in {"stored", "infected"}}

\* ingestAttachment: expired, not fetched (or not the file the provider hashed),
\* not clean, or a document held for the client that was read.
Ingested(row, client) ==
    {[row EXCEPT !.file = f] : f \in {"failed", "infected"}}
        \cup {[row EXCEPT !.file = "stored", !.document = "unfiled", !.holder = client]}

\* A fault inside ingesting is caught by POST and leaves the attachment as it was.
Store(d) ==
    /\ delivery[d].pc = "store"
    /\ \/ /\ \E row \in Ingested(comms[delivery[d].row], delivery[d].match) :
                comms' = [comms EXCEPT ![delivery[d].row] = row]
          /\ UNCHANGED mishaps
       \/ Mishap /\ UNCHANGED comms
    /\ delivery' = [delivery EXCEPT ![d].pc = "answer", ![d].match = Nil]
    /\ UNCHANGED <<conversation, confirmed, carried, task, accepted, dropped>>

\* The response, after which the message is read for signs of vulnerability.
Answer(d) ==
    /\ delivery[d].pc = "answer"
    /\ accepted' = accepted \cup {delivery[d].message}
    /\ delivery' = [delivery EXCEPT ![d].pc = "scan"]
    /\ UNCHANGED <<stored, task, dropped, mishaps>>

\* Seeded fault: what an unidentified number writes is assessed as well.
MayAssess_Anybody(row, client) == row.assessed = "no"

\* scanInboundForVulnerability: a message of a known client, not assessed before.
MayAssess(row, client) == client # Nil /\ row.assessed = "no"

\* scanInboundForVulnerability: not run (the firm has not turned it on, the
\* message has no text), or the invocation is recorded: it failed or found
\* nothing, or it found signals, which are proposals for an adviser.
Scan(d) ==
    LET i == delivery[d].row
    IN  /\ delivery[d].pc = "scan"
        /\ \/ UNCHANGED comms
           \/ \E found \in {"nothing", "proposed"} :
                 /\ MayAssess(comms[i], delivery[d].client)
                 /\ comms' = [comms EXCEPT ![i].assessed = found]
        /\ delivery' = [delivery EXCEPT ![d] = NoDelivery]
        /\ UNCHANGED <<conversation, confirmed, carried, task, outside>>

\* The process dies: what was committed stays, the transaction under way is lost.
Crash(d) ==
    /\ delivery[d].pc # "idle"
    /\ Mishap
    /\ delivery' = [delivery EXCEPT ![d] = NoDelivery]
    /\ UNCHANGED <<stored, task, accepted, dropped>>

-----------------------------------------------------------------------------
(* The conversation pane. *)

\* loadConversation: what the page and its forms are rendered from.
Open(a, t) ==
    /\ task[a].pc = "idle"
    /\ conversation[t] # Nil
    /\ task' = [task EXCEPT ![a] =
          [NoTask EXCEPT !.pc = "opened", !.thread = t, !.client = conversation[t].client]]
    /\ UNCHANGED <<stored, delivery, outside>>

\* markRead, while the page is rendered.
MarkRead(a) ==
    /\ task[a].pc = "opened"
    /\ conversation' = [conversation EXCEPT ![task[a].thread].unread = FALSE]
    /\ task' = [task EXCEPT ![a].pc = "page"]
    /\ UNCHANGED <<comms, confirmed, carried, delivery, outside>>

Leave(a) ==
    /\ task[a].pc = "page"
    /\ task' = [task EXCEPT ![a] = NoTask]
    /\ UNCHANGED <<stored, delivery, outside>>

\* Seeded fault: the number is not remembered.
Remembered_Not(number, client) == {}

\* The row linkConversation leaves in channel_identities.
Remembered(number, client) == {<<number, client>>}

\* identify, linkConversation: offered while the page knows of no client.
LinkConversation(a, c) ==
    LET t == task[a].thread
    IN  /\ task[a].pc = "page" /\ task[a].client = Nil
        /\ conversation' = [conversation EXCEPT ![t].client = c]
        /\ comms' = [i \in DOMAIN comms |->
              IF comms[i].thread = t THEN [comms[i] EXCEPT !.client = c] ELSE comms[i]]
        /\ confirmed' = confirmed \cup Remembered(Number[t], c)
        /\ task' = [task EXCEPT ![a] = NoTask]
        /\ UNCHANGED <<carried, delivery, outside>>

\* Seeded fault: closing does not answer the thread.
Closed_Owing(row) == [row EXCEPT !.status = "closed"]

\* Seeded fault: a status the table does not have.
Closed_Status(row) == [row EXCEPT !.status = "done", !.due = FALSE, !.unread = FALSE]

\* The UPDATE of setConversationStatus.
Closed(row) == [row EXCEPT !.status = "closed", !.due = FALSE, !.unread = FALSE]

\* close, setConversationStatus.
Close(a) ==
    /\ task[a].pc = "page"
    /\ conversation' = [conversation EXCEPT
          ![task[a].thread] = Closed(conversation[task[a].thread])]
    /\ task' = [task EXCEPT ![a] = NoTask]
    /\ UNCHANGED <<comms, confirmed, carried, delivery, outside>>

Written == Cardinality({i \in DOMAIN comms : comms[i].message = Nil})
InWriting == Cardinality({a \in Advisers : task[a].pc \in {"note", "reply", "letter", "record"}})

\* replyInConversation reads whose conversation it is; a reply is refused as long
\* as nobody has said.  A letter goes to the client the page was rendered with.
StartWriting(a, kind) ==
    LET client == IF kind = "letter" THEN task[a].client ELSE conversation[task[a].thread].client
    IN  /\ task[a].pc = "page"
        /\ Written + InWriting < MaxWritten
        /\ kind # "note" => client # Nil
        /\ task' = [task EXCEPT ![a].pc = kind, ![a].client = client]
        /\ UNCHANGED <<stored, delivery, outside>>

\* sendCommunication: refused (a channel the client has declined, no address, no
\* name to sign with), or handed to the channel, which carries it or fails.
Send(a) ==
    /\ task[a].pc \in {"reply", "letter"}
    /\ \/ /\ task' = [task EXCEPT ![a] = NoTask]
          /\ UNCHANGED carried
       \/ /\ task' = [task EXCEPT ![a].pc = "record", ![a].outcome = "sent"]
          /\ carried' = [carried EXCEPT ![task[a].thread] = @ + 1]
       \/ /\ task' = [task EXCEPT ![a].pc = "record", ![a].outcome = "failed"]
          /\ UNCHANGED carried
    /\ UNCHANGED <<conversation, comms, confirmed, delivery, outside>>

\* Seeded fault: a message is down as sent whatever the channel said.
Outcome_Sent(a) == IF task[a].pc = "note" THEN "note" ELSE "sent"

Outcome(a) == IF task[a].pc = "note" THEN "note" ELSE task[a].outcome

\* Seeded fault: opening an answer leaves the conversation unread.
Touched_Unread(row, answered) == IF answered THEN [row EXCEPT !.due = FALSE] ELSE row

\* touch: a note to a colleague does not answer the client.
Touched(row, answered) ==
    [row EXCEPT !.due = IF answered THEN FALSE ELSE @, !.unread = FALSE]

\* The row of the note or of the message, and touch.
Record(a) ==
    LET t == task[a].thread
    IN  /\ task[a].pc \in {"note", "record"}
        /\ comms' = Append(comms, Row(t, Nil, task[a].client, Outcome(a)))
        /\ conversation' = [conversation EXCEPT ![t] = Touched(conversation[t], task[a].pc = "record")]
        /\ task' = [task EXCEPT ![a] = NoTask]
        /\ UNCHANGED <<confirmed, carried, delivery, outside>>

\* The request dies and its transaction with it; what the channel carried stays
\* carried.
Die(a) ==
    /\ task[a].pc \in {"note", "reply", "letter", "record"}
    /\ Mishap
    /\ task' = [task EXCEPT ![a] = NoTask]
    /\ UNCHANGED <<stored, delivery, accepted, dropped>>

\* fileAttachment, onto the case the page was rendered with: not onto a case of
\* somebody other than the sender, if it is known who that is.
FileAttachment(a, i) ==
    /\ task[a].pc = "page" /\ task[a].client # Nil
    /\ comms[i].thread = task[a].thread
    /\ comms[i].document # "none" /\ comms[i].file = "stored"
    /\ comms[i].client \in {Nil, task[a].client}
    /\ comms' = [comms EXCEPT ![i].document = "filed", ![i].holder = task[a].client]
    /\ task' = [task EXCEPT ![a] = NoTask]
    /\ UNCHANGED <<conversation, confirmed, carried, delivery, outside>>

\* rejectAttachment: whatever has become of the file so far.
RejectAttachment(a, i) ==
    /\ task[a].pc = "page"
    /\ comms[i].thread = task[a].thread /\ comms[i].file # "none"
    /\ comms' = [comms EXCEPT ![i].file = "skipped"]
    /\ task' = [task EXCEPT ![a] = NoTask]
    /\ UNCHANGED <<conversation, confirmed, carried, delivery, outside>>

-----------------------------------------------------------------------------
Provider(m) == \E d \in Deliveries : HandIn(d, m)

Serve(d) ==
    Route(d) \/ Receive(d) \/ Write(d) \/ InsertRefused(d) \/ Fetch(d) \/ Store(d) \/ Answer(d) \/ Scan(d)

Adviser(a) ==
    \/ \E t \in Threads : Open(a, t)
    \/ MarkRead(a) \/ Leave(a)
    \/ \E c \in Clients : LinkConversation(a, c)
    \/ Close(a)
    \/ \E kind \in {"note", "reply", "letter"} : StartWriting(a, kind)
    \/ Send(a) \/ Record(a) \/ Die(a)
    \/ \E i \in DOMAIN comms : FileAttachment(a, i) \/ RejectAttachment(a, i)

Next ==
    \/ \E m \in Messages : Provider(m)
    \/ \E d \in Deliveries : Serve(d) \/ Crash(d)
    \/ \E a \in Advisers : Adviser(a)

Spec == Init /\ [][Next]_vars

\* The provider tries again until it has an answer, and a request that is being
\* served is served on.  Advisers need not do anything.
Fairness ==
    /\ \A m \in Messages : WF_vars(Provider(m))
    /\ \A d \in Deliveries : WF_vars(Serve(d))

FairSpec == Spec /\ Fairness

-----------------------------------------------------------------------------
(* Every client a conversation or a message is put down to, and every      *)
(* client a document is held or filed for, is one somebody confirmed for   *)
(* the number it came from: whoever decides at once, on a page however     *)
(* old, whatever a delivery has read before (matching.ts: one client's     *)
(* statement on another client's case is the breach to prevent).           *)
OnlyConfirmed ==
    LET Owner(t, c) == c = Nil \/ <<Number[t], c>> \in confirmed
    IN  /\ \A t \in Threads : conversation[t] # Nil => Owner(t, conversation[t].client)
        /\ \A i \in DOMAIN comms :
              Owner(comms[i].thread, comms[i].client) /\ Owner(comms[i].thread, comms[i].holder)

(* The queue tells what is owed: a conversation with something unread owes *)
(* a reply, and a closed one owes nothing, although messages arrive while  *)
(* advisers close, answer and read (setConversationStatus, touch,          *)
(* receiveInbound).                                                        *)
OwedIsShown ==
    \A t \in Threads : conversation[t] # Nil =>
        /\ conversation[t].unread => conversation[t].due
        /\ conversation[t].due => conversation[t].status # "closed"

(* No more messages of a thread are down as sent than the channel carried: *)
(* a failed or refused message is never shown as one the client has.       *)
SentWasCarried ==
    \A t \in Threads :
        Cardinality({i \in DOMAIN comms : comms[i].thread = t /\ comms[i].kind = "sent"}) <= carried[t]

(* Nothing that failed a malware scan, or was never received, is held as a *)
(* document, let alone filed; and nothing is assessed for signs of         *)
(* vulnerability before it is known whose words they are (ingestAttachment,*)
(* fileAttachment, scanInboundForVulnerability).                           *)
HeldWasCleared ==
    \A i \in DOMAIN comms :
        /\ comms[i].document # "none" => comms[i].file \in {"stored", "skipped"}
        /\ comms[i].assessed # "no" => comms[i].client # Nil

(* A message a client writes ends up in a conversation, unless the lookup  *)
(* of the number failed: requests may die at any point, inserts may meet,  *)
(* and the provider tries again.                                           *)
Recorded(m) == \E i \in DOMAIN comms : comms[i].message = m
MessageArrives == \A m \in Messages : <>(Recorded(m) \/ m \in dropped)

(* vulnerability-scan.ts:120: a message the provider hands in twice is not *)
(* assessed twice.                                                         *)
AssessedOnce ==
    \A m \in Messages :
        Cardinality({i \in DOMAIN comms : comms[i].message = m /\ comms[i].assessed = "proposed"}) <= 1

=============================================================================
