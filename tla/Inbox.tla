-------------------------------- MODULE Inbox --------------------------------
(***************************************************************************)
(* The inbox of a workspace: messages arrive in callbacks of WhatsApp, are *)
(* stored with the contact they come from, and are announced to the        *)
(* clients that listen on a WebSocket, which also read conversations page  *)
(* by page.                                                                *)
(*                                                                         *)
(* A callback handles its messages in goroutines of their own over one     *)
(* transaction: rows carry the callback that wrote them until it commits,  *)
(* and until then only it sees them.  After the commit each message is     *)
(* announced by a goroutine of its own.  Announcements go through          *)
(* publish/subscribe to the instances that have a client of the workspace. *)
(*                                                                         *)
(* An announcement that fails is only logged, and so is a subscription.    *)
(*                                                                         *)
(* One workspace with one phone.  A "link" is a row that ties a contact to *)
(* the product (messaging_product_contacts), its key a number because      *)
(* lookups take the smallest.  The pages are those of a client that asks   *)
(* for the newest first, with one query for each connection.               *)
(***************************************************************************)
EXTENDS Naturals, FiniteSets, FiniteSetsExt

CONSTANTS
    Callback, Message, None,
    Batch,       \* callback -> messages it carries
    sender,      \* message -> telephone number
    Link,        \* keys of links
    Instance, Client,
    home,        \* client -> instance it is connected to
    Shared,      \* whether announcements go through publish/subscribe
    Pattern,     \* what is searched for
    hits,        \* pattern -> column -> the messages, or None, it is found in
    Asked,       \* queries that clients make
    PageSize, MaxDeliveries, MaxRequests, MaxFaults

ASSUME InboxAssumption ==
    /\ Batch \in [Callback -> SUBSET Message]
    /\ \A c, d \in Callback : c # d => Batch[c] \cap Batch[d] = {}
    /\ Message = UNION {Batch[c] : c \in Callback} /\ IsFiniteSet(Message)
    /\ Link \subseteq Nat /\ home \in [Client -> Instance] /\ Shared \in BOOLEAN
    /\ ~Shared => Cardinality(Instance) = 1
    /\ PageSize \in Nat \ {0} /\ MaxDeliveries \in Nat \ {0}
    /\ MaxRequests \in Nat /\ MaxFaults \in Nat

\* A row of messaging_product_contacts, and the transaction that has it.
LinkRow == [number : {sender[m] : m \in Message}, blocked : BOOLEAN, tx : Callback \cup {None}]

\* The columns of a row that are searched, and the three put together, in
\* which a pattern is also found that begins in one and ends in the next.
DataColumn == {"sender_data", "receiver_data", "product_data"}
Column     == DataColumn \cup {"together"}

\* The routes by which rows are listed and counted.
messageRoutes ==
    [kind : {"messages"}] \cup [kind : {"content"}, pattern : Pattern]
    \cup [kind : {"key"}, pattern : Pattern, column : DataColumn]
conversationRoutes ==
    [kind : {"conversations"}] \cup [kind : {"conversation"}, link : Link]
    \cup [kind : {"conversation content"}, link : Link, pattern : Pattern]
Query == messageRoutes \cup conversationRoutes

ASSUME QueryAssumption ==
    /\ hits \in [Pattern -> [Column -> SUBSET (Message \cup {None})]]
    /\ Asked \subseteq Query

ASSUME NoneAssumption ==
    None \notin LinkRow /\ None \notin Link /\ None \notin Callback /\ None \notin Message

VARIABLES
    link,       \* key -> row of messaging_product_contacts
    rows,       \* rows of messages
    callback,   \* callback -> where its delivery is
    work,       \* message -> where its goroutine is, and the link as it read it
    sending,    \* requests that WhatsApp is called for, with the link they read
    announce,   \* rows whose announcement is a goroutine not yet run
    clients,    \* instance -> clients in its channel of the workspace
    subscribed, \* instances with a subscription
    wire,       \* announcements on their way to a subscriber
    client,     \* client -> "off", "joining", "on" or "leaving"
    page,       \* client -> its query, the pages it has, whether it is at the end
    seen,       \* client -> rows it has, from pages or announcements
    requests, faults,
    known,      \* callback -> numbers that had a link when it began (history)
    silenced,   \* messages dropped since their link was blocked (history)
    deaf,       \* instances whose subscription failed (history)
    lost        \* announcements that did not get to an instance (history)

tables  == <<link, rows>>
calls   == <<callback, work, sending, announce>>
sockets == <<clients, subscribed, wire, client>>
reading == <<page, seen>>
bounds  == <<requests, faults>>
history == <<known, silenced, deaf, lost>>
vars    == <<tables, calls, sockets, reading, bounds, history>>

NoWork == [at |-> "none", link |-> None, blocked |-> FALSE]
NoPage == [query |-> [kind |-> "messages"], asked |-> 0, ended |-> FALSE]

\* A row of messages: the incoming message it holds, or None for an answer;
\* the link it is from or to; created_at; the transaction that has it, None
\* once that is committed.
Row(m, from, to, tx) ==
    [message |-> m, from |-> from, to |-> to, tx |-> tx,
     at |-> IF rows = {} THEN 0 ELSE 1 + Max({r.at : r \in rows})]

NewLink(n, tx) == [number |-> n, blocked |-> FALSE, tx |-> tx]

Init ==
    /\ link = [l \in Link |-> None]
    /\ rows = {}
    /\ callback = [c \in Callback |-> [at |-> "sent", deliveries |-> 0]]
    /\ work = [m \in Message |-> NoWork]
    /\ sending = {} /\ announce = {} /\ wire = {}
    /\ clients = [i \in Instance |-> {}] /\ subscribed = {}
    /\ client = [k \in Client |-> "off"]
    /\ page = [k \in Client |-> NoPage] /\ seen = [k \in Client |-> {}]
    /\ requests = 0 /\ faults = 0
    /\ known = [c \in Callback |-> {}] /\ silenced = {} /\ deaf = {} /\ lost = {}

----------------------------------------------------------------------------
(* Callbacks.                                                              *)

CallbackOf(m) == CHOOSE c \in Callback : m \in Batch[c]

LinksSeenBy(tx) == {l \in Link : link[l] # None /\ link[l].tx \in {None, tx}}
LinksOf(n, tx)  == {l \in LinksSeenBy(tx) : link[l].number = n}
GetWhatsAppContact == LinksSeenBy(None)
Stored          == {r \in rows : r.tx = None}

\* The product of the phone is read and a transaction begins.
Receive(c) ==
    /\ callback[c].at = "sent" /\ callback[c].deliveries < MaxDeliveries
    /\ callback' = [callback EXCEPT ![c] = [at |-> "open", deliveries |-> @.deliveries + 1]]
    /\ work' = [m \in Message |-> IF m \in Batch[c] THEN [NoWork EXCEPT !.at = "look"]
                                                    ELSE work[m]]
    /\ known' = [known EXCEPT ![c] = {link[l].number : l \in LinksSeenBy(None)}]
    /\ UNCHANGED <<tables, sending, announce, sockets, reading, bounds, silenced, deaf, lost>>

InCallback(m, step) == callback[CallbackOf(m)].at = "open" /\ work[m].at = step

\* Not the code: what the transaction itself has written is not looked at, and
\* nor is what others have.
LookNowhere(m) ==
    /\ InCallback(m, "look")
    /\ work' = [work EXCEPT ![m].at = "link"]
    /\ UNCHANGED <<tables, callback, sending, announce, sockets, reading, bounds, history>>

\* The first link of the number, if there is one.
Look(m) ==
    /\ InCallback(m, "look")
    /\ LET found == LinksOf(sender[m], CallbackOf(m))
       IN  work' = [work EXCEPT ![m] = IF found = {} THEN [NoWork EXCEPT !.at = "link"]
              ELSE [at |-> "store", link |-> Min(found), blocked |-> link[Min(found)].blocked]]
    /\ UNCHANGED <<tables, callback, sending, announce, sockets, reading, bounds, history>>

Unused(l) ==
    /\ link[l] = None
    /\ \A m \in Message : work[m].link # l
    /\ \A s \in sending : s.link # l

\* A contact and its link are inserted, under a key that sorts anywhere.
CreateLink(m) ==
    /\ InCallback(m, "link")
    /\ \E l \in Link :
         /\ Unused(l)
         /\ link' = [link EXCEPT ![l] = NewLink(sender[m], CallbackOf(m))]
         /\ work' = [work EXCEPT ![m] = [NoWork EXCEPT !.at = "store", !.link = l]]
    /\ UNCHANGED <<rows, callback, sending, announce, sockets, reading, bounds, history>>

\* The message is inserted with its link as it was read, which comes back if
\* it was deleted meanwhile.  When another callback has brought it back, the
\* insertion waits for the end of that transaction.
Store(m) ==
    /\ InCallback(m, "store") /\ ~work[m].blocked
    /\ link[work[m].link] # None => work[m].link \in LinksSeenBy(CallbackOf(m))
    /\ rows' = rows \cup {Row(m, work[m].link, None, CallbackOf(m))}
    /\ link' = [link EXCEPT ![work[m].link] =
                    IF @ = None THEN NewLink(sender[m], CallbackOf(m)) ELSE @]
    /\ work' = [work EXCEPT ![m].at = "done"]
    /\ UNCHANGED <<callback, sending, announce, sockets, reading, bounds, history>>

\* A message of a contact that was blocked when it was looked up is dropped.
Silence(m) ==
    /\ InCallback(m, "store") /\ work[m].blocked
    /\ work' = [work EXCEPT ![m].at = "done"]
    /\ silenced' = silenced \cup {m}
    /\ UNCHANGED <<tables, callback, sending, announce, sockets, reading, bounds, known, deaf, lost>>

\* What a rolled back transaction leaves: its rows are gone.
Forget(c) ==
    /\ link' = [l \in Link |-> IF link[l] # None /\ link[l].tx = c THEN None ELSE link[l]]
    /\ rows' = {r \in rows : r.tx # c}
    /\ work' = [m \in Message |-> IF m \in Batch[c] THEN NoWork ELSE work[m]]

\* Not the code: one message that cannot be stored is passed over.
PassOver(c) ==
    /\ callback[c].at = "open" /\ faults < MaxFaults
    /\ \E m \in Batch[c] : work[m].at = "store" /\ work' = [work EXCEPT ![m].at = "done"]
    /\ faults' = faults + 1
    /\ UNCHANGED <<tables, callback, sending, announce, sockets, reading, requests, history>>

\* A statement, the commit or the process fails.  The callback is answered
\* with an error, or not at all, and WhatsApp posts it again.
CallbackFails(c) ==
    /\ callback[c].at = "open" /\ faults < MaxFaults
    /\ Forget(c)
    /\ callback' = [callback EXCEPT ![c].at = "sent"]
    /\ faults' = faults + 1
    /\ silenced' = silenced \ Batch[c]
    /\ UNCHANGED <<sending, announce, sockets, reading, requests, known, deaf, lost>>

Commit(c) ==
    /\ callback[c].at = "open" /\ \A m \in Batch[c] : work[m].at = "done"
    /\ LET mine == {r \in rows : r.tx = c}
           done == {[r EXCEPT !.tx = None] : r \in mine}
       IN  /\ rows' = (rows \ mine) \cup done
           /\ announce' = announce \cup done
    /\ link' = [l \in Link |-> IF link[l] # None /\ link[l].tx = c
                               THEN [link[l] EXCEPT !.tx = None] ELSE link[l]]
    /\ work' = [m \in Message |-> IF m \in Batch[c] THEN NoWork ELSE work[m]]
    /\ callback' = [callback EXCEPT ![c].at = "answered"]
    /\ UNCHANGED <<sending, sockets, reading, bounds, history>>

\* The answer is lost on the way: WhatsApp posts again what is stored.
AnswerLost(c) ==
    /\ callback[c].at = "answered" /\ callback[c].deliveries < MaxDeliveries
    /\ faults < MaxFaults
    /\ callback' = [callback EXCEPT ![c].at = "sent"]
    /\ faults' = faults + 1
    /\ UNCHANGED <<tables, work, sending, announce, sockets, reading, requests, history>>

----------------------------------------------------------------------------
(* Operators' requests.                                                    *)

SetBlocked(l, b) ==
    /\ requests < MaxRequests /\ l \in GetWhatsAppContact /\ link[l].blocked # b
    /\ link' = [link EXCEPT ![l].blocked = b]
    /\ requests' = requests + 1
    /\ UNCHANGED <<rows, calls, sockets, reading, faults, history>>

BlockContact(l)   == SetBlocked(l, TRUE)
UnblockContact(l) == SetBlocked(l, FALSE)

\* A link made by hand: nothing looks for one of the number.
LinkByHand(n) ==
    /\ requests < MaxRequests
    /\ \E l \in Link : Unused(l) /\ link' = [link EXCEPT ![l] = NewLink(n, None)]
    /\ requests' = requests + 1
    /\ UNCHANGED <<rows, calls, sockets, reading, faults, history>>

\* With a contact of its own, or with one that is there.
CreateWhatsAppContact(n) == LinkByHand(n)
CreateContact(n)         == LinkByHand(n)

\* Only a link without messages can go.  It takes back what another request
\* did, and so is not counted.
DeleteContact(l) ==
    /\ l \in GetWhatsAppContact
    /\ \A r \in rows : l \notin {r.from, r.to}
    /\ link' = [link EXCEPT ![l] = None]
    /\ known' = [c \in Callback |-> known[c] \ {link[l].number}]
    /\ UNCHANGED <<rows, calls, sockets, reading, bounds, silenced, deaf, lost>>

\* The link is read, and WhatsApp is called.
SendWhatsAppMessage(l) ==
    /\ requests < MaxRequests /\ l \in GetWhatsAppContact
    /\ sending' = sending \cup {[request |-> requests, link |-> l, read |-> link[l]]}
    /\ requests' = requests + 1
    /\ UNCHANGED <<tables, callback, work, announce, sockets, reading, faults, history>>

\* The answer is stored, with the link as it was read, and announced by the
\* request that sent it.
SaveSent(s) ==
    /\ sending' = sending \ {s}
    /\ link[s.link] # None => s.link \in GetWhatsAppContact
    /\ link' = [link EXCEPT ![s.link] = IF @ = None THEN s.read ELSE @]
    /\ rows' = rows \cup {Row(None, None, s.link, None)}
    /\ announce' = announce \cup {Row(None, None, s.link, None)}
    /\ UNCHANGED <<callback, work, sockets, reading, bounds, history>>

\* WhatsApp refuses the message, or the row is not stored.
SendFails(s) ==
    /\ sending' = sending \ {s}
    /\ UNCHANGED <<tables, callback, work, announce, sockets, reading, bounds, history>>

----------------------------------------------------------------------------
(* WebSockets.  channelSwapper lets one client at a time join or leave the  *)
(* channel of a workspace on an instance.                                   *)

Busy(i) == \E k \in Client : home[k] = i /\ client[k] \in {"joining", "leaving"}

AppendClient(k) ==
    /\ client[k] = "off" /\ ~Busy(home[k])
    /\ clients' = [clients EXCEPT ![home[k]] = @ \cup {k}]
    /\ client' = [client EXCEPT ![k] =
                    IF Shared /\ clients[home[k]] = {} THEN "joining" ELSE "on"]
    /\ UNCHANGED <<tables, calls, subscribed, wire, reading, bounds, history>>

subscribeWorkspace(k) ==
    /\ client[k] = "joining"
    /\ subscribed' = subscribed \cup {home[k]}
    /\ client' = [client EXCEPT ![k] = "on"]
    /\ UNCHANGED <<tables, calls, clients, wire, reading, bounds, history>>

\* The error is logged: the clients of the instance hear nothing, and those
\* that join them do not try again.
SubscribeFails(k) ==
    /\ client[k] = "joining" /\ faults < MaxFaults
    /\ client' = [client EXCEPT ![k] = "on"] /\ faults' = faults + 1
    /\ deaf' = deaf \cup {home[k]}
    /\ UNCHANGED <<tables, calls, clients, subscribed, wire, reading,
                   requests, known, silenced, lost>>

\* The connection ends, and with it what the client knew.  The last one of an
\* instance takes the channel with it, and the next one subscribes again.
RemoveClient(k) ==
    /\ client[k] = "on" /\ ~Busy(home[k])
    /\ clients' = [clients EXCEPT ![home[k]] = @ \ {k}]
    /\ client' = [client EXCEPT ![k] =
                    IF clients[home[k]] = {k} /\ home[k] \in subscribed
                    THEN "leaving" ELSE "off"]
    /\ deaf' = IF clients[home[k]] = {k} THEN deaf \ {home[k]} ELSE deaf
    /\ seen' = [seen EXCEPT ![k] = {}] /\ page' = [page EXCEPT ![k] = NoPage]
    /\ UNCHANGED <<tables, calls, subscribed, wire, bounds, known, silenced, lost>>

\* What the old subscription had still to deliver goes to its empty channel.
Unsubscribe(k) ==
    /\ client[k] = "leaving"
    /\ subscribed' = subscribed \ {home[k]}
    /\ wire' = {w \in wire : w.to # home[k]}
    /\ client' = [client EXCEPT ![k] = "off"]
    /\ UNCHANGED <<tables, calls, clients, reading, bounds, history>>

Hear(r, ks) == seen' = [k \in Client |-> IF k \in ks THEN seen[k] \cup {r} ELSE seen[k]]

\* Not the code: the instance tells its own clients.
BroadcastAtHome(r) ==
    /\ r \in announce
    /\ announce' = announce \ {r}
    /\ \E i \in Instance : Hear(r, clients[i])
    /\ UNCHANGED <<tables, callback, work, sending, sockets, page, bounds, history>>

BroadcastToWorkspace(r) ==
    /\ r \in announce
    /\ announce' = announce \ {r}
    /\ IF Shared
       THEN /\ wire' = wire \cup {[to |-> i, row |-> r] : i \in subscribed}
            /\ UNCHANGED seen
       ELSE Hear(r, UNION {clients[i] : i \in Instance}) /\ UNCHANGED wire
    /\ UNCHANGED <<tables, callback, work, sending, clients, subscribed, client, page, bounds, history>>

\* The goroutine of a subscription hands on what it receives.
Deliver(w) ==
    /\ wire' = wire \ {w}
    /\ Hear(w.row, clients[w.to])
    /\ UNCHANGED <<tables, calls, clients, subscribed, client, page, bounds, history>>

\* What did not get to instances.
Lose(ws) ==
    /\ faults < MaxFaults
    /\ faults' = faults + 1
    /\ lost' = lost \cup ws

\* The error of encoding or publishing is logged, and no one hears of the row.
PublishFails(r) ==
    /\ Shared
    /\ announce' = announce \ {r}
    /\ Lose({[to |-> i, row |-> r] : i \in Instance})
    /\ UNCHANGED <<tables, callback, work, sending, sockets, reading, requests,
                   known, silenced, deaf>>

\* What an instance cannot decode it passes over.
DecodingFails(w) ==
    /\ wire' = wire \ {w}
    /\ Lose({w})
    /\ UNCHANGED <<tables, calls, clients, subscribed, client, reading, requests,
                   known, silenced, deaf>>

\* A process dies: its connections and its subscription end, and announcements
\* of what is committed that were its goroutines are not made.  Callbacks that
\* it handled fail with CallbackFails, requests with SendFails.
InstanceDies(i) ==
    /\ \E R \in SUBSET announce :
         announce' = announce \ R /\ Lose({[to |-> j, row |-> r] : j \in Instance, r \in R})
    /\ clients' = [clients EXCEPT ![i] = {}]
    /\ subscribed' = subscribed \ {i} /\ deaf' = deaf \ {i}
    /\ wire' = {w \in wire : w.to # i}
    /\ client' = [k \in Client |-> IF home[k] = i THEN "off" ELSE client[k]]
    /\ seen' = [k \in Client |-> IF home[k] = i THEN {} ELSE seen[k]]
    /\ page' = [k \in Client |-> IF home[k] = i THEN NoPage ELSE page[k]]
    /\ UNCHANGED <<tables, callback, work, sending, requests, known, silenced>>

----------------------------------------------------------------------------
(* Queries: all messages, one conversation, the newest message of each, and *)
(* searches in them; page by page, and how many there are.                  *)

\* PaginateQuery: newest first, from an offset.
Before(s, r) == Cardinality({x \in s : x.at > r.at})
Page(s, n) == {r \in s : Before(s, r) \in n * PageSize .. (n + 1) * PageSize - 1}

Conversation(l) == {r \in Stored : r.from = l \/ r.to = l}

\* COALESCE(from_id, to_id), by which conversations are told apart.
With(r) == IF r.from # None THEN r.from ELSE r.to

\* Not the code: answers have no one they are from, and are left out.
LatestReceived ==
    {r \in Stored : r.from # None /\ \A x \in Stored : With(x) = With(r) => x.at <= r.at}

LatestMessagesForEachUser ==
    {r \in Stored : \A x \in Stored : With(x) = With(r) => x.at <= r.at}

Finds(p, column, r) == r.message \in hits[p][column]
ContentLike(p) == {r \in Stored : Finds(p, "together", r)}
ContentKeyLike(p, column) == {r \in Stored : Finds(p, column, r)}
ConversationContentLike(l, p) == {r \in Conversation(l) : Finds(p, "together", r)}

\* What the handlers answer with: a page of what the services select, ...
Get(n)                        == Page(Stored, n)
GetContentLike(p, n)          == Page(ContentLike(p), n)
GetContentKeyLike(p, column, n) == Page(ContentKeyLike(p, column), n)
GetConversations(n)           == Page(LatestMessagesForEachUser, n)
GetConversation(l, n)         == Page(Conversation(l), n)
ConversationContentLikeByMessagingProductContact(l, p, n) == Page(ConversationContentLike(l, p), n)

\* ... or how many there are.  Searches in one column have no count.
Count                              == Cardinality(Stored)
CountContentLike(p)                == Cardinality(ContentLike(p))
CountDistinctConversations         == Cardinality({With(r) : r \in Stored})
CountConversations(l)              == Cardinality(Conversation(l))
CountConversationsByMessagingProductContact(l) == CountConversations(l)
CountConversationContentLike(l, p) == Cardinality(ConversationContentLike(l, p))

Answer(q, n) ==
    CASE q.kind = "messages"      -> Get(n)
      [] q.kind = "content"       -> GetContentLike(q.pattern, n)
      [] q.kind = "key"           -> GetContentKeyLike(q.pattern, q.column, n)
      [] q.kind = "conversations" -> GetConversations(n)
      [] q.kind = "conversation"  -> GetConversation(q.link, n)
      [] q.kind = "conversation content" ->
            ConversationContentLikeByMessagingProductContact(q.link, q.pattern, n)

HowMany(q) ==
    CASE q.kind = "messages"      -> Count
      [] q.kind = "content"       -> CountContentLike(q.pattern)
      [] q.kind = "conversations" -> CountDistinctConversations
      [] q.kind = "conversation"  -> CountConversationsByMessagingProductContact(q.link)
      [] q.kind = "conversation content" -> CountConversationContentLike(q.link, q.pattern)

\* A client that is connected chooses what to ask for, and reads page after
\* page until one is not full, ...
QueryOf(k) == IF page[k].asked = 0 THEN Asked ELSE {page[k].query}

GetPage(k) ==
    /\ client[k] = "on" /\ ~page[k].ended
    /\ \E q \in QueryOf(k) :
         LET p == Answer(q, page[k].asked)
         IN  /\ seen' = [seen EXCEPT ![k] = @ \cup p]
             /\ page' = [page EXCEPT ![k] = [query |-> q, asked |-> @.asked + 1,
                                            ended |-> Cardinality(p) < PageSize]]
    /\ UNCHANGED <<tables, calls, sockets, bounds, history>>

\* ... or asks how many there are, and has as many.
GetCount(k) ==
    /\ client[k] = "on" /\ ~page[k].ended
    /\ \E q \in {x \in QueryOf(k) : x.kind # "key"} :
         /\ HowMany(q) <= page[k].asked * PageSize
         /\ page' = [page EXCEPT ![k] = [query |-> q, asked |-> @.asked, ended |-> TRUE]]
    /\ UNCHANGED <<tables, calls, sockets, seen, bounds, history>>

----------------------------------------------------------------------------
contactRoutes ==
    \/ \E l \in Link : BlockContact(l) \/ UnblockContact(l) \/ DeleteContact(l)
    \/ \E m \in Message : CreateContact(sender[m]) \/ CreateWhatsAppContact(sender[m])

Next ==
    \/ \E c \in Callback : Receive(c) \/ CallbackFails(c) \/ Commit(c) \/ AnswerLost(c)
    \/ \E m \in Message : Look(m) \/ CreateLink(m) \/ Store(m) \/ Silence(m)
    \/ \E l \in Link : SendWhatsAppMessage(l)
    \/ \E s \in sending : SaveSent(s) \/ SendFails(s)
    \/ contactRoutes
    \/ \E k \in Client : AppendClient(k) \/ subscribeWorkspace(k) \/ SubscribeFails(k)
                         \/ RemoveClient(k) \/ Unsubscribe(k) \/ GetPage(k) \/ GetCount(k)
    \/ \E r \in announce : BroadcastToWorkspace(r) \/ PublishFails(r)
    \/ \E w \in wire : Deliver(w) \/ DecodingFails(w)
    \/ \E i \in Instance : InstanceDies(i)

Spec == Init /\ [][Next]_vars

----------------------------------------------------------------------------
(* Properties.                                                             *)

IsRow(r) ==
    /\ r.message \in Message \cup {None} /\ r.tx \in Callback \cup {None}
    /\ r.from \in Link \cup {None} /\ r.to \in Link \cup {None}
    /\ (r.from = None) # (r.to = None) /\ r.at \in Nat

\* Rows have their shape, and refer to links that are there.
TypeOK ==
    /\ link \in [Link -> LinkRow \cup {None}]
    /\ \A r \in rows : IsRow(r) /\ \E l \in LinksSeenBy(r.tx) : l \in {r.from, r.to}
    /\ \A c \in Callback : callback[c].at \in {"sent", "open", "answered"}
                           /\ callback[c].deliveries \in 0..MaxDeliveries
    /\ \A m \in Message : work[m].at \in {"none", "look", "link", "store", "done"}
                          /\ work[m].link \in Link \cup {None}
    /\ client \in [Client -> {"off", "joining", "on", "leaving"}]
    /\ clients \in [Instance -> SUBSET Client] /\ subscribed \subseteq Instance

\* A callback that was answered has stored each of its messages, but those of
\* contacts that were blocked: none is dropped because another one failed.
AnsweredMeansStored ==
    \A c \in Callback : callback[c].at = "answered" =>
        \A m \in Batch[c] : m \in silenced \/ \E r \in Stored : r.message = m

\* A number that had a link when a callback began gets no other one from it:
\* only messages that first come at the same time can split a conversation.
SplitOnlyByRace ==
    \A m \in Message : InCallback(m, "link") => sender[m] \notin known[CallbackOf(m)]

\* What a query asks for that is a matter of each row alone.
Wanted(q, r) ==
    CASE q.kind = "messages"      -> TRUE
      [] q.kind = "content"       -> Finds(q.pattern, "together", r)
      [] q.kind = "key"           -> Finds(q.pattern, q.column, r)
      [] q.kind = "conversations" -> FALSE
      [] q.kind = "conversation"  -> q.link \in {r.from, r.to}
      [] q.kind = "conversation content" ->
            q.link \in {r.from, r.to} /\ Finds(q.pattern, "together", r)

\* A client that has joined and then read to the end, and no announcement is
\* still on its way.
Through(k) == client[k] = "on" /\ page[k].ended /\ announce = {} /\ wire = {}

\* What it was to hear of: all, but what an announcement that failed was of.
Told(k, r) == home[k] \notin deaf /\ [to |-> home[k], row |-> r] \notin lost

\* A client that listens, and then reads to the end what it asks for, has every
\* row of it once announcements are through, however many are stored while it
\* reads and push others to pages it has passed; and no client has a row that
\* was announced and then not stored.
NothingMissed ==
    \A k \in Client : Through(k) =>
        /\ seen[k] \subseteq Stored
        /\ \A r \in Stored : Wanted(page[k].query, r) /\ Told(k, r) => r \in seen[k]

\* A client that listens, and then reads the list of conversations to the end,
\* knows the newest message of each: a conversation goes to the front of the
\* list when a message is stored, and none is passed over for that.
NewestKnown ==
    \A k \in Client : Through(k) /\ page[k].query.kind = "conversations" =>
        \A l \in Link : \A r \in Conversation(l) :
            (\A x \in Conversation(l) : x.at <= r.at) /\ Told(k, r) => r \in seen[k]

\* Refuted: a subscription that fails is not tried again, and an announcement
\* that fails is not repeated, so that clients may hear of nothing.
ListenersHear ==
    \A k \in Client : Through(k) /\ page[k].query.kind = "messages" => seen[k] = Stored
=============================================================================
