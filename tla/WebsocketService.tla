--------------------------- MODULE WebsocketService ---------------------------
(***************************************************************************)
(* The push side of the server: sockets subscribe to orders or trades      *)
(* under request ids of their choice, are sent a first page read from the  *)
(* database, and from then on the events the handlers emit                 *)
(* (src/services/websocket_service.ts, src/events.ts).                     *)
(*                                                                         *)
(* The database is written by the handlers of the order book, which emit   *)
(* an event once their write is done (OrderBookService); here they are one *)
(* action for the write and one for the event.  A socket delivers in order *)
(* what is sent on it, so sending is showing, as long as it is open.       *)
(***************************************************************************)
EXTENDS Integers, FiniteSets, Tables

CONSTANTS
    Client,     \* sockets; a client that comes back has a new one
    RequestId,  \* the ids clients give to their subscriptions
    Item,       \* hashes of orders and of trades; integers, as they are sorted
    About,      \* per item: its channel, maker, taker, and amount (0 for a trade)
    Opts,       \* per socket, what it subscribes with: channel, maker, taker, trader
    Anyone,        \* a filter that is not given
    PerPage,    \* records in the first page
    MaxReads,   \* bound: first pages being read at the same time
    MaxNews,    \* bound: handlers that have written a row and not announced it yet
    Stored,     \* bound: the tables of fills that an earlier process may have left
    Written,    \* bound: the items whose rows are written and deleted; all others stay
    Expiring    \* bound: the orders that may expire

ASSUME WebsocketAssumption ==
    /\ Item \subseteq Nat /\ PerPage \in Nat /\ MaxReads \in Nat /\ MaxNews \in Nat
    /\ DOMAIN About = Item /\ Written \subseteq Item /\ Expiring \subseteq Item
    /\ \A i \in Item : About[i].amount \in Nat /\ About[i].channel \in {"orders", "trades"}
    /\ \A table \in Stored : /\ \E items \in SUBSET Item : table \in [items -> Nat]
                             /\ \A i \in DOMAIN table : table[i] <= About[i].amount

VARIABLES
    rows,        \* the database: the filledAmount of each order, 0 for each trade
    expired,     \* orders too near their expiration for getOrdersAsync
    news,        \* per item: handlers that wrote its row and have not emitted it yet
    conn,        \* per socket: "none", "open", "closing" (terminated) or "closed"
    isAlive,     \* the sockets with the isAlive flag
    unreachable, \* sockets whose peer has vanished without closing
    asked,       \* per socket, its subscriptions so far; their ids are ws.requestIds
    opts,        \* _requestIdToSubscriptionOpts
    socket,      \* _requestIdToSocket
    reads,       \* calls of makeInitialResponse under way
    seen,        \* per socket: the items sent to it, with the request id
    beyond,      \* history; per socket: the items that its first page did not reach,
                 \* with the request, and that were not written since
    serving      \* the interval runs and connections are accepted

store == <<rows, expired, news>>
peers == <<conn, isAlive, unreachable>>
shown == <<seen, beyond>>
vars == <<rows, expired, news, conn, isAlive, unreachable, asked, opts, socket,
          reads, seen, beyond, serving>>

Clients == {c \in Client : conn[c] \in {"open", "closing"}}  \* _server.clients
RequestIds(c) == {s[1] : s \in asked[c]}                     \* ws.requestIds

IsOpen(i) == i \in DOMAIN rows /\ (rows[i] < About[i].amount \/ About[i].channel = "trades")

\* _matchesOrdersChannelSubscription and _matchesTradesHistoryChannelSubscription.
Matches(i, o) ==
    /\ o.channel = About[i].channel
    /\ o.taker \in {Anyone, About[i].taker}
    /\ o.maker \in {Anyone, About[i].maker}
    /\ o.trader \in {Anyone, About[i].maker, About[i].taker}

Init ==
    /\ rows \in Stored
    /\ expired = {} /\ news = [i \in Item |-> 0]
    /\ conn = [c \in Client |-> "none"]
    /\ isAlive = {} /\ unreachable = {}
    /\ asked = [c \in Client |-> {}]
    /\ opts = [r \in {} |-> Anyone] /\ socket = [r \in {} |-> Anyone]
    /\ reads = {}
    /\ seen = [c \in Client |-> {}] /\ beyond = [c \in Client |-> {}]
    /\ serving = TRUE

\* What sockets have seen once each of the messages, a set of records of socket, id
\* and item, is sent; ws.send drops it where the socket is not open.
Sent(messages) ==
    [c \in Client |->
       seen[c] \cup {<<m.id, m.item>> :
           m \in {n \in messages : n.ws = c /\ conn[c] = "open" /\ c \notin unreachable}}]

-----------------------------------------------------------------------------
(* The handlers of the order book                                          *)

\* A row is inserted or saved anew, an order with any fill: posts and matches save
\* what they read, whatever the row holds by then.  It is announced later, unless it is
\* an order that postOrderAsync saves as filled.
Write(i, fill) ==
    /\ fill \in 0..About[i].amount
    /\ About[i].channel = "trades" => i \notin DOMAIN rows
    /\ rows' = Put(i, fill, rows)
    /\ \/ news[i] < MaxNews /\ news' = [news EXCEPT ![i] = @ + 1]
       \/ About[i].channel = "orders" /\ fill = About[i].amount /\ UNCHANGED news
    /\ beyond' = [c \in Client |-> {x \in beyond[c] : x[3] # i}]
    /\ UNCHANGED <<expired, peers, asked, opts, socket, reads, seen, serving>>

\* A canceled order is deleted, and announced by each of the cancellations that found it.
Delete(i) ==
    /\ i \in DOMAIN rows /\ About[i].channel = "orders"
    /\ rows' = Without(rows, {i})
    /\ \E n \in news[i] + 1..MaxNews : news' = [news EXCEPT ![i] = n]
    /\ UNCHANGED <<expired, peers, asked, opts, socket, reads, shown, serving>>

Expire(i) ==
    /\ i \in Expiring \ expired
    /\ expired' = expired \cup {i}
    /\ UNCHANGED <<rows, news, peers, asked, opts, socket, reads, shown, serving>>

\* Fault: a subscription counts once its first page is sent.
AnsweredIds(i) == {r \in DOMAIN opts \cap DOMAIN socket :
                      Matches(i, opts[r]) /\ \A rd \in reads : rd.id # r}

\* The request ids whose options match and that have a socket.
MatchingIds(i) == {r \in DOMAIN opts \cap DOMAIN socket : Matches(i, opts[r])}

\* emitOrder or emitTradeRecord: orderUpdate and tradeRecordUpdate send it to the
\* socket of every request id whose options match.
Emit(i) ==
    /\ news[i] > 0
    /\ news' = [news EXCEPT ![i] = @ - 1]
    /\ seen' = Sent({[ws |-> socket[r], id |-> r, item |-> i] : r \in MatchingIds(i)})
    /\ UNCHANGED <<rows, expired, peers, asked, opts, socket, reads, beyond, serving>>

-----------------------------------------------------------------------------
(* Sockets                                                                 *)

\* _processConnection
Connect(c) ==
    /\ serving /\ conn[c] = "none"
    /\ conn' = [conn EXCEPT ![c] = "open"]
    /\ isAlive' = isAlive \cup {c}
    /\ UNCHANGED <<store, unreachable, asked, opts, socket, reads, shown, serving>>

Register(c, r, o) ==
    /\ opts' = Put(r, o, opts)
    /\ socket' = Put(r, c, socket)

\* _processMessage of a subscription: register it, start to read the first page.
\* What a terminated socket had sent before is still processed until it is closed.
\* The client starts a new picture of what it subscribes to.
Subscribe(c, r, o) ==
    /\ c \in Clients \ unreachable
    /\ Cardinality(reads) < MaxReads
    /\ asked' = [asked EXCEPT ![c] = @ \cup {<<r, o>>}]
    /\ Register(c, r, o)
    /\ reads' = reads \cup {[id |-> r, ws |-> c, opts |-> o,
                             stage |-> "asked", page |-> {}]}
    /\ seen' = [seen EXCEPT ![c] = {x \in @ : x[1] # r}]
    /\ beyond' = [beyond EXCEPT ![c] = {x \in @ : x[1] # r}]
    /\ UNCHANGED <<store, peers, serving>>

\* A message that is no subscription: _processError answers and terminates.
Refuse(c) ==
    /\ conn[c] = "open" /\ c \notin unreachable
    /\ conn' = [conn EXCEPT ![c] = "closing"]
    /\ UNCHANGED <<store, isAlive, unreachable, asked, opts, socket, reads, shown, serving>>

\* How many of the records listed come before one: they are sorted by hash.
Ahead(i, listed) == Cardinality({j \in listed : j < i})

\* Fault: pages are counted from zero.
SecondPage(listed) == {i \in listed : Ahead(i, listed) \in PerPage..2 * PerPage - 1}

FirstPage(listed) == {i \in listed : Ahead(i, listed) < PerPage}

\* The database answers getOrdersAsync(1, 10, {}, {}) or getTradesHistoryAsync(1, 10),
\* whatever the options filter; what is filled is in the page and left out later.
Read(rd) ==
    LET listed == {i \in DOMAIN rows \ expired : About[i].channel = rd.opts.channel}
    IN  /\ rd \in reads /\ rd.stage = "asked"
        /\ reads' = (reads \ {rd}) \cup
             {[rd EXCEPT !.stage = "read", !.page = {i \in FirstPage(listed) : IsOpen(i)}]}
        /\ beyond' = [beyond EXCEPT ![rd.ws] = @ \cup
             {<<rd.id, rd.opts, i>> : i \in {j \in listed : Ahead(j, listed) >= PerPage}}]
        /\ UNCHANGED <<store, peers, asked, opts, socket, seen, serving>>

\* Fault: the first page ignores the filter.
Unfiltered(i, o) == TRUE

InResponse(i, o) == Matches(i, o)

\* makeInitialResponse goes on: what is left of the page and matches is sent, through
\* maps that hold this request alone.
Respond(rd) ==
    /\ rd \in reads /\ rd.stage = "read"
    /\ reads' = reads \ {rd}
    /\ seen' = Sent({[ws |-> rd.ws, id |-> rd.id, item |-> i] :
                       i \in {j \in rd.page : InResponse(j, rd.opts)}})
    /\ UNCHANGED <<store, peers, asked, opts, socket, beyond, serving>>

\* Fault: responsive sockets keep their flag.
AliveAfterPing == isAlive

\* Those that have not answered the last ping, and the flags once all are pinged.
Silent == {c \in Clients : c \notin isAlive}
FlagsAfterPing == isAlive \ Clients

\* _cleanupConnections
Cleanup ==
    /\ serving /\ Clients # {}
    /\ conn' = [c \in Client |-> IF c \in Silent THEN "closing" ELSE conn[c]]
    /\ isAlive' = FlagsAfterPing
    /\ UNCHANGED <<store, unreachable, asked, opts, socket, reads, shown, serving>>

\* _pongHandler
Pong(c) ==
    /\ conn[c] = "open" /\ c \notin unreachable /\ c \notin isAlive
    /\ isAlive' = isAlive \cup {c}
    /\ UNCHANGED <<store, conn, unreachable, asked, opts, socket, reads, shown, serving>>

\* The peer closes the socket, or vanishes.
Leave(c) ==
    /\ conn[c] = "open" /\ c \notin unreachable
    /\ \/ conn' = [conn EXCEPT ![c] = "closing"] /\ UNCHANGED unreachable
       \/ unreachable' = unreachable \cup {c} /\ UNCHANGED conn
    /\ UNCHANGED <<store, isAlive, asked, opts, socket, reads, shown, serving>>

\* Fault: the ids of the socket are left in one of the maps.
ForgetOpts(c) ==
    /\ opts' = Without(opts, RequestIds(c))
    /\ UNCHANGED socket

\* _closeHandler
Forget(c) ==
    /\ opts' = Without(opts, RequestIds(c))
    /\ socket' = Without(socket, RequestIds(c))

\* Nothing is left of the sockets in S, nor of what their clients have seen.
Gone(S) ==
    /\ conn' = [c \in Client |-> IF c \in S THEN "closed" ELSE conn[c]]
    /\ isAlive' = isAlive \ S /\ unreachable' = unreachable \ S
    /\ asked' = [c \in Client |-> IF c \in S THEN {} ELSE asked[c]]
    /\ seen' = [c \in Client |-> IF c \in S THEN {} ELSE seen[c]]
    /\ beyond' = [c \in Client |-> IF c \in S THEN {} ELSE beyond[c]]

\* A terminated socket is closed: ws drops it from its clients, _closeHandler runs.
Close(c) ==
    /\ conn[c] = "closing"
    /\ Gone({c})
    /\ Forget(c)
    /\ UNCHANGED <<store, reads, serving>>

\* destroyAsync
Destroy ==
    /\ serving
    /\ serving' = FALSE
    /\ conn' = [c \in Client |-> IF conn[c] = "open" THEN "closing" ELSE conn[c]]
    /\ opts' = [r \in {} |-> Anyone] /\ socket' = [r \in {} |-> Anyone]
    /\ UNCHANGED <<store, isAlive, unreachable, asked, reads, shown>>

\* A first page cannot be read.  Nobody awaits makeInitialResponse: the rejection is
\* unhandled and ends the process with all its sockets; a new one starts.
ReadFails(rd) ==
    /\ rd \in reads /\ rd.stage = "asked"
    /\ Gone({c \in Client : conn[c] # "none"})
    /\ opts' = [r \in {} |-> Anyone] /\ socket' = [r \in {} |-> Anyone]
    /\ reads' = {} /\ news' = [i \in Item |-> 0]
    /\ UNCHANGED <<rows, expired, serving>>

Next ==
    \/ \E i \in Written : Delete(i) \/ \E fill \in 0..About[i].amount : Write(i, fill)
    \/ \E i \in Item : Expire(i) \/ Emit(i)
    \/ \E c \in Client :
          \/ Connect(c) \/ Refuse(c) \/ Pong(c) \/ Leave(c) \/ Close(c)
          \/ \E r \in RequestId, o \in Opts[c] : Subscribe(c, r, o)
    \/ \E rd \in reads : Read(rd) \/ Respond(rd) \/ ReadFails(rd)
    \/ Cleanup
    \/ Destroy

\* The interval fires while it is set, a terminated socket is closed, handlers
\* emit what they wrote, and the database answers.
Fairness ==
    /\ WF_vars(Cleanup)
    /\ \A c \in Client : WF_vars(Close(c))
    /\ \A i \in Item : WF_vars(Emit(i))
    /\ \A c \in Client, r \in RequestId : \A o \in Opts[c] :
         /\ WF_vars(\E rd \in reads : <<rd.ws, rd.id, rd.opts>> = <<c, r, o>> /\ Read(rd))
         /\ WF_vars(\E rd \in reads : <<rd.ws, rd.id, rd.opts>> = <<c, r, o>> /\ Respond(rd))

Spec == Init /\ [][Next]_vars /\ Fairness

-----------------------------------------------------------------------------
(* Properties                                                              *)

\* The two maps are about the same ids, and every id in them is one that a socket
\* still there has asked for with these options: nothing is left of a closed
\* socket, not even when sockets share ids or subscribe while they are closed.
MapsAreLive ==
    /\ DOMAIN opts = DOMAIN socket
    /\ \A r \in DOMAIN opts :
         socket[r] \in Clients /\ <<r, opts[r]>> \in asked[socket[r]]

\* A socket is sent nothing but what a subscription of its own asks for, under the
\* id it gave, whoever else uses that id.
OnlyWhatWasAsked ==
    \A c \in Client : \A x \in seen[c] :
        \E s \in asked[c] : s[1] = x[1] /\ Matches(x[2], s[2])

Settled == reads = {} /\ \A i \in Item : news[i] = 0
Subscribed(c, r) == conn[c] = "open" /\ c \notin unreachable
                       /\ r \in DOMAIN opts \cap DOMAIN socket /\ socket[r] = c

\* The first page of the subscription did not reach the item when it was read, and the
\* item was not written since.
BeyondPage(c, r, o, i) == <<r, o, i>> \in beyond[c]

\* However writes, events and first pages overlap, a subscriber misses nothing: once
\* they are done, whatever matches and has something left was sent, unless it was in the
\* database and beyond the first page when that was read, and was not written since.
NothingMissed ==
    Settled => \A c \in Client, r \in RequestId, i \in Item :
        Subscribed(c, r) /\ IsOpen(i) /\ i \notin expired /\ Matches(i, opts[r])
            => <<r, i>> \in seen[c] \/ BeyondPage(c, r, opts[r], i)

\* A socket whose peer has vanished is closed in the end, though it never says so: none
\* stays vanished for good while the interval runs.
VanishedAreClosed == \A c \in Client : []<>~(c \in unreachable /\ serving)

\* What a subscription asks for, its first page reached, and was not sent.
Unserved(c, r, o, i) ==
    /\ Subscribed(c, r) /\ opts[r] = o /\ Matches(i, o)
    /\ IsOpen(i) /\ i \notin expired
    /\ <<r, i>> \notin seen[c] /\ ~BeyondPage(c, r, o, i)

\* An order or a trade that stays in the database reaches every subscriber that stays,
\* unless the subscriber's first page did not: none stays unserved for good.
RowsReachSubscribers ==
    \A c \in Client, r \in RequestId : \A o \in Opts[c] : \A i \in Item :
        []<>~Unserved(c, r, o, i)
=============================================================================
