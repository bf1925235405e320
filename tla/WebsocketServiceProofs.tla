------------------------ MODULE WebsocketServiceProofs ------------------------
(***************************************************************************)
(* The push side of the server, for any number of sockets, ids, records    *)
(* and first pages under way: its maps hold no closed socket, a socket     *)
(* gets what it asked for, and a subscriber misses nothing.                *)
(***************************************************************************)
EXTENDS WebsocketService, FiniteSetTheorems, TLAPS

USE WebsocketAssumption

Options == UNION {Opts[c] : c \in Client}

Types ==
    /\ DOMAIN rows \subseteq Item
    /\ news \in [Item -> Nat]
    /\ conn \in [Client -> {"none", "open", "closing", "closed"}]
    /\ asked \in [Client -> SUBSET (RequestId \X Options)]
    /\ reads \subseteq [id: RequestId, ws: Client, opts: Options,
                        stage: {"asked", "read"}, page: SUBSET Item]
    /\ DOMAIN socket \subseteq RequestId
    /\ DOMAIN seen = Client /\ DOMAIN beyond = Client

\* A first page under way was asked for by its socket, unless that is gone.
ReadsAreAsked ==
    \A rd \in reads : /\ conn[rd.ws] # "none"
                      /\ rd.ws \in Clients => <<rd.id, rd.opts>> \in asked[rd.ws]

\* What is still to be sent to a subscriber of an item: its event, or the first page of
\* this very subscription.
OnItsWay(c, r, i) ==
    \/ news[i] > 0
    \/ \E rd \in reads : /\ rd.ws = c /\ rd.id = r /\ rd.opts = opts[r]
                         /\ rd.stage = "asked" \/ i \in rd.page

\* A subscription that an item is to be sent to.
Owed(c, r, i) ==
    /\ Subscribed(c, r) /\ Matches(i, opts[r])
    /\ IsOpen(i) /\ i \notin expired /\ ~BeyondPage(c, r, opts[r], i)

Served(c, r, i) == <<r, i>> \in seen[c] \/ OnItsWay(c, r, i)

\* Nothing is missed while things are under way, either: this is NothingMissed at all
\* times, and says where what has not been sent yet comes from.
NothingLost ==
    \A c \in Client, r \in RequestId, i \in Item : Owed(c, r, i) => Served(c, r, i)

PushInv == Types /\ MapsAreLive /\ ReadsAreAsked /\ OnlyWhatWasAsked /\ NothingLost

-----------------------------------------------------------------------------
(* Tables                                                                  *)

\* The table after has one entry more than before, or another value for it.
Puts(after, key, value, before) ==
    /\ DOMAIN after = DOMAIN before \cup {key}
    /\ after[key] = value
    /\ \A other \in DOMAIN before : other # key => after[other] = before[other]

LEMMA Putting ==
    ASSUME NEW key, NEW value, NEW before
    PROVE  Puts(Put(key, value, before), key, value, before)
BY DEF Puts, Put, Override

\* The table after lacks the entries of some keys.
Drops(after, keys, before) ==
    /\ DOMAIN after = DOMAIN before \ keys
    /\ \A key \in DOMAIN after : after[key] = before[key]

LEMMA Dropping ==
    ASSUME NEW keys, NEW before
    PROVE  Drops(Without(before, keys), keys, before)
BY DEF Drops, Without

\* What a socket has been sent once messages are sent to it.
LEMMA Sending ==
    ASSUME NEW messages, NEW c \in Client
    PROVE  /\ DOMAIN Sent(messages) = Client
           /\ seen[c] \subseteq Sent(messages)[c]
           /\ \A m \in messages : m.ws = c /\ conn[c] = "open" /\ c \notin unreachable
                => <<m.id, m.item>> \in Sent(messages)[c]
           /\ \A x \in Sent(messages)[c] :
                \/ x \in seen[c]
                \/ \E m \in messages : m.ws = c /\ conn[c] = "open" /\ x = <<m.id, m.item>>
BY DEF Sent

-----------------------------------------------------------------------------
(* Types                                                                   *)

LEMMA InitPush == Init => PushInv
<1>1. SUFFICES ASSUME Init
               PROVE  PushInv
  OBVIOUS
<1>2. DOMAIN rows \subseteq Item
  BY <1>1 DEF Init
<1>3. Types
  BY <1>1, <1>2 DEF Init, Types
<1>4. DOMAIN opts = {} /\ DOMAIN socket = {} /\ reads = {}
  BY <1>1 DEF Init
<1>5. MapsAreLive /\ ReadsAreAsked
  BY <1>4 DEF MapsAreLive, ReadsAreAsked
<1>6. OnlyWhatWasAsked
  BY <1>1 DEF Init, OnlyWhatWasAsked
<1>7. NothingLost
  BY <1>1, <1>4 DEF NothingLost, Owed, Subscribed
<1>8. QED
  BY <1>3, <1>5, <1>6, <1>7 DEF PushInv

LEMMA TypesKept ==
    ASSUME Types, [Next]_vars
    PROVE  Types'
<1> USE DEF Types
<1>1. ASSUME NEW i \in Written, NEW fill \in 0..About[i].amount, Write(i, fill)
      PROVE  Types'
  <2>1. i \in Item /\ rows' = Put(i, fill, rows)
    BY <1>1 DEF Write
  <2>2. DOMAIN rows' = DOMAIN rows \cup {i}
    BY ONLY <2>1, Putting DEF Puts
  <2>3. news' \in [Item -> Nat]
    BY <1>1, <2>1 DEF Write
  <2>4. DOMAIN beyond' = Client
    BY <1>1 DEF Write
  <2>5. QED
    BY <1>1, <2>1, <2>2, <2>3, <2>4 DEF Write, peers
<1>2. ASSUME NEW i \in Written, Delete(i)
      PROVE  Types'
  <2>1. rows' = Without(rows, {i}) /\ i \in Item
    BY <1>2 DEF Delete
  <2>2. DOMAIN rows' \subseteq Item
    BY <2>1 DEF Without
  <2>3. news' \in [Item -> Nat]
    <3>1. PICK n \in news[i] + 1..MaxNews : news' = [news EXCEPT ![i] = n]
      BY <1>2 DEF Delete
    <3>2. n \in Nat
      BY <2>1
    <3>3. QED
      BY <3>1, <3>2
  <2>4. QED
    BY <1>2, <2>2, <2>3 DEF Delete, peers, shown
<1>3. ASSUME NEW i \in Item, Expire(i)
      PROVE  Types'
  BY <1>3 DEF Expire, peers, shown
<1>4. ASSUME NEW i \in Item, Emit(i)
      PROVE  Types'
  <2>1. news' \in [Item -> Nat]
    BY <1>4 DEF Emit
  <2>2. DOMAIN seen' = Client
    BY <1>4 DEF Emit, Sent
  <2>3. QED
    BY <1>4, <2>1, <2>2 DEF Emit, peers
<1>5. ASSUME NEW c \in Client, Connect(c)
      PROVE  Types'
  BY <1>5 DEF Connect, store, shown
<1>6. ASSUME NEW c \in Client, Refuse(c)
      PROVE  Types'
  BY <1>6 DEF Refuse, store, shown
<1>7. ASSUME NEW c \in Client, Pong(c)
      PROVE  Types'
  BY <1>7 DEF Pong, store, shown
<1>8. ASSUME NEW c \in Client, Leave(c)
      PROVE  Types'
  BY <1>8 DEF Leave, store, shown
<1>9. ASSUME NEW c \in Client, Close(c)
      PROVE  Types'
  <2>1. conn' \in [Client -> {"none", "open", "closing", "closed"}]
    BY <1>9 DEF Close, Gone
  <2>2. asked' \in [Client -> SUBSET (RequestId \X Options)]
    BY <1>9 DEF Close, Gone
  <2>3. DOMAIN socket' \subseteq RequestId
    <3>1. socket' = Without(socket, RequestIds(c))
      BY <1>9 DEF Close, Forget
    <3>2. QED
      BY <3>1 DEF Without
  <2>4. QED
    BY <1>9, <2>1, <2>2, <2>3 DEF Close, Gone, store
<1>10. ASSUME NEW c \in Client, NEW r \in RequestId, NEW o \in Opts[c], Subscribe(c, r, o)
       PROVE  Types'
  <2>1. o \in Options
    BY DEF Options
  <2>2. {} \in SUBSET Item
    OBVIOUS
  <2>3. reads' \subseteq [id: RequestId, ws: Client, opts: Options,
                          stage: {"asked", "read"}, page: SUBSET Item]
    BY <1>10, <2>1, <2>2 DEF Subscribe
  <2>4. asked' \in [Client -> SUBSET (RequestId \X Options)]
    BY <1>10, <2>1 DEF Subscribe
  <2>5. DOMAIN socket' \subseteq RequestId
    <3>1. socket' = Put(r, c, socket)
      BY <1>10 DEF Subscribe, Register
    <3>2. DOMAIN socket' = DOMAIN socket \cup {r}
      BY ONLY <3>1, Putting DEF Puts
    <3>3. QED
      BY <3>2
  <2>6. DOMAIN seen' = Client /\ DOMAIN beyond' = Client
    BY <1>10 DEF Subscribe
  <2>7. QED
    BY <1>10, <2>3, <2>4, <2>5, <2>6 DEF Subscribe, store, peers
<1>11. ASSUME NEW rd \in reads, Read(rd)
       PROVE  Types'
  <2> DEFINE listed == {i \in DOMAIN rows \ expired : About[i].channel = rd.opts.channel}
             page == {i \in FirstPage(listed) : IsOpen(i)}
  <2>1. page \in SUBSET Item
    BY DEF FirstPage
  <2> HIDE DEF page
  <2>2. [rd EXCEPT !.stage = "read", !.page = page]
          \in [id: RequestId, ws: Client, opts: Options,
               stage: {"asked", "read"}, page: SUBSET Item]
    <3>1. rd \in [id: RequestId, ws: Client, opts: Options,
                  stage: {"asked", "read"}, page: SUBSET Item]
      OBVIOUS
    <3>2. QED
      BY ONLY <2>1, <3>1
  <2>3. reads' = (reads \ {rd}) \cup {[rd EXCEPT !.stage = "read", !.page = page]}
    BY <1>11 DEF Read, page
  <2>4. DOMAIN beyond' = Client
    BY <1>11 DEF Read
  <2>5. QED
    BY <1>11, <2>2, <2>3, <2>4 DEF Read, store, peers
<1>12. ASSUME NEW rd \in reads, Respond(rd)
       PROVE  Types'
  <2>1. DOMAIN seen' = Client
    BY <1>12 DEF Respond, Sent
  <2>2. reads' \subseteq reads
    BY <1>12 DEF Respond
  <2>3. QED
    BY <1>12, <2>1, <2>2 DEF Respond, store, peers
<1>13. ASSUME NEW rd \in reads, ReadFails(rd)
       PROVE  Types'
  <2>1. conn' \in [Client -> {"none", "open", "closing", "closed"}]
    BY <1>13 DEF ReadFails, Gone
  <2>2. asked' \in [Client -> SUBSET (RequestId \X Options)]
    BY <1>13 DEF ReadFails, Gone
  <2>3. DOMAIN socket' \subseteq RequestId /\ DOMAIN seen' = Client /\ DOMAIN beyond' = Client
    BY <1>13 DEF ReadFails, Gone
  <2>4. news' \in [Item -> Nat]
    BY <1>13 DEF ReadFails
  <2>5. QED
    BY <1>13, <2>1, <2>2, <2>3, <2>4 DEF ReadFails
<1>14. CASE Cleanup
  BY <1>14 DEF Cleanup, store, shown
<1>15. CASE Destroy
  <2>1. conn' \in [Client -> {"none", "open", "closing", "closed"}]
    BY <1>15 DEF Destroy
  <2>2. DOMAIN socket' \subseteq RequestId
    BY <1>15 DEF Destroy
  <2>3. QED
    BY <1>15, <2>1, <2>2 DEF Destroy, store, shown
<1>16. CASE UNCHANGED vars
  BY <1>16 DEF vars
<1>17. QED
  BY <1>1, <1>2, <1>3, <1>4, <1>5, <1>6, <1>7, <1>8, <1>9, <1>10, <1>11, <1>12, <1>13,
     <1>14, <1>15, <1>16 DEF Next

-----------------------------------------------------------------------------
(* The maps                                                                *)

\* Most steps leave the maps alone, and no socket but a closed one leaves the clients.
LEMMA MapsStay ==
    ASSUME MapsAreLive, UNCHANGED <<asked, opts, socket>>, Clients \subseteq Clients'
    PROVE  MapsAreLive'
BY DEF MapsAreLive

LEMMA ClientsStay ==
    ASSUME Types, DOMAIN conn' = Client,
           \A c \in Client : conn[c] \in {"open", "closing"} => conn'[c] \in {"open", "closing"}
    PROVE  Clients \subseteq Clients'
BY DEF Clients

\* The steps that write neither the maps nor what was asked keep every client.
LEMMA QuietSteps ==
    ASSUME Types, Next,
           \A c \in Client : /\ ~Close(c)
                             /\ \A r \in RequestId, o \in Opts[c] : ~Subscribe(c, r, o),
           \A rd \in reads : ~ReadFails(rd), ~Destroy
    PROVE  UNCHANGED <<asked, opts, socket>> /\ Clients \subseteq Clients'
<1> USE DEF Types
<1>1. ASSUME NEW i \in Item, Delete(i) \/ Expire(i) \/ \E fill \in 0..About[i].amount : Write(i, fill)
      PROVE  UNCHANGED <<asked, opts, socket>> /\ Clients \subseteq Clients'
  BY <1>1, ClientsStay DEF Delete, Expire, Write, peers
<1>2. ASSUME NEW i \in Item, Emit(i)
      PROVE  UNCHANGED <<asked, opts, socket>> /\ Clients \subseteq Clients'
  BY <1>2, ClientsStay DEF Emit, peers
<1>3. ASSUME NEW c \in Client, Connect(c) \/ Refuse(c) \/ Pong(c) \/ Leave(c)
      PROVE  UNCHANGED <<asked, opts, socket>> /\ Clients \subseteq Clients'
  <2>1. CASE Connect(c)
    BY <2>1, ClientsStay DEF Connect
  <2>2. CASE Refuse(c)
    BY <2>2, ClientsStay DEF Refuse
  <2>3. CASE Pong(c)
    BY <2>3, ClientsStay DEF Pong
  <2>4. CASE Leave(c)
    BY <2>4, ClientsStay DEF Leave
  <2>5. QED
    BY <1>3, <2>1, <2>2, <2>3, <2>4
<1>4. ASSUME NEW rd \in reads, Read(rd) \/ Respond(rd)
      PROVE  UNCHANGED <<asked, opts, socket>> /\ Clients \subseteq Clients'
  BY <1>4, ClientsStay DEF Read, Respond, peers
<1>5. CASE Cleanup
  BY <1>5, ClientsStay DEF Cleanup
<1>6. QED
  BY <1>1, <1>2, <1>3, <1>4, <1>5 DEF Next

LEMMA SubscribeDoes ==
    ASSUME Types, NEW c \in Client, NEW r \in RequestId, NEW o \in Opts[c], Subscribe(c, r, o)
    PROVE  /\ c \in Clients /\ Clients' = Clients
           /\ Puts(opts', r, o, opts) /\ Puts(socket', r, c, socket)
           /\ asked' = [d \in Client |-> IF d = c THEN asked[c] \cup {<<r, o>>} ELSE asked[d]]
           /\ seen' = [d \in Client |->
                IF d = c THEN {x \in seen[c] : x[1] # r} ELSE seen[d]]
           /\ beyond' = [d \in Client |->
                IF d = c THEN {x \in beyond[c] : x[1] # r} ELSE beyond[d]]
<1>1. c \in Clients /\ Clients' = Clients
  BY DEF Subscribe, peers, Clients
<1>2. opts' = Put(r, o, opts) /\ socket' = Put(r, c, socket)
  BY DEF Subscribe, Register
<1>3. Puts(opts', r, o, opts) /\ Puts(socket', r, c, socket)
  BY <1>2, Putting
<1>4. asked' = [d \in Client |-> IF d = c THEN asked[c] \cup {<<r, o>>} ELSE asked[d]]
  BY DEF Subscribe, Types
<1>5. /\ seen' = [d \in Client |->
           IF d = c THEN {x \in seen[c] : x[1] # r} ELSE seen[d]]
      /\ beyond' = [d \in Client |->
           IF d = c THEN {x \in beyond[c] : x[1] # r} ELSE beyond[d]]
  BY DEF Subscribe, Types
<1>6. QED
  BY <1>1, <1>3, <1>4, <1>5

LEMMA CloseDoes ==
    ASSUME Types, NEW c \in Client, Close(c)
    PROVE  /\ Clients' = Clients \ {c}
           /\ Drops(opts', RequestIds(c), opts) /\ Drops(socket', RequestIds(c), socket)
           /\ asked' = [d \in Client |-> IF d = c THEN {} ELSE asked[d]]
           /\ seen' = [d \in Client |-> IF d = c THEN {} ELSE seen[d]]
           /\ beyond' = [d \in Client |-> IF d = c THEN {} ELSE beyond[d]]
           /\ conn' = [d \in Client |-> IF d = c THEN "closed" ELSE conn[d]]
<1>1. opts' = Without(opts, RequestIds(c)) /\ socket' = Without(socket, RequestIds(c))
  BY DEF Close, Forget
<1>2. Drops(opts', RequestIds(c), opts) /\ Drops(socket', RequestIds(c), socket)
  BY <1>1, Dropping
<1>3. /\ asked' = [d \in Client |-> IF d = c THEN {} ELSE asked[d]]
      /\ seen' = [d \in Client |-> IF d = c THEN {} ELSE seen[d]]
      /\ beyond' = [d \in Client |-> IF d = c THEN {} ELSE beyond[d]]
      /\ conn' = [d \in Client |-> IF d = c THEN "closed" ELSE conn[d]]
  BY DEF Close, Gone
<1>4. Clients' = Clients \ {c}
  BY <1>3 DEF Clients
<1>5. QED
  BY <1>2, <1>3, <1>4

LEMMA MapsKept ==
    ASSUME Types, MapsAreLive, [Next]_vars
    PROVE  MapsAreLive'
<1>1. ASSUME NEW c \in Client, NEW r \in RequestId, NEW o \in Opts[c], Subscribe(c, r, o)
      PROVE  MapsAreLive'
  <2>1. /\ c \in Clients /\ Clients' = Clients
        /\ Puts(opts', r, o, opts) /\ Puts(socket', r, c, socket)
        /\ asked' = [d \in Client |-> IF d = c THEN asked[c] \cup {<<r, o>>} ELSE asked[d]]
    BY <1>1, SubscribeDoes
  <2>2. DOMAIN opts' = DOMAIN socket'
    BY <2>1 DEF Puts, MapsAreLive
  <2>3. ASSUME NEW q \in DOMAIN opts'
        PROVE  socket'[q] \in Clients' /\ <<q, opts'[q]>> \in asked'[socket'[q]]
    <3>1. CASE q = r
      BY <2>1, <3>1 DEF Puts
    <3>2. CASE q # r
      <4>1. q \in DOMAIN opts /\ q \in DOMAIN socket
        BY <2>1, <2>2, <3>2 DEF Puts
      <4>2. opts'[q] = opts[q] /\ socket'[q] = socket[q]
        BY <2>1, <3>2, <4>1 DEF Puts
      <4>3. socket[q] \in Clients /\ <<q, opts[q]>> \in asked[socket[q]]
        BY <4>1 DEF MapsAreLive
      <4>4. asked[socket[q]] \subseteq asked'[socket[q]]
        BY <2>1, <4>3 DEF Clients
      <4>5. QED
        BY <2>1, <4>2, <4>3, <4>4
    <3>3. QED
      BY <3>1, <3>2
  <2>4. QED
    BY <2>2, <2>3 DEF MapsAreLive
<1>2. ASSUME NEW c \in Client, Close(c)
      PROVE  MapsAreLive'
  <2>1. /\ Clients' = Clients \ {c}
        /\ Drops(opts', RequestIds(c), opts) /\ Drops(socket', RequestIds(c), socket)
        /\ asked' = [d \in Client |-> IF d = c THEN {} ELSE asked[d]]
    BY <1>2, CloseDoes
  <2>2. DOMAIN opts' = DOMAIN socket'
    BY <2>1 DEF Drops, MapsAreLive
  <2>3. ASSUME NEW q \in DOMAIN opts'
        PROVE  socket'[q] \in Clients' /\ <<q, opts'[q]>> \in asked'[socket'[q]]
    <3>1. q \in DOMAIN opts /\ q \notin RequestIds(c)
      BY <2>1 DEF Drops
    <3>2. opts'[q] = opts[q] /\ socket'[q] = socket[q]
      BY <2>1, <2>2 DEF Drops
    <3>3. socket[q] \in Clients /\ <<q, opts[q]>> \in asked[socket[q]]
      BY <3>1 DEF MapsAreLive
    <3>4. socket[q] # c
      BY <3>1, <3>3 DEF RequestIds
    <3>5. asked'[socket[q]] = asked[socket[q]]
      BY <2>1, <3>3, <3>4 DEF Clients
    <3>6. QED
      BY <2>1, <3>2, <3>3, <3>4, <3>5
  <2>4. QED
    BY <2>2, <2>3 DEF MapsAreLive
<1>3. ASSUME NEW rd \in reads, ReadFails(rd)
      PROVE  MapsAreLive'
  BY <1>3 DEF ReadFails, MapsAreLive
<1>4. CASE Destroy
  BY <1>4 DEF Destroy, MapsAreLive
<1>5. CASE UNCHANGED vars
  BY <1>5 DEF vars, MapsAreLive, Clients
<1>6. QED
  BY <1>1, <1>2, <1>3, <1>4, <1>5, QuietSteps, MapsStay

-----------------------------------------------------------------------------
(* First pages                                                             *)

\* Sockets only come and go; none comes back.
LEMMA ReadsStay ==
    ASSUME Types, ReadsAreAsked, reads' \subseteq reads, asked' = asked,
           \A c \in Client : conn[c] # "none" =>
               /\ conn'[c] # "none"
               /\ conn'[c] \in {"open", "closing"} => conn[c] \in {"open", "closing"}
    PROVE  ReadsAreAsked'
<1>1. SUFFICES ASSUME NEW rd \in reads'
               PROVE  /\ conn'[rd.ws] # "none"
                      /\ rd.ws \in Clients' => <<rd.id, rd.opts>> \in asked'[rd.ws]
  BY DEF ReadsAreAsked
<1>2. /\ rd.ws \in Client /\ conn[rd.ws] # "none"
      /\ rd.ws \in Clients => <<rd.id, rd.opts>> \in asked[rd.ws]
  BY DEF Types, ReadsAreAsked
<1>3. QED
  BY <1>2 DEF Clients

LEMMA ReadsKept ==
    ASSUME Types, ReadsAreAsked, [Next]_vars
    PROVE  ReadsAreAsked'
<1>1. ASSUME NEW i \in Item, Delete(i) \/ Expire(i) \/ \E fill \in 0..About[i].amount : Write(i, fill)
      PROVE  ReadsAreAsked'
  BY <1>1, ReadsStay DEF Delete, Expire, Write, peers
<1>2. ASSUME NEW i \in Item, Emit(i)
      PROVE  ReadsAreAsked'
  BY <1>2, ReadsStay DEF Emit, peers
<1>3. ASSUME NEW c \in Client, Connect(c) \/ Refuse(c) \/ Pong(c) \/ Leave(c)
      PROVE  ReadsAreAsked'
  <2>1. CASE Connect(c)
    BY <2>1, ReadsStay DEF Connect, Types
  <2>2. CASE Refuse(c)
    BY <2>2, ReadsStay DEF Refuse, Types
  <2>3. CASE Pong(c)
    BY <2>3, ReadsStay DEF Pong
  <2>4. CASE Leave(c)
    BY <2>4, ReadsStay DEF Leave, Types
  <2>5. QED
    BY <1>3, <2>1, <2>2, <2>3, <2>4
<1>4. ASSUME NEW c \in Client, NEW r \in RequestId, NEW o \in Opts[c], Subscribe(c, r, o)
      PROVE  ReadsAreAsked'
  <2>1. /\ c \in Clients /\ Clients' = Clients
        /\ asked' = [d \in Client |-> IF d = c THEN asked[c] \cup {<<r, o>>} ELSE asked[d]]
    BY <1>4, SubscribeDoes
  <2>2. /\ conn' = conn
        /\ reads' = reads \cup {[id |-> r, ws |-> c, opts |-> o,
                                 stage |-> "asked", page |-> {}]}
    BY <1>4 DEF Subscribe, peers
  <2>3. ASSUME NEW rd \in reads'
        PROVE  /\ conn'[rd.ws] # "none"
               /\ rd.ws \in Clients' => <<rd.id, rd.opts>> \in asked'[rd.ws]
    <3>1. CASE rd \in reads
      <4>1. /\ rd.ws \in Client /\ conn[rd.ws] # "none"
            /\ rd.ws \in Clients => <<rd.id, rd.opts>> \in asked[rd.ws]
        BY <3>1 DEF Types, ReadsAreAsked
      <4>2. QED
        BY <2>1, <2>2, <4>1
    <3>2. CASE rd \notin reads
      <4>1. rd.id = r /\ rd.ws = c /\ rd.opts = o
        BY <2>2, <3>2
      <4>2. QED
        BY <2>1, <2>2, <4>1 DEF Clients
    <3>3. QED
      BY <3>1, <3>2
  <2>4. QED
    BY <2>3 DEF ReadsAreAsked
<1>5. ASSUME NEW c \in Client, Close(c)
      PROVE  ReadsAreAsked'
  <2>1. /\ Clients' = Clients \ {c} /\ reads' = reads
        /\ asked' = [d \in Client |-> IF d = c THEN {} ELSE asked[d]]
        /\ conn' = [d \in Client |-> IF d = c THEN "closed" ELSE conn[d]]
    BY <1>5, CloseDoes DEF Close
  <2>2. \A rd \in reads : /\ rd.ws \in Client /\ conn[rd.ws] # "none"
                          /\ rd.ws \in Clients => <<rd.id, rd.opts>> \in asked[rd.ws]
    BY DEF Types, ReadsAreAsked
  <2>3. QED
    BY <2>1, <2>2 DEF ReadsAreAsked
<1>6. ASSUME NEW rd \in reads, Read(rd)
      PROVE  ReadsAreAsked'
  <2>1. PICK page : reads' = (reads \ {rd}) \cup {[rd EXCEPT !.stage = "read", !.page = page]}
    BY <1>6 DEF Read
  <2>2. conn' = conn /\ asked' = asked /\ Clients' = Clients
    BY <1>6 DEF Read, peers, Clients
  <2>3. /\ [rd EXCEPT !.stage = "read", !.page = page].id = rd.id
        /\ [rd EXCEPT !.stage = "read", !.page = page].ws = rd.ws
        /\ [rd EXCEPT !.stage = "read", !.page = page].opts = rd.opts
    BY DEF Types
  <2>4. ASSUME NEW other \in reads'
        PROVE  \E old \in reads : other.id = old.id /\ other.ws = old.ws /\ other.opts = old.opts
    BY <2>1, <2>3
  <2>5. QED
    BY <2>2, <2>4 DEF ReadsAreAsked
<1>7. ASSUME NEW rd \in reads, Respond(rd)
      PROVE  ReadsAreAsked'
  BY <1>7, ReadsStay DEF Respond, peers
<1>8. ASSUME NEW rd \in reads, ReadFails(rd)
      PROVE  ReadsAreAsked'
  BY <1>8 DEF ReadFails, ReadsAreAsked
<1>9. CASE Cleanup
  BY <1>9, ReadsStay DEF Cleanup, Silent, Clients, Types
<1>10. CASE Destroy
  BY <1>10, ReadsStay DEF Destroy, Types
<1>11. CASE UNCHANGED vars
  BY <1>11, ReadsStay DEF vars
<1>12. QED
  BY <1>1, <1>2, <1>3, <1>4, <1>5, <1>6, <1>7, <1>8, <1>9, <1>10, <1>11 DEF Next

-----------------------------------------------------------------------------
(* What is sent                                                            *)

LEMMA SeenStays ==
    ASSUME OnlyWhatWasAsked, seen' = seen, asked' = asked
    PROVE  OnlyWhatWasAsked'
BY DEF OnlyWhatWasAsked, Matches

\* Messages that a subscription of their socket asks for do no harm.
LEMMA AskedMessages ==
    ASSUME OnlyWhatWasAsked, asked' = asked, NEW messages, seen' = Sent(messages),
           \A m \in messages : m.ws \in Clients =>
               \E s \in asked[m.ws] : s[1] = m.id /\ Matches(m.item, s[2])
    PROVE  OnlyWhatWasAsked'
<1>1. SUFFICES ASSUME NEW c \in Client, NEW x \in seen'[c]
               PROVE  \E s \in asked[c] : s[1] = x[1] /\ Matches(x[2], s[2])
  BY DEF OnlyWhatWasAsked, Matches
<1>2. \/ x \in seen[c]
      \/ \E m \in messages : m.ws = c /\ conn[c] = "open" /\ x = <<m.id, m.item>>
  BY Sending
<1>3. CASE x \in seen[c]
  BY <1>3 DEF OnlyWhatWasAsked
<1>4. CASE \E m \in messages : m.ws = c /\ conn[c] = "open" /\ x = <<m.id, m.item>>
  <2>1. PICK m \in messages : m.ws = c /\ conn[c] = "open" /\ x = <<m.id, m.item>>
    BY <1>4
  <2>2. m.ws \in Clients /\ x[1] = m.id /\ x[2] = m.item
    BY <2>1 DEF Clients
  <2>3. PICK s \in asked[m.ws] : s[1] = m.id /\ Matches(m.item, s[2])
    BY <2>2
  <2>4. QED
    BY <2>1, <2>2, <2>3
<1>5. QED
  BY <1>2, <1>3, <1>4

LEMMA AskedKept ==
    ASSUME Types, MapsAreLive, ReadsAreAsked, OnlyWhatWasAsked, [Next]_vars
    PROVE  OnlyWhatWasAsked'
<1>1. ASSUME NEW i \in Item, Delete(i) \/ Expire(i) \/ \E fill \in 0..About[i].amount : Write(i, fill)
      PROVE  OnlyWhatWasAsked'
  BY <1>1, SeenStays DEF Delete, Expire, Write, shown
<1>2. ASSUME NEW i \in Item, Emit(i)
      PROVE  OnlyWhatWasAsked'
  <2> DEFINE messages == {[ws |-> socket[r], id |-> r, item |-> i] : r \in MatchingIds(i)}
  <2>1. seen' = Sent(messages) /\ asked' = asked
    BY <1>2 DEF Emit
  <2>2. ASSUME NEW m \in messages
        PROVE  \E s \in asked[m.ws] : s[1] = m.id /\ Matches(m.item, s[2])
    <3>1. PICK r \in MatchingIds(i) : m = [ws |-> socket[r], id |-> r, item |-> i]
      OBVIOUS
    <3>2. r \in DOMAIN opts /\ Matches(i, opts[r])
      BY DEF MatchingIds
    <3>3. <<r, opts[r]>> \in asked[socket[r]]
      BY <3>2 DEF MapsAreLive
    <3>4. m.ws = socket[r] /\ m.id = r /\ m.item = i
      BY <3>1
    <3>5. QED
      BY <3>2, <3>3, <3>4
  <2> HIDE DEF messages
  <2>3. QED
    BY <2>1, <2>2, AskedMessages
<1>3. ASSUME NEW c \in Client, Connect(c) \/ Refuse(c) \/ Pong(c) \/ Leave(c)
      PROVE  OnlyWhatWasAsked'
  BY <1>3, SeenStays DEF Connect, Refuse, Pong, Leave, shown
<1>4. ASSUME NEW c \in Client, NEW r \in RequestId, NEW o \in Opts[c], Subscribe(c, r, o)
      PROVE  OnlyWhatWasAsked'
  <2>1. /\ asked' = [d \in Client |-> IF d = c THEN asked[c] \cup {<<r, o>>} ELSE asked[d]]
        /\ seen' = [d \in Client |->
             IF d = c THEN {x \in seen[c] : x[1] # r} ELSE seen[d]]
    BY <1>4, SubscribeDoes
  <2>2. \A d \in Client : asked[d] \subseteq asked'[d] /\ seen'[d] \subseteq seen[d]
    BY <2>1
  <2>3. QED
    BY <2>2 DEF OnlyWhatWasAsked, Matches
<1>5. ASSUME NEW c \in Client, Close(c)
      PROVE  OnlyWhatWasAsked'
  <2>1. /\ asked' = [d \in Client |-> IF d = c THEN {} ELSE asked[d]]
        /\ seen' = [d \in Client |-> IF d = c THEN {} ELSE seen[d]]
    BY <1>5, CloseDoes
  <2>2. QED
    BY <2>1 DEF OnlyWhatWasAsked, Matches
<1>6. ASSUME NEW rd \in reads, Read(rd)
      PROVE  OnlyWhatWasAsked'
  BY <1>6, SeenStays DEF Read
<1>7. ASSUME NEW rd \in reads, Respond(rd)
      PROVE  OnlyWhatWasAsked'
  <2> DEFINE answer == {j \in rd.page : InResponse(j, rd.opts)}
             messages == {[ws |-> rd.ws, id |-> rd.id, item |-> i] : i \in answer}
  <2>1. seen' = Sent(messages) /\ asked' = asked
    BY <1>7 DEF Respond
  <2>2. ASSUME NEW m \in messages, m.ws \in Clients
        PROVE  \E s \in asked[m.ws] : s[1] = m.id /\ Matches(m.item, s[2])
    <3>1. PICK i \in answer : m = [ws |-> rd.ws, id |-> rd.id, item |-> i]
      OBVIOUS
    <3>2. Matches(i, rd.opts)
      BY DEF InResponse
    <3>3. m.ws = rd.ws /\ m.id = rd.id /\ m.item = i
      BY <3>1
    <3>4. <<rd.id, rd.opts>> \in asked[rd.ws]
      BY <2>2, <3>3 DEF ReadsAreAsked
    <3>5. QED
      BY <3>2, <3>3, <3>4
  <2> HIDE DEF messages
  <2>3. QED
    BY <2>1, <2>2, AskedMessages
<1>8. ASSUME NEW rd \in reads, ReadFails(rd)
      PROVE  OnlyWhatWasAsked'
  <2>1. \A c \in Client : conn[c] = "none" => seen'[c] = seen[c] /\ asked'[c] = asked[c]
    BY <1>8 DEF ReadFails, Gone
  <2>2. \A c \in Client : conn[c] # "none" => seen'[c] = {}
    BY <1>8 DEF ReadFails, Gone
  <2>3. QED
    BY <2>1, <2>2 DEF OnlyWhatWasAsked, Matches
<1>9. CASE Cleanup
  BY <1>9, SeenStays DEF Cleanup, shown
<1>10. CASE Destroy
  BY <1>10, SeenStays DEF Destroy, shown
<1>11. CASE UNCHANGED vars
  BY <1>11, SeenStays DEF vars
<1>12. QED
  BY <1>1, <1>2, <1>3, <1>4, <1>5, <1>6, <1>7, <1>8, <1>9, <1>10, <1>11 DEF Next

-----------------------------------------------------------------------------
(* What is missed                                                          *)

LEMMA OwedBefore ==
    ASSUME NEW c \in Client, NEW r \in RequestId, NEW i \in Item, Owed(c, r, i)',
           IsOpen(i)' => IsOpen(i), expired \subseteq expired',
           conn'[c] = "open" => conn[c] = "open",
           c \in unreachable => conn'[c] # "open" \/ c \in unreachable',
           r \in DOMAIN opts' \cap DOMAIN socket' =>
               /\ r \in DOMAIN opts \cap DOMAIN socket
               /\ socket'[r] = socket[r] /\ opts'[r] = opts[r],
           BeyondPage(c, r, opts[r], i) => <<r, opts[r], i>> \in beyond'[c]
    PROVE  Owed(c, r, i)
<1>1. /\ Subscribed(c, r)' /\ Matches(i, opts[r])'
      /\ IsOpen(i)' /\ (i \notin expired)' /\ ~BeyondPage(c, r, opts[r], i)'
  BY DEF Owed
<1>2. Subscribed(c, r) /\ opts'[r] = opts[r]
  BY <1>1 DEF Subscribed
<1>3. Matches(i, opts[r])
  BY <1>1, <1>2 DEF Matches
<1>4. ~BeyondPage(c, r, opts[r], i)
  BY <1>1, <1>2 DEF BeyondPage
<1>5. QED
  BY <1>1, <1>2, <1>3, <1>4 DEF Owed

LEMMA ServedStays ==
    ASSUME NEW c \in Client, NEW r \in RequestId, NEW i \in Item, Served(c, r, i),
           news[i] > 0 => news'[i] > 0, reads \subseteq reads', opts'[r] = opts[r],
           <<r, i>> \in seen[c] => <<r, i>> \in seen'[c]
    PROVE  Served(c, r, i)'
<1>1. CASE <<r, i>> \in seen[c]
  BY <1>1 DEF Served
<1>2. CASE OnItsWay(c, r, i)
  BY <1>2 DEF Served, OnItsWay
<1>3. QED
  BY <1>1, <1>2 DEF Served

LEMMA AheadType ==
    ASSUME NEW listed \in SUBSET Item, NEW i \in Item
    PROVE  Ahead(i, listed) \in Nat
<1> DEFINE before == {j \in listed : j < i}
<1>1. i \in Nat /\ before \subseteq 0..i
  <2>1. i \in Nat /\ \A j \in before : j \in Nat /\ j < i
    OBVIOUS
  <2> HIDE DEF before
  <2>2. QED
    BY <2>1
<1>2. IsFiniteSet(0..i)
  BY <1>1, FS_Interval
<1> HIDE DEF before
<1>3. IsFiniteSet(before)
  BY <1>1, <1>2, FS_Subset
<1>4. Cardinality(before) \in Nat
  BY <1>3, FS_CardinalityType
<1>5. QED
  BY <1>4 DEF Ahead, before

LEMMA LostKept ==
    ASSUME Types, MapsAreLive, NothingLost, [Next]_vars
    PROVE  NothingLost'
<1>1. SUFFICES ASSUME NEW c \in Client, NEW r \in RequestId, NEW i \in Item, Owed(c, r, i)'
               PROVE  Served(c, r, i)'
  BY DEF NothingLost
<1>2. /\ Subscribed(c, r)' /\ Matches(i, opts[r])'
      /\ IsOpen(i)' /\ (i \notin expired)' /\ ~BeyondPage(c, r, opts[r], i)'
  BY <1>1 DEF Owed
<1>3. Owed(c, r, i) => Served(c, r, i)
  BY DEF NothingLost
<1>4. ASSUME NEW k \in Written, NEW fill \in 0..About[k].amount, Write(k, fill)
      PROVE  Served(c, r, i)'
  <2>1. /\ rows' = Put(k, fill, rows) /\ k \in Item
        /\ beyond' = [d \in Client |-> {x \in beyond[d] : x[3] # k}]
        /\ UNCHANGED <<expired, conn, unreachable, opts, socket, reads, seen>>
    BY <1>4 DEF Write, peers
  <2>2. Puts(rows', k, fill, rows)
    BY <2>1, Putting
  <2>3. CASE k = i
    <3>1. i \in DOMAIN rows' /\ rows'[i] = fill
      BY <2>2, <2>3 DEF Puts
    <3>2. fill < About[i].amount \/ About[i].channel = "trades"
      BY <1>2, <3>1 DEF IsOpen
    <3>3. ~(About[i].channel = "orders" /\ fill = About[i].amount)
      BY <3>2
    <3>4. news' = [news EXCEPT ![i] = @ + 1]
      BY <1>4, <2>3, <3>3 DEF Write
    <3>5. news'[i] > 0
      <4>1. news[i] \in Nat /\ news'[i] = news[i] + 1
        BY <3>4 DEF Types
      <4>2. QED
        BY <4>1
    <3>6. QED
      BY <3>5 DEF Served, OnItsWay
  <2>4. CASE k # i
    <3>1. IsOpen(i)
      BY <1>2, <2>2, <2>4 DEF IsOpen, Puts
    <3>2. BeyondPage(c, r, opts[r], i) => <<r, opts[r], i>> \in beyond'[c]
      BY <2>1, <2>4 DEF BeyondPage
    <3>3. Owed(c, r, i)
      BY <1>1, <2>1, <3>1, <3>2, OwedBefore
    <3>4. news'[i] = news[i]
      BY <1>4, <2>1, <2>4 DEF Write, Types
    <3>5. QED
      BY <1>3, <2>1, <3>3, <3>4, ServedStays
  <2>5. QED
    BY <2>3, <2>4
<1>5. ASSUME NEW k \in Written, Delete(k)
      PROVE  Served(c, r, i)'
  <2>1. /\ rows' = Without(rows, {k}) /\ k \in Item
        /\ UNCHANGED <<expired, conn, unreachable, opts, socket, reads, seen, beyond>>
    BY <1>5 DEF Delete, peers, shown
  <2>2. Drops(rows', {k}, rows)
    BY <2>1, Dropping
  <2>3. IsOpen(i) /\ i # k
    BY <1>2, <2>2 DEF IsOpen, Drops
  <2>4. Owed(c, r, i)
    BY <1>1, <2>1, <2>3, OwedBefore DEF BeyondPage
  <2>5. news'[i] = news[i]
    BY <1>5, <2>1, <2>3 DEF Delete, Types
  <2>6. QED
    BY <1>3, <2>1, <2>4, <2>5, ServedStays
<1>6. ASSUME NEW k \in Item, Expire(k)
      PROVE  Served(c, r, i)'
  <2>1. /\ expired \subseteq expired' /\ rows' = rows
        /\ UNCHANGED <<news, conn, unreachable, opts, socket, reads, seen, beyond>>
    BY <1>6 DEF Expire, peers, shown
  <2>2. IsOpen(i)
    BY <1>2, <2>1 DEF IsOpen
  <2>3. Owed(c, r, i)
    BY <1>1, <2>1, <2>2, OwedBefore DEF BeyondPage
  <2>4. QED
    BY <1>3, <2>1, <2>3, ServedStays
<1>7. ASSUME NEW k \in Item, Emit(k)
      PROVE  Served(c, r, i)'
  <2> DEFINE messages == {[ws |-> socket[q], id |-> q, item |-> k] : q \in MatchingIds(k)}
  <2>1. /\ seen' = Sent(messages) /\ news' = [news EXCEPT ![k] = @ - 1]
        /\ UNCHANGED <<rows, expired, conn, unreachable, opts, socket, reads, beyond>>
    BY <1>7 DEF Emit, peers
  <2>2. IsOpen(i)
    BY <1>2, <2>1 DEF IsOpen
  <2>3. Owed(c, r, i)
    BY <1>1, <2>1, <2>2, OwedBefore DEF BeyondPage
  <2>4. CASE k = i
    <3>1. Subscribed(c, r) /\ Matches(i, opts[r])
      BY <2>3 DEF Owed
    <3>2. r \in MatchingIds(k) /\ socket[r] = c
      BY <2>4, <3>1 DEF MatchingIds, Subscribed
    <3>3. [ws |-> c, id |-> r, item |-> i] \in messages
      BY <2>4, <3>2
    <3>4. conn[c] = "open" /\ c \notin unreachable
      BY <3>1 DEF Subscribed
    <3> HIDE DEF messages
    <3>5. \A m \in messages : m.ws = c /\ conn[c] = "open" /\ c \notin unreachable
                => <<m.id, m.item>> \in Sent(messages)[c]
      BY Sending
    <3>6. <<r, i>> \in Sent(messages)[c]
      BY <3>3, <3>4, <3>5
    <3>7. QED
      BY <2>1, <3>6 DEF Served
  <2> HIDE DEF messages
  <2>5. seen[c] \subseteq seen'[c]
    BY <2>1, Sending
  <2>6. CASE k # i
    <3>1. news'[i] = news[i]
      BY <2>1, <2>6 DEF Types
    <3>2. QED
      BY <1>3, <2>1, <2>3, <2>5, <3>1, ServedStays
  <2>7. QED
    BY <2>4, <2>6
<1>8. ASSUME NEW d \in Client, Connect(d)
      PROVE  Served(c, r, i)'
  <2>1. /\ conn[d] = "none" /\ conn' = [conn EXCEPT ![d] = "open"]
        /\ UNCHANGED <<store, unreachable, opts, socket, reads, seen, beyond>>
    BY <1>8 DEF Connect, shown
  <2>2. c # d
    <3>1. r \in DOMAIN opts /\ socket[r] = c
      BY <1>2, <2>1 DEF Subscribed
    <3>2. c \in Clients
      BY <3>1 DEF MapsAreLive
    <3>3. QED
      BY <2>1, <3>2 DEF Clients
  <2>3. conn'[c] = conn[c]
    BY <2>1, <2>2 DEF Types
  <2>4. UNCHANGED <<rows, expired, news>>
    BY <2>1 DEF store
  <2>5. IsOpen(i)
    BY <1>2, <2>4 DEF IsOpen
  <2>6. Owed(c, r, i)
    BY <1>1, <2>1, <2>3, <2>4, <2>5, OwedBefore DEF BeyondPage
  <2>7. QED
    BY <1>3, <2>1, <2>4, <2>6, ServedStays
\* The steps that lose sockets or their answers, and no entry of the maps.
<1>9. ASSUME UNCHANGED <<store, opts, socket, reads, shown>>,
             conn'[c] = "open" => conn[c] = "open", unreachable \subseteq unreachable'
      PROVE  Served(c, r, i)'
  <2>1. UNCHANGED <<rows, expired, news, seen, beyond>>
    BY <1>9 DEF store, shown
  <2>2. IsOpen(i)
    BY <1>2, <2>1 DEF IsOpen
  <2>3. Owed(c, r, i)
    BY <1>1, <1>9, <2>1, <2>2, OwedBefore DEF BeyondPage
  <2>4. QED
    BY <1>3, <1>9, <2>1, <2>3, ServedStays
<1>10. ASSUME NEW d \in Client, Refuse(d) \/ Pong(d) \/ Leave(d)
       PROVE  Served(c, r, i)'
  <2>1. CASE Refuse(d)
    BY <1>9, <2>1 DEF Refuse, Types
  <2>2. CASE Pong(d)
    BY <1>9, <2>2 DEF Pong
  <2>3. CASE Leave(d)
    BY <1>9, <2>3 DEF Leave, Types
  <2>4. QED
    BY <1>10, <2>1, <2>2, <2>3
<1>11. CASE Cleanup
  BY <1>9, <1>11 DEF Cleanup
<1>12. ASSUME NEW d \in Client, Close(d)
       PROVE  Served(c, r, i)'
  <2>1. /\ Drops(opts', RequestIds(d), opts) /\ Drops(socket', RequestIds(d), socket)
        /\ seen' = [e \in Client |-> IF e = d THEN {} ELSE seen[e]]
        /\ beyond' = [e \in Client |-> IF e = d THEN {} ELSE beyond[e]]
        /\ conn' = [e \in Client |-> IF e = d THEN "closed" ELSE conn[e]]
    BY <1>12, CloseDoes
  <2>2. /\ unreachable' = unreachable \ {d}
        /\ UNCHANGED <<rows, expired, news, reads>>
    BY <1>12 DEF Close, Gone, store
  <2>3. c # d /\ r \in DOMAIN opts' /\ r \in DOMAIN socket'
    BY <1>2, <2>1 DEF Subscribed
  <2>4. /\ r \in DOMAIN opts \cap DOMAIN socket
        /\ socket'[r] = socket[r] /\ opts'[r] = opts[r]
        /\ conn'[c] = conn[c] /\ seen'[c] = seen[c] /\ beyond'[c] = beyond[c]
    BY <2>1, <2>3 DEF Drops
  <2>5. IsOpen(i)
    BY <1>2, <2>2 DEF IsOpen
  <2>6. c \in unreachable => c \in unreachable'
    BY <2>2, <2>3
  <2>7. Owed(c, r, i)
    BY <1>1, <2>2, <2>4, <2>5, <2>6, OwedBefore DEF BeyondPage
  <2>8. QED
    BY <1>3, <2>2, <2>4, <2>7, ServedStays
<1>13. ASSUME NEW d \in Client, NEW q \in RequestId, NEW o \in Opts[d], Subscribe(d, q, o)
       PROVE  Served(c, r, i)'
  <2>1. /\ Puts(opts', q, o, opts) /\ Puts(socket', q, d, socket)
        /\ seen' = [e \in Client |->
             IF e = d THEN {x \in seen[d] : x[1] # q} ELSE seen[e]]
        /\ beyond' = [e \in Client |->
             IF e = d THEN {x \in beyond[d] : x[1] # q} ELSE beyond[e]]
    BY <1>13, SubscribeDoes
  <2>2. /\ reads' = reads \cup {[id |-> q, ws |-> d, opts |-> o,
                                 stage |-> "asked", page |-> {}]}
        /\ UNCHANGED <<rows, expired, news, conn, unreachable>>
    BY <1>13 DEF Subscribe, store, peers
  <2>3. CASE r = q
    <3>1. c = d /\ opts'[r] = o
      BY <1>2, <2>1, <2>3 DEF Subscribed, Puts
    <3>2. [id |-> q, ws |-> d, opts |-> o, stage |-> "asked", page |-> {}] \in reads'
      BY <2>2
    <3>3. QED
      BY <2>3, <3>1, <3>2 DEF Served, OnItsWay
  <2>4. CASE r # q
    <3>1. r \in DOMAIN socket /\ r \in DOMAIN opts
      BY <1>2, <2>1, <2>4 DEF Subscribed, Puts
    <3>2. socket'[r] = socket[r] /\ opts'[r] = opts[r]
      BY <2>1, <2>4, <3>1 DEF Puts
    <3>3. /\ <<r, i>> \in seen[c] => <<r, i>> \in seen'[c]
          /\ BeyondPage(c, r, opts[r], i) => <<r, opts[r], i>> \in beyond'[c]
      BY <2>1, <2>4 DEF BeyondPage
    <3>4. IsOpen(i)
      BY <1>2, <2>2 DEF IsOpen
    <3>5. Owed(c, r, i)
      BY <1>1, <2>2, <3>1, <3>2, <3>3, <3>4, OwedBefore
    <3>6. QED
      BY <1>3, <2>2, <3>2, <3>3, <3>5, ServedStays
  <2>5. QED
    BY <2>3, <2>4
<1>14. ASSUME NEW rd \in reads, Read(rd)
       PROVE  Served(c, r, i)'
  <2> DEFINE listed == {j \in DOMAIN rows \ expired : About[j].channel = rd.opts.channel}
             page == {j \in FirstPage(listed) : IsOpen(j)}
             after == [rd EXCEPT !.stage = "read", !.page = page]
             missed == {<<rd.id, rd.opts, j>> : j \in {k \in listed : Ahead(k, listed) >= PerPage}}
  <2>1. /\ rd.stage = "asked" /\ reads' = (reads \ {rd}) \cup {after}
        /\ beyond' = [beyond EXCEPT ![rd.ws] = @ \cup missed]
        /\ UNCHANGED <<rows, expired, news, conn, unreachable, opts, socket, seen>>
    BY <1>14 DEF Read, store, peers
  <2>2. IsOpen(i)
    BY <1>2, <2>1 DEF IsOpen
  <2>3. Owed(c, r, i)
    <3> HIDE DEF missed
    <3>1. beyond[c] \subseteq beyond'[c]
      BY <2>1 DEF Types
    <3>2. BeyondPage(c, r, opts[r], i) => <<r, opts[r], i>> \in beyond'[c]
      BY <3>1 DEF BeyondPage
    <3>3. QED
      BY <1>1, <2>1, <2>2, <3>2, OwedBefore
  <2>4. ASSUME rd.ws = c, rd.id = r, rd.opts = opts[r]
        PROVE  Served(c, r, i)'
    <3>1. Matches(i, rd.opts) /\ i \notin expired
      BY <2>3, <2>4 DEF Owed
    <3>2. i \in listed /\ listed \in SUBSET Item
      BY <2>2, <3>1 DEF IsOpen, Matches, Types
    <3>3. <<r, opts[r], i>> \notin missed
      <4> HIDE DEF missed
      <4>1. <<r, opts[r], i>> \notin beyond'[c]
        BY <1>2, <2>1 DEF BeyondPage
      <4>2. beyond'[c] = beyond[c] \cup missed
        BY <2>1, <2>4 DEF Types
      <4>3. QED
        BY <4>1, <4>2
    <3> HIDE DEF listed
    <3>4. Ahead(i, listed) < PerPage
      <4>1. ~(Ahead(i, listed) >= PerPage)
        BY <2>4, <3>2, <3>3
      <4>2. Ahead(i, listed) \in Nat
        BY <3>2, AheadType
      <4>3. QED
        BY <4>1, <4>2
    <3>5. i \in page
      BY <2>2, <3>2, <3>4 DEF FirstPage
    <3> HIDE DEF page
    <3>6. after.ws = c /\ after.id = r /\ after.opts = opts[r] /\ after.page = page
      BY <2>4 DEF Types
    <3>7. after \in reads' /\ opts' = opts
      BY <2>1
    <3> HIDE DEF after
    <3>8. OnItsWay(c, r, i)'
      BY <3>5, <3>6, <3>7 DEF OnItsWay
    <3>9. QED
      BY <3>8 DEF Served
  <2> HIDE DEF after
  <2>5. CASE <<r, i>> \in seen[c]
    BY <2>1, <2>5 DEF Served
  <2>6. CASE news[i] > 0
    BY <2>1, <2>6 DEF Served, OnItsWay
  <2>7. ASSUME NEW other \in reads, other.ws = c, other.id = r, other.opts = opts[r],
               other.stage = "asked" \/ i \in other.page
        PROVE  Served(c, r, i)'
    <3>1. CASE other = rd
      BY <2>4, <2>7, <3>1
    <3>2. CASE other # rd
      BY <2>1, <2>7, <3>2 DEF Served, OnItsWay
    <3>3. QED
      BY <3>1, <3>2
  <2>8. QED
    BY <1>3, <2>3, <2>5, <2>6, <2>7 DEF Served, OnItsWay
<1>15. ASSUME NEW rd \in reads, Respond(rd)
       PROVE  Served(c, r, i)'
  <2> DEFINE answer == {j \in rd.page : InResponse(j, rd.opts)}
             messages == {[ws |-> rd.ws, id |-> rd.id, item |-> j] : j \in answer}
  <2>1. /\ rd.stage = "read" /\ seen' = Sent(messages) /\ reads' = reads \ {rd}
        /\ UNCHANGED <<rows, expired, news, conn, unreachable, opts, socket, beyond>>
    BY <1>15 DEF Respond, store, peers
  <2>2. IsOpen(i)
    BY <1>2, <2>1 DEF IsOpen
  <2>3. Owed(c, r, i)
    BY <1>1, <2>1, <2>2, OwedBefore DEF BeyondPage
  <2>4. ASSUME rd.ws = c, rd.id = r, rd.opts = opts[r], i \in rd.page
        PROVE  Served(c, r, i)'
    <3>1. Subscribed(c, r) /\ Matches(i, rd.opts)
      BY <2>3, <2>4 DEF Owed
    <3>2. i \in answer
      BY <2>4, <3>1 DEF InResponse
    <3>3. [ws |-> c, id |-> r, item |-> i] \in messages
      BY <2>4, <3>2
    <3>4. conn[c] = "open" /\ c \notin unreachable
      BY <3>1 DEF Subscribed
    <3> HIDE DEF messages
    <3>5. \A m \in messages : m.ws = c /\ conn[c] = "open" /\ c \notin unreachable
                => <<m.id, m.item>> \in Sent(messages)[c]
      BY Sending
    <3>6. <<r, i>> \in Sent(messages)[c]
      BY <3>3, <3>4, <3>5
    <3>7. QED
      BY <2>1, <3>6 DEF Served
  <2> HIDE DEF messages
  <2>5. seen[c] \subseteq seen'[c]
    BY <2>1, Sending
  <2>6. CASE <<r, i>> \in seen[c] \/ news[i] > 0
    BY <2>1, <2>5, <2>6 DEF Served, OnItsWay
  <2>7. ASSUME NEW other \in reads, other.ws = c, other.id = r, other.opts = opts[r],
               other.stage = "asked" \/ i \in other.page
        PROVE  Served(c, r, i)'
    <3>1. CASE other = rd
      BY <2>1, <2>4, <2>7, <3>1
    <3>2. CASE other # rd
      BY <2>1, <2>7, <3>2 DEF Served, OnItsWay
    <3>3. QED
      BY <3>1, <3>2
  <2>8. QED
    BY <1>3, <2>3, <2>6, <2>7 DEF Served, OnItsWay
<1>16. ASSUME NEW rd \in reads, ReadFails(rd)
       PROVE  Served(c, r, i)'
  BY <1>2, <1>16 DEF ReadFails, Subscribed
<1>17. CASE Destroy
  BY <1>2, <1>17 DEF Destroy, Subscribed
<1>18. CASE UNCHANGED vars
  BY <1>9, <1>18 DEF vars, store, shown
<1>19. QED
  BY <1>4, <1>5, <1>6, <1>7, <1>8, <1>10, <1>11, <1>12, <1>13, <1>14, <1>15, <1>16,
     <1>17, <1>18 DEF Next

-----------------------------------------------------------------------------
(* Theorems                                                                *)

LEMMA PushInvariant == Spec => []PushInv
<1>1. Init => PushInv
  BY InitPush
<1>2. PushInv /\ [Next]_vars => PushInv'
  BY TypesKept, MapsKept, ReadsKept, AskedKept, LostKept DEF PushInv
<1>3. QED
  BY <1>1, <1>2, PTL DEF Spec

\* _requestIdToSubscriptionOpts and _requestIdToSocket hold the same ids, and none
\* of them is about a socket that is gone: whatever ids the clients choose, share or
\* send while they are being closed, _closeHandler deletes all that
\* _processMessage has put there.
THEOREM MapsStayLive == Spec => []MapsAreLive
BY PushInvariant, PTL DEF PushInv

\* orderUpdate, tradeRecordUpdate and makeInitialResponse send a socket what one of
\* its own subscriptions asks for, under the id of that subscription, though another
\* socket may take over the id while the page is read or before an event is sent.
THEOREM OnlyAskedIsSent == Spec => []OnlyWhatWasAsked
BY PushInvariant, PTL DEF PushInv

\* Between the row that is written, the event that is emitted and the page that is
\* read nothing falls through: _processMessage registers the subscription before it
\* asks the database, so a record is on the page, its event finds the socket, or it was
\* there when the page was read, on a later one, and nobody has written it since.
THEOREM NothingStaysMissed == Spec => []NothingMissed
<1>1. PushInv => NothingMissed
  <2>1. SUFFICES ASSUME PushInv, Settled, NEW c \in Client, NEW r \in RequestId, NEW i \in Item,
                        Subscribed(c, r), IsOpen(i), i \notin expired, Matches(i, opts[r]),
                        ~BeyondPage(c, r, opts[r], i)
                 PROVE  <<r, i>> \in seen[c]
    BY DEF NothingMissed
  <2>2. Served(c, r, i)
    BY <2>1 DEF Owed, PushInv, NothingLost
  <2>3. ~OnItsWay(c, r, i)
    <3>1. reads = {} /\ news[i] = 0
      BY <2>1 DEF Settled
    <3>2. QED
      BY <3>1 DEF OnItsWay
  <2>4. QED
    BY <2>2, <2>3 DEF Served
<1>2. QED
  BY <1>1, PushInvariant, PTL
=============================================================================
