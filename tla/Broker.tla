---------------------------------- MODULE Broker ----------------------------------
(***************************************************************************)
(* The publish-subscribe broker (broker/broker.go).  Clients call          *)
(* Subscribe, Unsubscribe, Publish and Stop at any time; one goroutine,    *)
(* Start, distributes the messages and closes the subscribers' channels.   *)
(*                                                                         *)
(* A call is split where another goroutine can interfere: Subscribe tests  *)
(* closed before it stores the channel, Publish before it walks subs and   *)
(* before it sends, Stop before it closes stopCh and before it waits.  A   *)
(* call that finds the broker closed and returns at once changes nothing   *)
(* and is not an action.  Range over a sync.Map is no snapshot: it visits  *)
(* every key that is there throughout, and may visit one that comes or     *)
(* goes.                                                                   *)
(*                                                                         *)
(* Left out: the logger, and the branch for a closed publishCh, which      *)
(* nothing closes.                                                         *)
(***************************************************************************)
EXTENDS Integers, Sequences, FiniteSets

CONSTANTS
  Client,          \* goroutines that use the broker
  Channel,         \* the channels that Subscribe may make; bounds its calls
  Message,         \* the messages, each published at most once; bounds Publish
  PublishCap,      \* capacity of publishCh (16 in the code)
  UnsubCap,        \* capacity of unsubCh (16)
  SubCap,          \* capacity of a subscriber's channel (8)
  ConsumersClose,  \* consumers may close their own channel
  MaxUnsubscribe   \* bound: calls of Unsubscribe for one channel

ASSUME BrokerAssumption ==
  /\ PublishCap \in Nat /\ UnsubCap \in Nat /\ SubCap \in Nat
  /\ ConsumersClose \in BOOLEAN
  /\ MaxUnsubscribe \in Nat

VARIABLES
  subs,       \* the keys of the sync.Map
  chan,       \* chan[ch]: a subscriber's channel
  publishCh,  \* the queue of envelopes
  unsubCh,    \* the queue of unsubscribe requests
  closed,     \* the flag that Stop sets
  stopCh,     \* stopCh is closed
  server,     \* the goroutine of Start; doneCh is closed when it is done
  client,     \* client[c]: the call that c is in
  log,        \* history: the envelopes in the order publishCh took them
  returned    \* history: the messages whose Publish has returned

vars == <<subs, chan, publishCh, unsubCh, closed, stopCh, server, client, log, returned>>

-----------------------------------------------------------------------------
Null == "null"

Envelope == [msg : Message, recipients : SUBSET Channel]

\* sent is all that was ever sent on the channel, of which the consumer has
\* received the first read messages.  The last four fields are history.
ChannelState == [state    : {"unmade", "open", "closed"},
                 sent     : Seq(Message),
                 read     : Nat,
                 early    : BOOLEAN,          \* subscribed before Stop was called
                 missed   : SUBSET Message,   \* published before it subscribed
                 overflow : BOOLEAN,          \* a message found the buffer full
                 asked    : 0..MaxUnsubscribe]

ServerState == [pc   : {"new", "select", "broadcast", "closing", "done", "panicked"},
                msg  : Message \cup {Null},
                todo : SUBSET Channel]

ClientState == [pc   : {"idle", "store", "range", "send", "unsubscribe", "close", "wait"},
                msg  : Message \cup {Null},
                ch   : Channel \cup {Null},
                todo : SUBSET Channel,        \* keys when Range began
                recipients : SUBSET Channel]

Idle == [pc |-> "idle", msg |-> Null, ch |-> Null, todo |-> {}, recipients |-> {}]

Buffered(ch) == Len(chan[ch].sent) - chan[ch].read

SetClient(c, s) == client' = [client EXCEPT ![c] = s]
SetServer(s) == server' = s

Init ==
  /\ subs = {}
  /\ chan = [ch \in Channel |->
               [state |-> "unmade", sent |-> <<>>, read |-> 0, early |-> FALSE,
                missed |-> {}, overflow |-> FALSE, asked |-> 0]]
  /\ publishCh = <<>> /\ unsubCh = <<>>
  /\ closed = FALSE /\ stopCh = FALSE
  /\ server = [pc |-> "new", msg |-> Null, todo |-> {}]
  /\ client = [c \in Client |-> Idle]
  /\ log = <<>> /\ returned = {}

-----------------------------------------------------------------------------
(* Subscribe.                                                              *)

\* A channel is left for every Subscribe under way: the bound on its calls.
ChannelLeft ==
  Cardinality({c \in Client : client[c].pc = "store"})
    < Cardinality({ch \in Channel : chan[ch].state = "unmade"})

Subscribe(c) ==
  /\ client[c].pc = "idle" /\ ~closed /\ ChannelLeft
  /\ SetClient(c, [Idle EXCEPT !.pc = "store"])
  /\ UNCHANGED <<subs, chan, publishCh, unsubCh, closed, stopCh, server, log, returned>>

Store(c, ch) ==
  /\ client[c].pc = "store"
  /\ chan[ch].state = "unmade"
  /\ chan' = [chan EXCEPT ![ch].state = "open", ![ch].early = ~closed, ![ch].missed = returned]
  /\ subs' = subs \cup {ch}
  /\ SetClient(c, Idle)
  /\ UNCHANGED <<publishCh, unsubCh, closed, stopCh, server, log, returned>>

-----------------------------------------------------------------------------
(* Publish.                                                                *)

Unpublished(m) == m \notin returned /\ \A c \in Client : client[c].msg # m

Publish(c, m) ==
  /\ client[c].pc = "idle" /\ ~closed /\ Unpublished(m)
  /\ SetClient(c, [Idle EXCEPT !.pc = "range", !.msg = m, !.todo = subs])
  /\ UNCHANGED <<subs, chan, publishCh, unsubCh, closed, stopCh, server, log, returned>>

\* Range visits a channel.
Collect(c, ch) ==
  /\ client[c].pc = "range"
  /\ ch \in subs \ client[c].recipients
  /\ SetClient(c, [client[c] EXCEPT !.recipients = @ \cup {ch}])
  /\ UNCHANGED <<subs, chan, publishCh, unsubCh, closed, stopCh, server, log, returned>>

PublishReturn(c) ==
  /\ SetClient(c, Idle)
  /\ returned' = returned \cup {client[c].msg}

\* Range is over; a message without recipients is dropped.
RangeDone(c) ==
  /\ client[c].pc = "range"
  /\ client[c].todo \cap subs \subseteq client[c].recipients
  /\ IF client[c].recipients = {}
       THEN PublishReturn(c)
       ELSE SetClient(c, [client[c] EXCEPT !.pc = "send", !.todo = {}]) /\ UNCHANGED returned
  /\ UNCHANGED <<subs, chan, publishCh, unsubCh, closed, stopCh, server, log>>

Enqueue(c) ==
  LET env == [msg |-> client[c].msg, recipients |-> client[c].recipients] IN
  /\ client[c].pc = "send" /\ Len(publishCh) < PublishCap
  /\ publishCh' = Append(publishCh, env)
  /\ log' = Append(log, env)
  /\ PublishReturn(c)
  /\ UNCHANGED <<subs, chan, unsubCh, closed, stopCh, server>>

DropPublish(c) ==
  /\ client[c].pc = "send" /\ stopCh
  /\ PublishReturn(c)
  /\ UNCHANGED <<subs, chan, publishCh, unsubCh, closed, stopCh, server, log>>

-----------------------------------------------------------------------------
(* Unsubscribe.  Any client may pass any channel it got hold of.           *)

Unsubscribe(c, ch) ==
  /\ client[c].pc = "idle"
  /\ chan[ch].state # "unmade" /\ chan[ch].asked < MaxUnsubscribe
  /\ SetClient(c, [Idle EXCEPT !.pc = "unsubscribe", !.ch = ch])
  /\ chan' = [chan EXCEPT ![ch].asked = @ + 1]
  /\ UNCHANGED <<subs, publishCh, unsubCh, closed, stopCh, server, log, returned>>

QueueUnsubscribe(c) ==
  /\ client[c].pc = "unsubscribe" /\ Len(unsubCh) < UnsubCap
  /\ unsubCh' = Append(unsubCh, client[c].ch)
  /\ SetClient(c, Idle)
  /\ UNCHANGED <<subs, chan, publishCh, closed, stopCh, server, log, returned>>

DropUnsubscribe(c) ==
  /\ client[c].pc = "unsubscribe" /\ server.pc = "done"
  /\ SetClient(c, Idle)
  /\ UNCHANGED <<subs, chan, publishCh, unsubCh, closed, stopCh, server, log, returned>>

-----------------------------------------------------------------------------
(* Stop.                                                                   *)

Stop(c) ==
  /\ client[c].pc = "idle" /\ ~closed
  /\ closed' = TRUE
  /\ SetClient(c, [Idle EXCEPT !.pc = "close"])
  /\ UNCHANGED <<subs, chan, publishCh, unsubCh, stopCh, server, log, returned>>

CloseStop(c) ==
  /\ client[c].pc = "close"
  /\ stopCh' = TRUE
  /\ SetClient(c, [Idle EXCEPT !.pc = "wait"])
  /\ UNCHANGED <<subs, chan, publishCh, unsubCh, closed, server, log, returned>>

StopReturn(c) ==
  /\ client[c].pc = "wait" /\ server.pc = "done"
  /\ SetClient(c, Idle)
  /\ UNCHANGED <<subs, chan, publishCh, unsubCh, closed, stopCh, server, log, returned>>

-----------------------------------------------------------------------------
(* Start: the server.                                                      *)

Start ==
  /\ server.pc = "new"
  /\ SetServer([server EXCEPT !.pc = "select"])
  /\ UNCHANGED <<subs, chan, publishCh, unsubCh, closed, stopCh, client, log, returned>>

\* Mutation of RemoveAndClose: the channel is only removed.
RemoveOnly(ch, next) ==
  /\ subs' = subs \ {ch}
  /\ SetServer(next)
  /\ UNCHANGED chan

\* Remove ch and close it if subs has it, and go on as next says.  To close a
\* closed channel is a panic, which nothing recovers: the process dies.
RemoveAndClose(ch, next) ==
  /\ subs' = subs \ {ch}
  /\ CASE ch \notin subs -> SetServer(next) /\ UNCHANGED chan
       [] ch \in subs /\ chan[ch].state = "closed" ->
            SetServer([server EXCEPT !.pc = "panicked"]) /\ UNCHANGED chan
       [] OTHER -> chan' = [chan EXCEPT ![ch].state = "closed"] /\ SetServer(next)

ReceiveUnsubscribe ==
  /\ server.pc = "select" /\ unsubCh # <<>>
  /\ unsubCh' = Tail(unsubCh)
  /\ RemoveAndClose(Head(unsubCh), server)
  /\ UNCHANGED <<publishCh, closed, stopCh, client, log, returned>>

\* Mutations of ReceivePublish: the message goes to the subscribers of the moment,
\* and it stays in the queue.
ReceivePublishLate ==
  /\ server.pc = "select" /\ publishCh # <<>>
  /\ publishCh' = Tail(publishCh)
  /\ SetServer([pc |-> IF subs = {} THEN "select" ELSE "broadcast",
                msg |-> Head(publishCh).msg, todo |-> subs])
  /\ UNCHANGED <<subs, chan, unsubCh, closed, stopCh, client, log, returned>>

ReceivePublishKeeps ==
  /\ server.pc = "select" /\ publishCh # <<>>
  /\ SetServer([pc |-> "broadcast", msg |-> Head(publishCh).msg,
                todo |-> Head(publishCh).recipients])
  /\ UNCHANGED <<subs, chan, publishCh, unsubCh, closed, stopCh, client, log, returned>>

ReceivePublish ==
  /\ server.pc = "select" /\ publishCh # <<>>
  /\ publishCh' = Tail(publishCh)
  /\ SetServer([pc |-> "broadcast", msg |-> Head(publishCh).msg,
                todo |-> Head(publishCh).recipients])
  /\ UNCHANGED <<subs, chan, unsubCh, closed, stopCh, client, log, returned>>

\* Where the broadcast goes on when the channels of todo are still to be served.
Remaining(todo) ==
  IF todo = {} THEN [pc |-> "select", msg |-> Null, todo |-> {}]
               ELSE [server EXCEPT !.todo = todo]

\* Mutations of SafeSend: the panic on a closed channel ends the broadcast, and a
\* full channel blocks it.
SafeSendAborts(ch) ==
  /\ server.pc = "broadcast" /\ ch \in server.todo
  /\ CASE chan[ch].state = "closed" -> subs' = subs \ {ch} /\ UNCHANGED chan
       [] chan[ch].state = "open" /\ Buffered(ch) < SubCap ->
            chan' = [chan EXCEPT ![ch].sent = Append(@, server.msg)] /\ UNCHANGED subs
       [] OTHER -> chan' = [chan EXCEPT ![ch].overflow = TRUE] /\ UNCHANGED subs
  /\ SetServer(Remaining(IF chan[ch].state = "closed" THEN {} ELSE server.todo \ {ch}))
  /\ UNCHANGED <<publishCh, unsubCh, closed, stopCh, client, log, returned>>

SafeSendBlocks(ch) ==
  /\ server.pc = "broadcast" /\ ch \in server.todo
  /\ IF chan[ch].state = "closed"
       THEN subs' = subs \ {ch} /\ UNCHANGED chan
       ELSE /\ Buffered(ch) < SubCap
            /\ chan' = [chan EXCEPT ![ch].sent = Append(@, server.msg)] /\ UNCHANGED subs
  /\ SetServer(Remaining(server.todo \ {ch}))
  /\ UNCHANGED <<publishCh, unsubCh, closed, stopCh, client, log, returned>>

\* One turn of the broadcast.  The panic of a send on a closed channel is
\* recovered, and the channel is removed; a full channel misses the message.
SafeSend(ch) ==
  /\ server.pc = "broadcast" /\ ch \in server.todo
  /\ CASE chan[ch].state = "closed" -> subs' = subs \ {ch} /\ UNCHANGED chan
       [] chan[ch].state = "open" /\ Buffered(ch) < SubCap ->
            chan' = [chan EXCEPT ![ch].sent = Append(@, server.msg)] /\ UNCHANGED subs
       [] OTHER -> chan' = [chan EXCEPT ![ch].overflow = TRUE] /\ UNCHANGED subs
  /\ SetServer(Remaining(server.todo \ {ch}))
  /\ UNCHANGED <<publishCh, unsubCh, closed, stopCh, client, log, returned>>

ReceiveStop ==
  /\ server.pc = "select" /\ stopCh
  /\ SetServer([pc |-> "closing", msg |-> Null, todo |-> subs])
  /\ UNCHANGED <<subs, chan, publishCh, unsubCh, closed, stopCh, client, log, returned>>

\* Range of closeAllSubscribers visits a channel.
CloseSubscriber(ch) ==
  /\ server.pc = "closing" /\ ch \in subs
  /\ RemoveAndClose(ch, server)
  /\ UNCHANGED <<publishCh, unsubCh, closed, stopCh, client, log, returned>>

\* Mutation of Exit: Start returns though channels are still to be closed.
ExitEarly ==
  /\ server.pc = "closing"
  /\ SetServer([server EXCEPT !.pc = "done", !.todo = {}])
  /\ UNCHANGED <<subs, chan, publishCh, unsubCh, closed, stopCh, client, log, returned>>

Exit ==
  /\ server.pc = "closing" /\ server.todo \cap subs = {}
  /\ SetServer([server EXCEPT !.pc = "done", !.todo = {}])
  /\ UNCHANGED <<subs, chan, publishCh, unsubCh, closed, stopCh, client, log, returned>>

-----------------------------------------------------------------------------
(* The consumers of the channels.                                          *)

Receive(ch) ==
  /\ Buffered(ch) > 0
  /\ chan' = [chan EXCEPT ![ch].read = @ + 1]
  /\ UNCHANGED <<subs, publishCh, unsubCh, closed, stopCh, server, client, log, returned>>

ConsumerClose(ch) ==
  /\ ConsumersClose /\ chan[ch].state = "open"
  /\ chan' = [chan EXCEPT ![ch].state = "closed"]
  /\ UNCHANGED <<subs, publishCh, unsubCh, closed, stopCh, server, client, log, returned>>

-----------------------------------------------------------------------------
ServerStep ==
  \/ Start \/ ReceiveUnsubscribe \/ ReceivePublish \/ ReceiveStop \/ Exit
  \/ \E ch \in Channel : SafeSend(ch) \/ CloseSubscriber(ch)

\* What a call does once it has begun.
ClientStep(c) ==
  \/ \E ch \in Channel : Store(c, ch) \/ Collect(c, ch)
  \/ RangeDone(c) \/ Enqueue(c) \/ DropPublish(c)
  \/ QueueUnsubscribe(c) \/ DropUnsubscribe(c)
  \/ CloseStop(c) \/ StopReturn(c)

\* The broker has stopped and every call has returned, or the process has died.
Stopped ==
  /\ \/ server.pc = "panicked"
     \/ server.pc = "done" /\ \A c \in Client : client[c].pc = "idle"
  /\ UNCHANGED vars

Next ==
  \/ /\ server.pc # "panicked"
     /\ \/ ServerStep
        \/ \E c \in Client :
             \/ ClientStep(c) \/ Subscribe(c) \/ Stop(c)
             \/ \E m \in Message : Publish(c, m)
             \/ \E ch \in Channel : Unsubscribe(c, ch)
        \/ \E ch \in Channel : Receive(ch) \/ ConsumerClose(ch)
  \/ Stopped

Spec == Init /\ [][Next]_vars

\* The server runs, and so does a call that has begun.  Whether and when a client
\* calls, and a consumer receives, is open.
Fairness == WF_vars(ServerStep) /\ \A c \in Client : WF_vars(ClientStep(c))

FairSpec == Spec /\ Fairness
=============================================================================
