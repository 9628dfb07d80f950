----------------------------- MODULE BrokerProperties -----------------------------
(***************************************************************************)
(* What the broker promises to publishers and subscribers.                 *)
(***************************************************************************)
EXTENDS Broker, SequencesExt

\* The calls and the server hold the arguments they are going to use.
ArgumentsOK ==
  /\ \A c \in Client : client[c].pc \in {"range", "send"} => client[c].msg \in Message
  /\ \A c \in Client : client[c].pc = "unsubscribe" => client[c].ch \in Channel
  /\ server.pc = "broadcast" => server.msg \in Message

\* Every variable has its type, and the queues keep to their capacities.
TypeOK ==
  /\ subs \in SUBSET Channel
  /\ chan \in [Channel -> ChannelState]
  /\ publishCh \in Seq(Envelope) /\ Len(publishCh) <= PublishCap
  /\ unsubCh \in Seq(Channel) /\ Len(unsubCh) <= UnsubCap
  /\ closed \in BOOLEAN /\ stopCh \in BOOLEAN
  /\ server \in ServerState
  /\ client \in [Client -> ClientState]
  /\ log \in Seq(Envelope)
  /\ returned \in SUBSET Message
  /\ ArgumentsOK

-----------------------------------------------------------------------------
(* The channels.                                                           *)

\* No channel is closed twice, which would crash the process: however often and
\* from wherever a channel is unsubscribed, and even if the broker stops at the
\* same time, one close wins (the LoadAndDelete of removeAndClose).
NoDoubleClose == server.pc # "panicked"

\* Stop closes the channel of everyone who subscribed before it was called.
StopCloses ==
  server.pc = "done" => \A ch \in Channel : chan[ch].early => chan[ch].state = "closed"

-----------------------------------------------------------------------------
(* The messages.                                                           *)

\* Every subscriber sees messages in the order in which the queue took them (and
\* it takes a message once), so two subscribers never disagree about the order.
DeliveredInOrder ==
  \A ch \in Channel : \A i, j \in DOMAIN chan[ch].sent :
    i < j => \E k, l \in DOMAIN log :
               k < l /\ log[k].msg = chan[ch].sent[i] /\ log[l].msg = chan[ch].sent[j]

\* "a subscriber that joins after this call returns must not receive this message"
\* (the comment in Publish), though the message may still be in the queue then.
NoLateDelivery ==
  \A ch \in Channel : Range(chan[ch].sent) \cap chan[ch].missed = {}

\* The message of env has still to be sent on ch.
Underway(env, ch) ==
  \/ env \in Range(publishCh)
  \/ server.pc = "broadcast" /\ server.msg = env.msg /\ ch \in server.todo

\* A message the queue took reaches every recipient whose channel is open and has
\* never been full, whatever happens to the channels of the others: a closed or a
\* full channel does not deprive those behind it in the broadcast.
NoLoss ==
  \A k \in DOMAIN log : \A ch \in log[k].recipients :
    chan[ch].state = "open" /\ ~chan[ch].overflow =>
      log[k].msg \in Range(chan[ch].sent) \/ Underway(log[k], ch)

-----------------------------------------------------------------------------
(* The calls.                                                              *)

\* Every call returns, unless the process dies: Publish though no consumer ever reads
\* and the broker stops while the queue is full, Unsubscribe though the server exits
\* without draining its queue, Stop though consumers do not read and publishers wait.
CallsReturn ==
  \A c \in Client :
    client[c].pc # "idle" ~> client[c].pc = "idle" \/ server.pc = "panicked"

\* A channel that is unsubscribed is closed in the end, by the request or, if the
\* server exits before it takes the request, by Stop.
UnsubscribeCloses ==
  \A ch \in Channel :
    chan[ch].early /\ ch \in Range(unsubCh) ~>
      chan[ch].state = "closed" \/ server.pc = "panicked"

-----------------------------------------------------------------------------
(* Inductive invariants, on which the proofs rest.                         *)

\* The server is on its way out only after stopCh was closed, and that only after
\* closed was set.
StopOrder ==
  /\ stopCh => closed
  /\ server.pc \in {"closing", "done"} => stopCh
  /\ \A c \in Client : client[c].pc = "close" => closed

Made(ch) == chan[ch].state # "unmade"

Publishing(c) == client[c].pc \in {"range", "send"}

\* Every channel that was subscribed in time and is open is registered, and the
\* closing server has it on its list.
Registered ==
  \A ch \in Channel : chan[ch].early =>
    /\ Made(ch)
    /\ chan[ch].state = "open" => /\ ch \in subs
                                  /\ server.pc # "done"
                                  /\ server.pc = "closing" => ch \in server.todo

\* Only the server closes channels, and it removes what it closes.
SubsOpen == \A ch \in subs : chan[ch].state = "open"

\* What a channel missed was published before; a channel that is not made yet
\* holds nothing.
History ==
  /\ \A ch \in Channel : /\ chan[ch].missed \subseteq returned
                         /\ ~Made(ch) => chan[ch].sent = <<>>
  /\ \A ch \in subs : Made(ch)

\* A message whose Publish is under way is under way once.
Senders ==
  /\ \A c \in Client : Publishing(c) => client[c].msg \notin returned
  /\ \A c, d \in Client : Publishing(c) /\ Publishing(d) /\ client[c].msg = client[d].msg => c = d
  /\ \A c \in Client : \A ch \in client[c].recipients : Made(ch)

\* A message on its way to a channel was published after the channel subscribed.
NotMissed ==
  /\ \A i \in DOMAIN publishCh : \A ch \in publishCh[i].recipients :
       Made(ch) /\ publishCh[i].msg \notin chan[ch].missed
  /\ server.pc = "broadcast" => \A ch \in server.todo :
       Made(ch) /\ server.msg \notin chan[ch].missed

\* The queue is the end of the log; the message in broadcast is the one before it,
\* and what the channels were sent comes from the log up to there.
Queued ==
  LET n == Len(log) - Len(publishCh)
      taken(ch) == IF server.pc = "broadcast" /\ ch \in server.todo THEN n - 1 ELSE n
  IN /\ n \in Nat
     /\ \A i \in DOMAIN publishCh : publishCh[i] = log[n + i]
     /\ server.pc = "broadcast" => n \in DOMAIN log /\ server.msg = log[n].msg
     /\ \A ch \in Channel : \A i \in DOMAIN chan[ch].sent :
          \E k \in 1..taken(ch) : log[k].msg = chan[ch].sent[i]

\* What the queue took was addressed to channels that exist.
Addressed == \A k \in DOMAIN log : \A ch \in log[k].recipients : Made(ch)

=============================================================================
