------------------------------- MODULE BrokerProofs -------------------------------
(***************************************************************************)
(* Proofs about the broker, for any number of clients, channels and        *)
(* messages, every capacity of the queues and every bound.                 *)
(***************************************************************************)
EXTENDS BrokerProperties, TLAPS

\* The initial state has the types.
LEMMA InitType == Init => TypeOK
<1> SUFFICES ASSUME Init PROVE TypeOK
  OBVIOUS
<1>1. [state |-> "unmade", sent |-> <<>>, read |-> 0, early |-> FALSE,
       missed |-> {}, overflow |-> FALSE, asked |-> 0] \in ChannelState
  BY BrokerAssumption DEF ChannelState
<1>2. chan \in [Channel -> ChannelState]
  BY <1>1 DEF Init
<1>3. Idle \in ClientState
  BY DEF Idle, ClientState
<1>4. client \in [Client -> ClientState]
  BY <1>3 DEF Init
<1>5. server \in ServerState
  BY DEF Init, ServerState
<1>6. ArgumentsOK
  BY DEF Init, ArgumentsOK, Idle
<1>7. publishCh \in Seq(Envelope) /\ unsubCh \in Seq(Channel) /\ log \in Seq(Envelope)
  BY DEF Init
<1>8. Len(publishCh) = 0 /\ Len(unsubCh) = 0
  BY DEF Init
<1>9. Len(publishCh) <= PublishCap /\ Len(unsubCh) <= UnsubCap
  BY <1>8, BrokerAssumption
<1>10. QED
  BY <1>2, <1>4, <1>5, <1>6, <1>7, <1>9 DEF Init, TypeOK

\* A call replaces its client's record by another one, which holds its arguments.
LEMMA ClientType ==
  ASSUME client \in [Client -> ClientState], NEW c \in Client, NEW s \in ClientState,
         SetClient(c, s), ArgumentsOK, UNCHANGED server,
         s.pc \in {"range", "send"} => s.msg \in Message,
         s.pc = "unsubscribe" => s.ch \in Channel
  PROVE  client' \in [Client -> ClientState] /\ ArgumentsOK'
<1>1. client' \in [Client -> ClientState]
  BY DEF SetClient
<1>2. \A d \in Client : client'[d] = IF d = c THEN s ELSE client[d]
  BY DEF SetClient
<1>3. QED
  BY <1>1, <1>2 DEF ArgumentsOK

\* The calls of Subscribe and of Publish keep the types.
LEMMA PublishType ==
  ASSUME TypeOK, NEW c \in Client,
         \/ Subscribe(c) \/ \E m \in Message : Publish(c, m)
         \/ \E ch \in Channel : Store(c, ch) \/ Collect(c, ch)
         \/ RangeDone(c) \/ Enqueue(c) \/ DropPublish(c)
  PROVE  TypeOK'
<1>0. /\ client \in [Client -> ClientState] /\ client[c] \in ClientState
      /\ Idle \in ClientState /\ Idle.pc = "idle" /\ ArgumentsOK
      /\ \A ch \in Channel : chan[ch] \in ChannelState
  BY DEF TypeOK, ClientState, Idle
<1>1. CASE Subscribe(c)
  <2>1. [Idle EXCEPT !.pc = "store"] \in ClientState
    BY DEF Idle, ClientState
  <2>2. QED
    BY <1>0, <1>1, <2>1, ClientType DEF Subscribe, TypeOK, Idle
<1>2. ASSUME NEW ch \in Channel, Store(c, ch) PROVE TypeOK'
  <2>1. [chan[ch] EXCEPT !.state = "open", !.early = ~closed, !.missed = returned]
          \in ChannelState
    BY <1>0 DEF TypeOK, ChannelState
  <2>2. chan' \in [Channel -> ChannelState]
    BY <1>2, <2>1 DEF Store, TypeOK
  <2>3. client' \in [Client -> ClientState] /\ ArgumentsOK'
    BY <1>0, <1>2, ClientType DEF Store
  <2>4. QED
    BY <1>2, <2>2, <2>3 DEF Store, TypeOK
<1>3. ASSUME NEW m \in Message, Publish(c, m) PROVE TypeOK'
  <2> DEFINE s == [Idle EXCEPT !.pc = "range", !.msg = m, !.todo = subs]
  <2>1. s \in ClientState /\ s.msg = m /\ s.pc = "range"
    BY DEF TypeOK, Idle, ClientState
  <2> HIDE DEF s
  <2>2. client' \in [Client -> ClientState] /\ ArgumentsOK'
    BY <1>0, <1>3, <2>1, ClientType DEF Publish, s
  <2>3. QED
    BY <1>3, <2>2 DEF Publish, TypeOK
<1>4. ASSUME NEW ch \in Channel, Collect(c, ch) PROVE TypeOK'
  <2> DEFINE s == [client[c] EXCEPT !.recipients = @ \cup {ch}]
  <2>1. s \in ClientState /\ s.msg = client[c].msg /\ s.pc = "range"
    BY <1>0, <1>4 DEF ClientState, Collect
  <2> HIDE DEF s
  <2>2. client[c].msg \in Message
    BY <1>0, <1>4 DEF ArgumentsOK, Collect
  <2>3. SetClient(c, s) /\ UNCHANGED server
    BY <1>4 DEF Collect, s
  <2>4. client' \in [Client -> ClientState] /\ ArgumentsOK'
    BY <1>0, <2>1, <2>2, <2>3, ClientType
  <2>5. QED
    BY <1>4, <2>4 DEF Collect, TypeOK
<1>5. CASE RangeDone(c)
  <2> DEFINE s == [client[c] EXCEPT !.pc = "send", !.todo = {}]
  <2>1. s \in ClientState /\ s.msg = client[c].msg /\ s.pc = "send"
    BY <1>0 DEF ClientState
  <2> HIDE DEF s
  <2>2. client[c].msg \in Message
    BY <1>0, <1>5 DEF ArgumentsOK, RangeDone
  <2>3. UNCHANGED server /\ (SetClient(c, Idle) \/ SetClient(c, s))
    BY <1>5 DEF RangeDone, PublishReturn, s
  <2>4. client' \in [Client -> ClientState] /\ ArgumentsOK'
    BY <1>0, <2>1, <2>2, <2>3, ClientType
  <2>5. returned' \in SUBSET Message
    BY <1>5, <2>2 DEF RangeDone, PublishReturn, TypeOK
  <2>6. QED
    BY <1>5, <2>4, <2>5 DEF RangeDone, TypeOK
<1>6. CASE Enqueue(c)
  <2>1. client[c].msg \in Message
    BY <1>0, <1>6 DEF ArgumentsOK, Enqueue
  <2>2. client' \in [Client -> ClientState] /\ ArgumentsOK' /\ returned' \in SUBSET Message
    BY <1>0, <1>6, <2>1, ClientType DEF Enqueue, PublishReturn, TypeOK
  <2> DEFINE env == [msg |-> client[c].msg, recipients |-> client[c].recipients]
  <2>3. env \in Envelope
    BY <1>0, <2>1 DEF Envelope, ClientState
  <2>4. publishCh' = Append(publishCh, env) /\ log' = Append(log, env)
    BY <1>6 DEF Enqueue
  <2> HIDE DEF env
  <2>5. publishCh' \in Seq(Envelope) /\ log' \in Seq(Envelope) /\ Len(publishCh') <= PublishCap
    BY <1>6, <2>3, <2>4, BrokerAssumption DEF Enqueue, TypeOK
  <2>6. QED
    BY <1>6, <2>2, <2>5 DEF Enqueue, TypeOK
<1>7. CASE DropPublish(c)
  <2>1. client[c].msg \in Message
    BY <1>0, <1>7 DEF ArgumentsOK, DropPublish
  <2>2. QED
    BY <1>0, <1>7, <2>1, ClientType DEF DropPublish, PublishReturn, TypeOK
<1>8. QED
  BY <1>1, <1>2, <1>3, <1>4, <1>5, <1>6, <1>7

\* The calls of Unsubscribe and of Stop keep the types.
LEMMA ControlType ==
  ASSUME TypeOK, NEW c \in Client,
         \/ \E ch \in Channel : Unsubscribe(c, ch)
         \/ QueueUnsubscribe(c) \/ DropUnsubscribe(c)
         \/ Stop(c) \/ CloseStop(c) \/ StopReturn(c)
  PROVE  TypeOK'
<1>0. /\ client \in [Client -> ClientState] /\ client[c] \in ClientState
      /\ Idle \in ClientState /\ Idle.pc = "idle" /\ ArgumentsOK
      /\ \A ch \in Channel : chan[ch] \in ChannelState
  BY DEF TypeOK, ClientState, Idle
<1>1. ASSUME NEW ch \in Channel, Unsubscribe(c, ch) PROVE TypeOK'
  <2> DEFINE s == [Idle EXCEPT !.pc = "unsubscribe", !.ch = ch]
  <2>1. s \in ClientState /\ s.pc = "unsubscribe" /\ s.ch = ch
    BY DEF ClientState, Idle
  <2> HIDE DEF s
  <2>2. client' \in [Client -> ClientState] /\ ArgumentsOK'
    BY <1>0, <1>1, <2>1, ClientType DEF Unsubscribe, s
  <2>3. [chan[ch] EXCEPT !.asked = @ + 1] \in ChannelState
    <3>1. chan[ch].asked \in 0..MaxUnsubscribe /\ chan[ch].asked < MaxUnsubscribe
      BY <1>0, <1>1 DEF Unsubscribe, ChannelState
    <3>2. chan[ch].asked + 1 \in 0..MaxUnsubscribe
      BY <3>1, BrokerAssumption
    <3>3. QED
      BY <1>0, <3>2 DEF ChannelState
  <2>4. chan' \in [Channel -> ChannelState]
    BY <1>1, <2>3 DEF Unsubscribe, TypeOK
  <2>5. QED
    BY <1>1, <2>2, <2>4 DEF Unsubscribe, TypeOK
<1>2. CASE QueueUnsubscribe(c)
  <2>1. client[c].ch \in Channel
    BY <1>0, <1>2 DEF ArgumentsOK, QueueUnsubscribe
  <2>2. unsubCh' \in Seq(Channel) /\ Len(unsubCh') <= UnsubCap
    BY <1>2, <2>1, BrokerAssumption DEF QueueUnsubscribe, TypeOK
  <2>3. client' \in [Client -> ClientState] /\ ArgumentsOK'
    BY <1>0, <1>2, ClientType DEF QueueUnsubscribe
  <2>4. QED
    BY <1>2, <2>2, <2>3 DEF QueueUnsubscribe, TypeOK
<1>3. CASE DropUnsubscribe(c)
  BY <1>0, <1>3, ClientType DEF DropUnsubscribe, TypeOK
<1>4. CASE Stop(c)
  <2>1. [Idle EXCEPT !.pc = "close"] \in ClientState
    BY DEF ClientState, Idle
  <2>2. QED
    BY <1>0, <1>4, <2>1, ClientType DEF Stop, TypeOK, Idle
<1>5. CASE CloseStop(c)
  <2>1. [Idle EXCEPT !.pc = "wait"] \in ClientState
    BY DEF ClientState, Idle
  <2>2. QED
    BY <1>0, <1>5, <2>1, ClientType DEF CloseStop, TypeOK, Idle
<1>6. CASE StopReturn(c)
  BY <1>0, <1>6, ClientType DEF StopReturn, TypeOK
<1>7. QED
  BY <1>1, <1>2, <1>3, <1>4, <1>5, <1>6

\* Removing and closing a channel keeps the types.
LEMMA RemoveType ==
  ASSUME TypeOK, NEW ch \in Channel, NEW next \in ServerState,
         next.pc # "broadcast", server.pc # "broadcast", RemoveAndClose(ch, next)
  PROVE  /\ subs' \in SUBSET Channel /\ chan' \in [Channel -> ChannelState]
         /\ server' \in ServerState /\ server'.pc # "broadcast"
<1>1. subs' \in SUBSET Channel
  BY DEF RemoveAndClose, TypeOK
<1>2. [chan[ch] EXCEPT !.state = "closed"] \in ChannelState
  BY DEF TypeOK, ChannelState
<1>3. chan' \in [Channel -> ChannelState]
  BY <1>2 DEF RemoveAndClose, TypeOK
<1>4. [server EXCEPT !.pc = "panicked"] \in ServerState
  BY DEF TypeOK, ServerState
<1>5. \/ server' = next
      \/ server' = [server EXCEPT !.pc = "panicked"]
  BY DEF RemoveAndClose, SetServer
<1>6. server' \in ServerState /\ server'.pc # "broadcast"
  BY <1>4, <1>5 DEF TypeOK, ServerState
<1>7. QED
  BY <1>1, <1>3, <1>6

\* The steps of the server keep the types.
LEMMA ServerType ==
  ASSUME TypeOK, ServerStep
  PROVE  TypeOK'
<1>0. /\ server \in ServerState /\ ArgumentsOK /\ subs \in SUBSET Channel
      /\ \A ch \in Channel : chan[ch] \in ChannelState
  BY DEF TypeOK
<1>1. CASE Start
  BY <1>0, <1>1 DEF Start, SetServer, TypeOK, ServerState, ArgumentsOK
<1>2. CASE ReceiveUnsubscribe
  <2>1. /\ Head(unsubCh) \in Channel /\ unsubCh' \in Seq(Channel)
        /\ Len(unsubCh') <= UnsubCap
    BY <1>2, BrokerAssumption DEF ReceiveUnsubscribe, TypeOK
  <2>2. /\ subs' \in SUBSET Channel /\ chan' \in [Channel -> ChannelState]
        /\ server' \in ServerState /\ server'.pc # "broadcast"
    BY <1>0, <1>2, <2>1, RemoveType DEF ReceiveUnsubscribe
  <2>3. ArgumentsOK'
    BY <1>0, <1>2, <2>2 DEF ReceiveUnsubscribe, ArgumentsOK
  <2>4. QED
    BY <1>2, <2>1, <2>2, <2>3 DEF ReceiveUnsubscribe, TypeOK
<1>3. CASE ReceivePublish
  <2>1. /\ Head(publishCh) \in Envelope /\ publishCh' \in Seq(Envelope)
        /\ Len(publishCh') <= PublishCap
    BY <1>3, BrokerAssumption DEF ReceivePublish, TypeOK
  <2>2. server' \in ServerState /\ server'.msg \in Message
    BY <1>3, <2>1 DEF ReceivePublish, SetServer, ServerState, Envelope
  <2>3. ArgumentsOK'
    BY <1>0, <1>3, <2>2 DEF ReceivePublish, ArgumentsOK
  <2>4. QED
    BY <1>3, <2>1, <2>2, <2>3 DEF ReceivePublish, TypeOK
<1>4. CASE ReceiveStop
  <2>1. server' \in ServerState /\ server'.pc = "closing"
    BY <1>0, <1>4 DEF ReceiveStop, SetServer, ServerState
  <2>2. QED
    BY <1>0, <1>4, <2>1 DEF ReceiveStop, TypeOK, ArgumentsOK
<1>5. CASE Exit
  <2>1. server' \in ServerState /\ server'.pc = "done"
    BY <1>0, <1>5 DEF Exit, SetServer, ServerState
  <2>2. QED
    BY <1>0, <1>5, <2>1 DEF Exit, TypeOK, ArgumentsOK
<1>6. ASSUME NEW ch \in Channel, SafeSend(ch) PROVE TypeOK'
  <2>1. server.msg \in Message /\ server.todo \in SUBSET Channel
    BY <1>0, <1>6 DEF SafeSend, ArgumentsOK, ServerState
  <2>2. subs' \in SUBSET Channel
    BY <1>0, <1>6 DEF SafeSend
  <2>3. /\ [chan[ch] EXCEPT !.sent = Append(@, server.msg)] \in ChannelState
        /\ [chan[ch] EXCEPT !.overflow = TRUE] \in ChannelState
    <3>1. chan[ch].sent \in Seq(Message)
      BY <1>0 DEF ChannelState
    <3>2. Append(chan[ch].sent, server.msg) \in Seq(Message)
      BY <2>1, <3>1
    <3>3. QED
      BY <1>0, <3>2 DEF ChannelState
  <2>4. chan' \in [Channel -> ChannelState]
    BY <1>6, <2>3 DEF SafeSend, TypeOK
  <2>5. Remaining(server.todo \ {ch}) \in ServerState
    BY <1>0, <2>1 DEF Remaining, ServerState
  <2>6. Remaining(server.todo \ {ch}).pc = "broadcast"
          => Remaining(server.todo \ {ch}).msg \in Message
    BY <1>0, <2>1 DEF Remaining, ServerState
  <2>7. ArgumentsOK'
    BY <1>0, <1>6, <2>6 DEF SafeSend, SetServer, ArgumentsOK
  <2>8. QED
    BY <1>6, <2>2, <2>4, <2>5, <2>7 DEF SafeSend, SetServer, TypeOK
<1>7. ASSUME NEW ch \in Channel, CloseSubscriber(ch) PROVE TypeOK'
  <2>1. /\ subs' \in SUBSET Channel /\ chan' \in [Channel -> ChannelState]
        /\ server' \in ServerState /\ server'.pc # "broadcast"
    BY <1>0, <1>7, RemoveType DEF CloseSubscriber
  <2>2. ArgumentsOK'
    BY <1>0, <1>7, <2>1 DEF CloseSubscriber, ArgumentsOK
  <2>3. QED
    BY <1>7, <2>1, <2>2 DEF CloseSubscriber, TypeOK
<1>8. QED
  BY <1>1, <1>2, <1>3, <1>4, <1>5, <1>6, <1>7 DEF ServerStep

\* The consumers keep the types.
LEMMA ConsumerType ==
  ASSUME TypeOK, NEW ch \in Channel, Receive(ch) \/ ConsumerClose(ch)
  PROVE  TypeOK'
<1>1. chan[ch] \in ChannelState
  BY DEF TypeOK
<1>2. /\ [chan[ch] EXCEPT !.read = @ + 1] \in ChannelState
      /\ [chan[ch] EXCEPT !.state = "closed"] \in ChannelState
  BY <1>1 DEF ChannelState
<1>3. chan' \in [Channel -> ChannelState]
  BY <1>2 DEF Receive, ConsumerClose, TypeOK
<1>4. ArgumentsOK'
  BY DEF Receive, ConsumerClose, TypeOK, ArgumentsOK
<1>5. QED
  BY <1>3, <1>4 DEF Receive, ConsumerClose, TypeOK

\* Every step keeps the types.
LEMMA StepPreservesType == TypeOK /\ [Next]_vars => TypeOK'
<1> SUFFICES ASSUME TypeOK, [Next]_vars PROVE TypeOK'
  OBVIOUS
<1>1. CASE UNCHANGED vars
  BY <1>1 DEF vars, TypeOK, ArgumentsOK
<1>2. CASE ServerStep
  BY <1>2, ServerType
<1>3. CASE \E c \in Client : ClientStep(c)
  BY <1>3, PublishType, ControlType DEF ClientStep
<1>4. CASE \E c \in Client : Subscribe(c) \/ Stop(c) \/ (\E m \in Message : Publish(c, m))
                             \/ \E ch \in Channel : Unsubscribe(c, ch)
  BY <1>4, PublishType, ControlType
<1>5. CASE \E ch \in Channel : Receive(ch) \/ ConsumerClose(ch)
  BY <1>5, ConsumerType
<1>6. QED
  BY <1>1, <1>2, <1>3, <1>4, <1>5 DEF Next, Stopped

\* Type correctness of the broker.
THEOREM BrokerTypeCorrect == Spec => []TypeOK
<1>1. Init => TypeOK
  BY InitType
<1>2. TypeOK /\ [Next]_vars => TypeOK'
  BY StepPreservesType
<1>3. QED
  BY <1>1, <1>2, PTL DEF Spec

-----------------------------------------------------------------------------
(* Stop and the channels.                                                  *)

\* The steps of clients that leave the channels and the server alone.
LEMMA QuietSteps ==
  ASSUME NEW c \in Client,
         \/ Subscribe(c) \/ Stop(c) \/ \E m \in Message : Publish(c, m)
         \/ \E ch \in Channel : Collect(c, ch)
         \/ RangeDone(c) \/ Enqueue(c) \/ DropPublish(c)
         \/ QueueUnsubscribe(c) \/ DropUnsubscribe(c) \/ CloseStop(c) \/ StopReturn(c)
  PROVE  UNCHANGED <<subs, chan, server>> /\ (closed => closed') /\ (stopCh => stopCh')
<1>1. ASSUME NEW m \in Message, Publish(c, m) PROVE UNCHANGED <<subs, chan, server, closed, stopCh>>
  BY <1>1 DEF Publish
<1>2. ASSUME NEW ch \in Channel, Collect(c, ch) PROVE UNCHANGED <<subs, chan, server, closed, stopCh>>
  BY <1>2 DEF Collect
<1>3. QED
  BY <1>1, <1>2 DEF Subscribe, Stop, RangeDone, Enqueue, DropPublish, QueueUnsubscribe,
     DropUnsubscribe, CloseStop, StopReturn

\* What removing and closing does to the channels.
LEMMA RemoveEffect ==
  ASSUME TypeOK, NEW ch \in Channel, RemoveAndClose(ch, server)
  PROVE  /\ subs' = subs \ {ch}
         /\ \A d \in Channel : d # ch => chan'[d] = chan[d]
         /\ chan'[ch].state = IF ch \in subs THEN "closed" ELSE chan[ch].state
         /\ \A d \in Channel : /\ chan'[d].early = chan[d].early
                                /\ chan'[d].missed = chan[d].missed
                                /\ chan'[d].sent = chan[d].sent
         /\ server' = server \/ server'.pc = "panicked"
<1>1. chan[ch] \in ChannelState /\ server \in ServerState
  BY DEF TypeOK
<1>2. CASE chan' = chan /\ (ch \notin subs \/ chan[ch].state = "closed")
  BY <1>1, <1>2 DEF RemoveAndClose, SetServer, ServerState
<1>3. CASE chan' = [chan EXCEPT ![ch].state = "closed"] /\ ch \in subs /\ server' = server
  BY <1>1, <1>3 DEF RemoveAndClose, TypeOK, ChannelState
<1>4. QED
  BY <1>2, <1>3 DEF RemoveAndClose, SetServer

\* What a send does to the channels.
LEMMA SendEffect ==
  ASSUME TypeOK, NEW ch \in Channel, SafeSend(ch)
  PROVE  /\ \A d \in Channel : d # ch => chan'[d] = chan[d]
         /\ chan'[ch].state = chan[ch].state /\ chan'[ch].early = chan[ch].early
         /\ chan'[ch].missed = chan[ch].missed
         /\ chan'[ch].sent \in {chan[ch].sent, Append(chan[ch].sent, server.msg)}
         /\ subs' = subs \/ (chan[ch].state = "closed" /\ subs' = subs \ {ch})
         /\ server'.pc \in {"select", "broadcast"}
         /\ server'.pc = "broadcast" =>
              server'.msg = server.msg /\ server'.todo = server.todo \ {ch}
BY DEF SafeSend, SetServer, Remaining, TypeOK, ChannelState, ServerState

\* What a call does to the records of the clients.
LEMMA SetClientIs ==
  ASSUME TypeOK, NEW c \in Client, NEW s, SetClient(c, s)
  PROVE  \A d \in Client : client'[d] = IF d = c THEN s ELSE client[d]
BY DEF TypeOK, SetClient

\* The order of closed, stopCh and the exit of the server is kept.
LEMMA StepKeepsStopOrder == TypeOK /\ StopOrder /\ [Next]_vars => StopOrder'
<1> SUFFICES ASSUME TypeOK, StopOrder, [Next]_vars PROVE StopOrder'
  OBVIOUS
<1>1. CASE UNCHANGED vars
  BY <1>1 DEF vars, StopOrder
<1>2. CASE ServerStep
  <2>1. UNCHANGED <<closed, stopCh, client>>
    BY <1>2 DEF ServerStep, Start, ReceiveUnsubscribe, ReceivePublish, ReceiveStop, Exit,
       SafeSend, CloseSubscriber
  <2>2. server'.pc \in {"closing", "done"} => server.pc \in {"closing", "done"} \/ stopCh
    <3>1. CASE Start \/ ReceivePublish \/ ReceiveStop \/ Exit
      BY <3>1 DEF Start, ReceivePublish, ReceiveStop, Exit, SetServer, TypeOK, ServerState
    <3>2. CASE ReceiveUnsubscribe
      BY <3>2, RemoveEffect DEF ReceiveUnsubscribe, TypeOK, ServerState
    <3>3. ASSUME NEW ch \in Channel, SafeSend(ch) PROVE server'.pc \notin {"closing", "done"}
      BY <3>3, SendEffect
    <3>4. ASSUME NEW ch \in Channel, CloseSubscriber(ch) PROVE server.pc = "closing"
      BY <3>4 DEF CloseSubscriber
    <3>5. QED
      BY <1>2, <3>1, <3>2, <3>3, <3>4 DEF ServerStep
  <2>3. QED
    BY <2>1, <2>2 DEF StopOrder
<1>3. ASSUME NEW c \in Client, ClientStep(c) \/ Subscribe(c) \/ Stop(c)
                                 \/ (\E m \in Message : Publish(c, m))
                                 \/ \E ch \in Channel : Unsubscribe(c, ch)
      PROVE  StopOrder'
  <2>1. CASE Stop(c)
    BY <2>1 DEF Stop, SetClient, StopOrder, TypeOK, Idle, ClientState
  <2>2. CASE CloseStop(c)
    BY <2>2 DEF CloseStop, SetClient, StopOrder, TypeOK, Idle, ClientState
  <2>3. ASSUME ~Stop(c), ~CloseStop(c)
        PROVE  /\ UNCHANGED <<closed, stopCh, server>>
               /\ \A d \in Client : client'[d].pc = "close" => client[d].pc = "close"
    <3>1. ASSUME NEW ch \in Channel, Store(c, ch) \/ Unsubscribe(c, ch) \/ Collect(c, ch)
          PROVE  /\ UNCHANGED <<closed, stopCh, server>>
                 /\ \A d \in Client : client'[d].pc = "close" => client[d].pc = "close"
      <4>1. CASE Store(c, ch)
        BY <4>1, SetClientIs DEF Store, Idle
      <4>2. CASE Unsubscribe(c, ch)
        <5> DEFINE s == [Idle EXCEPT !.pc = "unsubscribe", !.ch = ch]
        <5>1. s.pc = "unsubscribe"
          BY DEF Idle
        <5>2. SetClient(c, s) /\ UNCHANGED <<closed, stopCh, server>>
          BY <4>2 DEF Unsubscribe
        <5> HIDE DEF s
        <5>3. QED
          BY <5>1, <5>2, SetClientIs
      <4>3. CASE Collect(c, ch)
        <5>1. [client[c] EXCEPT !.recipients = @ \cup {ch}].pc = client[c].pc
          BY DEF TypeOK, ClientState
        <5>2. QED
          BY <4>3, <5>1, SetClientIs DEF Collect
      <4>4. QED
        BY <3>1, <4>1, <4>2, <4>3
    <3>2. ASSUME NEW m \in Message, Publish(c, m)
          PROVE  /\ UNCHANGED <<closed, stopCh, server>>
                 /\ \A d \in Client : client'[d].pc = "close" => client[d].pc = "close"
      BY <3>2 DEF Publish, SetClient, Idle, TypeOK, ClientState
    <3>3. CASE Subscribe(c) \/ RangeDone(c) \/ Enqueue(c) \/ DropPublish(c)
                 \/ QueueUnsubscribe(c) \/ DropUnsubscribe(c) \/ StopReturn(c)
      <4> DEFINE sending == [client[c] EXCEPT !.pc = "send", !.todo = {}]
      <4>1. Idle.pc # "close" /\ [Idle EXCEPT !.pc = "store"].pc # "close" /\ sending.pc # "close"
        BY DEF Idle, TypeOK, ClientState
      <4> HIDE DEF sending
      <4>2. /\ UNCHANGED <<closed, stopCh, server>>
            /\ \/ SetClient(c, Idle) \/ SetClient(c, [Idle EXCEPT !.pc = "store"])
               \/ SetClient(c, sending)
        BY <3>3 DEF Subscribe, RangeDone, Enqueue, DropPublish, QueueUnsubscribe,
           DropUnsubscribe, StopReturn, PublishReturn, sending
      <4>3. QED
        BY <4>1, <4>2, SetClientIs
    <3>4. QED
      BY <1>3, <2>3, <3>1, <3>2, <3>3 DEF ClientStep
  <2>4. QED
    BY <2>1, <2>2, <2>3 DEF StopOrder
<1>4. ASSUME NEW ch \in Channel, Receive(ch) \/ ConsumerClose(ch) PROVE StopOrder'
  BY <1>4 DEF Receive, ConsumerClose, StopOrder
<1>5. QED
  BY <1>1, <1>2, <1>3, <1>4 DEF Next, Stopped

\* What was subscribed in time stays registered until it is closed.
LEMMA StepKeepsRegistered ==
  TypeOK /\ StopOrder /\ Registered /\ [Next]_vars => Registered'
<1> SUFFICES ASSUME TypeOK, StopOrder, Registered, [Next]_vars PROVE Registered'
  OBVIOUS
<1>1. CASE UNCHANGED <<subs, chan, server>>
  BY <1>1 DEF Registered, Made
<1>2. CASE ReceiveUnsubscribe
  <2>1. Head(unsubCh) \in Channel /\ RemoveAndClose(Head(unsubCh), server) /\ server.pc = "select"
    BY <1>2 DEF ReceiveUnsubscribe, TypeOK
  <2>2. QED
    BY <2>1, RemoveEffect DEF Registered, Made, TypeOK, ServerState, ChannelState
<1>3. CASE Start \/ ReceivePublish \/ ReceiveStop
  BY <1>3 DEF Start, ReceivePublish, ReceiveStop, SetServer, Registered, Made, TypeOK, ServerState
<1>4. CASE Exit
  BY <1>4 DEF Exit, SetServer, Registered, Made, TypeOK, ServerState
<1>5. ASSUME NEW ch \in Channel, SafeSend(ch) PROVE Registered'
  <2>1. \A d \in Channel : chan'[d].state = chan[d].state /\ chan'[d].early = chan[d].early
    BY <1>5, SendEffect
  <2>2. \A d \in Channel : chan[d].state = "open" /\ d \in subs => d \in subs'
    BY <1>5, SendEffect
  <2>3. server'.pc \in {"select", "broadcast"}
    BY <1>5, SendEffect
  <2>4. QED
    BY <2>1, <2>2, <2>3 DEF Registered, Made
<1>6. ASSUME NEW ch \in Channel, CloseSubscriber(ch) PROVE Registered'
  <2>1. RemoveAndClose(ch, server) /\ server.pc = "closing"
    BY <1>6 DEF CloseSubscriber
  <2>2. \A d \in Channel : /\ chan'[d].early = chan[d].early
                           /\ Made(d) => Made(d)'
                           /\ chan'[d].state = "open" => chan[d].state = "open"
    BY <2>1, RemoveEffect DEF Made
  <2>3. \A d \in Channel : chan'[d].state = "open" /\ d \in subs => d \in subs'
    BY <2>1, RemoveEffect
  <2>4. server' = server \/ server'.pc = "panicked"
    BY <2>1, RemoveEffect
  <2>5. QED
    BY <2>2, <2>3, <2>4 DEF Registered, Made
<1>7. ASSUME NEW c \in Client, NEW ch \in Channel, Store(c, ch) PROVE Registered'
  BY <1>7 DEF Store, Registered, Made, StopOrder, TypeOK, ChannelState
<1>8. ASSUME NEW c \in Client, NEW ch \in Channel, Unsubscribe(c, ch) PROVE Registered'
  BY <1>8 DEF Unsubscribe, Registered, Made, TypeOK, ChannelState
<1>9. ASSUME NEW ch \in Channel, Receive(ch) \/ ConsumerClose(ch) PROVE Registered'
  <2>1. CASE Receive(ch)
    BY <2>1 DEF Receive, Registered, Made, TypeOK, ChannelState
  <2>2. CASE ConsumerClose(ch)
    BY <2>2 DEF ConsumerClose, Registered, Made, TypeOK, ChannelState
  <2>3. QED
    BY <1>9, <2>1, <2>2
<1>10. QED
  BY <1>1, <1>2, <1>3, <1>4, <1>5, <1>6, <1>7, <1>8, <1>9, QuietSteps
     DEF Next, ServerStep, ClientStep, Stopped, vars

\* Without consumers that close, what subs holds is open.
LEMMA StepKeepsSubsOpen ==
  TypeOK /\ ~ConsumersClose /\ SubsOpen /\ [Next]_vars => SubsOpen'
<1> SUFFICES ASSUME TypeOK, ~ConsumersClose, SubsOpen, [Next]_vars PROVE SubsOpen'
  OBVIOUS
<1>1. CASE UNCHANGED <<subs, chan>>
  BY <1>1 DEF SubsOpen
<1>2. ASSUME NEW ch \in Channel, RemoveAndClose(ch, server) PROVE SubsOpen'
  BY <1>2, RemoveEffect DEF SubsOpen, TypeOK
<1>3. CASE ReceiveUnsubscribe
  BY <1>2, <1>3 DEF ReceiveUnsubscribe, TypeOK
<1>4. ASSUME NEW ch \in Channel, SafeSend(ch) PROVE SubsOpen'
  <2>1. subs' \subseteq subs /\ subs \subseteq Channel
    BY <1>4, SendEffect DEF TypeOK
  <2>2. \A d \in Channel : chan'[d].state = chan[d].state
    BY <1>4, SendEffect
  <2>3. QED
    BY <2>1, <2>2 DEF SubsOpen
<1>5. ASSUME NEW ch \in Channel, CloseSubscriber(ch) PROVE SubsOpen'
  BY <1>2, <1>5 DEF CloseSubscriber
<1>6. ASSUME NEW c \in Client, NEW ch \in Channel, Store(c, ch) \/ Unsubscribe(c, ch)
      PROVE  SubsOpen'
  <2>1. CASE Store(c, ch)
    BY <2>1 DEF Store, SubsOpen, TypeOK, ChannelState
  <2>2. CASE Unsubscribe(c, ch)
    BY <2>2 DEF Unsubscribe, SubsOpen, TypeOK, ChannelState
  <2>3. QED
    BY <1>6, <2>1, <2>2
<1>7. ASSUME NEW ch \in Channel, Receive(ch) \/ ConsumerClose(ch) PROVE SubsOpen'
  <2>1. CASE Receive(ch)
    BY <2>1 DEF Receive, SubsOpen, TypeOK, ChannelState
  <2>2. CASE ConsumerClose(ch)
    BY <2>2 DEF ConsumerClose, SubsOpen
  <2>3. QED
    BY <1>7, <2>1, <2>2
<1>8. CASE Start \/ ReceivePublish \/ ReceiveStop \/ Exit
  BY <1>1, <1>8 DEF Start, ReceivePublish, ReceiveStop, Exit
<1>9. QED
  BY <1>1, <1>3, <1>4, <1>5, <1>6, <1>7, <1>8, QuietSteps
     DEF Next, ServerStep, ClientStep, Stopped, vars

\* Stop closes every channel that was subscribed before it was called.
THEOREM StopClosesHolds == Spec => []StopCloses
<1>1. Init => StopOrder /\ Registered
  BY DEF Init, StopOrder, Registered, Idle
<1>2. TypeOK /\ StopOrder /\ Registered /\ [Next]_vars => (StopOrder /\ Registered)'
  BY StepKeepsStopOrder, StepKeepsRegistered
<1>3. TypeOK /\ Registered => StopCloses
  BY DEF Registered, StopCloses, Made, TypeOK, ChannelState
<1>4. QED
  BY <1>1, <1>2, <1>3, BrokerTypeCorrect, PTL DEF Spec

\* If no consumer closes its channel, no channel is ever closed twice.
THEOREM NoDoubleCloseHolds ==
  ASSUME ~ConsumersClose
  PROVE  Spec => []NoDoubleClose
<1>1. Init => SubsOpen /\ NoDoubleClose
  BY DEF Init, SubsOpen, NoDoubleClose
<1>2. TypeOK /\ SubsOpen /\ [Next]_vars => SubsOpen'
  BY StepKeepsSubsOpen
<1>3. TypeOK /\ SubsOpen /\ NoDoubleClose /\ [Next]_vars => NoDoubleClose'
  <2> SUFFICES ASSUME TypeOK, SubsOpen, NoDoubleClose, [Next]_vars PROVE NoDoubleClose'
    OBVIOUS
  <2>1. CASE UNCHANGED server
    BY <2>1 DEF NoDoubleClose
  <2>2. ASSUME NEW ch, RemoveAndClose(ch, server) PROVE NoDoubleClose'
    BY <2>2 DEF RemoveAndClose, SetServer, SubsOpen, NoDoubleClose
  <2>3. CASE ReceiveUnsubscribe
    BY <2>2, <2>3 DEF ReceiveUnsubscribe
  <2>4. ASSUME NEW ch \in Channel, CloseSubscriber(ch) PROVE NoDoubleClose'
    BY <2>2, <2>4 DEF CloseSubscriber
  <2>5. ASSUME NEW ch \in Channel, SafeSend(ch) PROVE NoDoubleClose'
    BY <2>5, SendEffect DEF NoDoubleClose
  <2>6. CASE Start \/ ReceivePublish \/ ReceiveStop \/ Exit
    <3>1. CASE Start \/ Exit
      BY <3>1 DEF Start, Exit, SetServer, NoDoubleClose, TypeOK, ServerState
    <3>2. CASE ReceivePublish \/ ReceiveStop
      BY <3>2 DEF ReceivePublish, ReceiveStop, SetServer, NoDoubleClose
    <3>3. QED
      BY <2>6, <3>1, <3>2
  <2>7. ASSUME NEW c \in Client, NEW ch \in Channel, Store(c, ch) \/ Unsubscribe(c, ch)
        PROVE  UNCHANGED server
    BY <2>7 DEF Store, Unsubscribe
  <2>8. ASSUME NEW ch \in Channel, Receive(ch) \/ ConsumerClose(ch) PROVE UNCHANGED server
    BY <2>8 DEF Receive, ConsumerClose
  <2>9. QED
    BY <2>1, <2>3, <2>4, <2>5, <2>6, <2>7, <2>8, QuietSteps
       DEF Next, ServerStep, ClientStep, Stopped, vars
<1>4. QED
  BY <1>1, <1>2, <1>3, BrokerTypeCorrect, PTL DEF Spec

-----------------------------------------------------------------------------
(* The messages.                                                           *)

\* What a step may do to a channel: it is made once, what it missed is settled
\* then, and only the broadcast sends on it.
Keeps(d) ==
  /\ Made(d) => Made(d)' /\ chan'[d].missed = chan[d].missed
  /\ chan'[d].missed \in {chan[d].missed, returned}
  /\ d \in subs' => d \in subs \/ Made(d)'
  /\ chan'[d].sent = chan[d].sent \/ SafeSend(d)

\* Every step keeps every channel made, and what it missed.
LEMMA StepKeeps ==
  ASSUME TypeOK, [Next]_vars
  PROVE  \A d \in Channel : Keeps(d)
<1>1. CASE UNCHANGED <<chan, subs>>
  BY <1>1 DEF Made, Keeps
<1>2. ASSUME NEW ch \in Channel, RemoveAndClose(ch, server)
      PROVE  \A d \in Channel : Keeps(d)
  <2>1. \A d \in Channel : chan'[d].state \in {chan[d].state, "closed"}
    BY <1>2, RemoveEffect
  <2>2. QED
    BY <1>2, <2>1, RemoveEffect DEF Made, Keeps
<1>3. CASE ReceiveUnsubscribe
  BY <1>2, <1>3 DEF ReceiveUnsubscribe, TypeOK
<1>4. ASSUME NEW ch \in Channel, CloseSubscriber(ch)
      PROVE  \A d \in Channel : Keeps(d)
  BY <1>2, <1>4 DEF CloseSubscriber
<1>5. ASSUME NEW ch \in Channel, SafeSend(ch)
      PROVE  \A d \in Channel : Keeps(d)
  BY <1>5, SendEffect DEF Made, Keeps
<1>6. ASSUME NEW c \in Client, NEW ch \in Channel, Store(c, ch)
      PROVE  \A d \in Channel : Keeps(d)
  <2>1. subs' = subs \cup {ch} /\ ~Made(ch)
    BY <1>6 DEF Store, Made
  <2>2. \A d \in Channel : d # ch => chan'[d] = chan[d]
    BY <1>6 DEF Store, TypeOK
  <2>3. chan[ch] \in ChannelState
    BY DEF TypeOK
  <2>4. /\ chan'[ch].state = "open" /\ chan'[ch].missed = returned
        /\ chan'[ch].sent = chan[ch].sent
    BY <1>6, <2>3 DEF Store, TypeOK, ChannelState
  <2>5. \A d \in Channel : d # ch => Keeps(d)
    BY <2>1, <2>2 DEF Keeps, Made
  <2>6. Keeps(ch)
    BY <2>1, <2>4 DEF Keeps, Made
  <2>7. QED
    BY <2>5, <2>6
<1>7. ASSUME NEW c \in Client, NEW ch \in Channel, Unsubscribe(c, ch)
      PROVE  \A d \in Channel : Keeps(d)
  BY <1>7 DEF Unsubscribe, Made, Keeps, TypeOK, ChannelState
<1>8. ASSUME NEW ch \in Channel, Receive(ch) \/ ConsumerClose(ch)
      PROVE  \A d \in Channel : Keeps(d)
  <2>1. subs' = subs /\ \A d \in Channel : d # ch => chan'[d] = chan[d]
    BY <1>8 DEF Receive, ConsumerClose, TypeOK
  <2>2. chan[ch] \in ChannelState
    BY DEF TypeOK
  <2>3. /\ chan'[ch].missed = chan[ch].missed /\ chan'[ch].sent = chan[ch].sent
        /\ chan'[ch].state \in {chan[ch].state, "closed"}
    <3>1. CASE Receive(ch)
      BY <2>2, <3>1 DEF Receive, TypeOK, ChannelState
    <3>2. CASE ConsumerClose(ch)
      BY <2>2, <3>2 DEF ConsumerClose, TypeOK, ChannelState
    <3>3. QED
      BY <1>8, <3>1, <3>2
  <2>4. QED
    BY <2>1, <2>3 DEF Keeps, Made
<1>9. CASE Start \/ ReceivePublish \/ ReceiveStop \/ Exit
  BY <1>1, <1>9 DEF Start, ReceivePublish, ReceiveStop, Exit
<1>10. QED
  BY <1>1, <1>3, <1>4, <1>5, <1>6, <1>7, <1>8, <1>9, QuietSteps
     DEF Next, ServerStep, ClientStep, Stopped, vars

\* The messages that were published stay published.
LEMMA StepKeepsReturned ==
  ASSUME [Next]_vars
  PROVE  \/ UNCHANGED returned
         \/ \E c \in Client : /\ RangeDone(c) \/ Enqueue(c) \/ DropPublish(c)
                              /\ returned' = returned \cup {client[c].msg}
<1>1. ASSUME NEW c \in Client, RangeDone(c) \/ Enqueue(c) \/ DropPublish(c)
      PROVE  UNCHANGED returned \/ returned' = returned \cup {client[c].msg}
  BY <1>1 DEF RangeDone, Enqueue, DropPublish, PublishReturn
<1>2. CASE ServerStep
  BY <1>2 DEF ServerStep, Start, ReceiveUnsubscribe, ReceivePublish, ReceiveStop, Exit, SafeSend,
     CloseSubscriber
<1>3. ASSUME NEW c \in Client, NEW ch \in Channel,
             Store(c, ch) \/ Collect(c, ch) \/ Unsubscribe(c, ch)
      PROVE  UNCHANGED returned
  BY <1>3 DEF Store, Collect, Unsubscribe
<1>4. ASSUME NEW c \in Client,
             \/ QueueUnsubscribe(c) \/ DropUnsubscribe(c) \/ CloseStop(c) \/ StopReturn(c)
             \/ Subscribe(c) \/ Stop(c)
      PROVE  UNCHANGED returned
  BY <1>4 DEF QueueUnsubscribe, DropUnsubscribe, CloseStop, StopReturn, Subscribe, Stop
<1>5. ASSUME NEW c \in Client, NEW m \in Message, Publish(c, m) PROVE UNCHANGED returned
  BY <1>5 DEF Publish
<1>6. ASSUME NEW ch \in Channel, Receive(ch) \/ ConsumerClose(ch) PROVE UNCHANGED returned
  BY <1>6 DEF Receive, ConsumerClose
<1>7. CASE UNCHANGED vars
  BY <1>7 DEF vars
<1>8. QED
  BY <1>1, <1>2, <1>3, <1>4, <1>5, <1>6, <1>7 DEF Next, ClientStep, Stopped

\* The history of the channels is kept.
LEMMA StepKeepsHistory ==
  TypeOK /\ History /\ NotMissed /\ [Next]_vars => History'
<1> SUFFICES ASSUME TypeOK, History, NotMissed, [Next]_vars PROVE History'
  OBVIOUS
<1>1. \A d \in Channel : Keeps(d)
  BY StepKeeps
<1>2. returned \subseteq returned'
  BY StepKeepsReturned
<1>3. \A d \in Channel : SafeSend(d) => Made(d)
  BY DEF SafeSend, NotMissed
<1>4. subs' \in SUBSET Channel
  <2>1. TypeOK'
    BY StepPreservesType
  <2>2. QED
    BY <2>1 DEF TypeOK
<1>5. QED
  BY <1>1, <1>2, <1>3, <1>4 DEF History, Keeps, TypeOK

\* A call that goes on, and does not return, keeps what is known of the publishers.
LEMMA CallKeepsSenders ==
  ASSUME TypeOK, Senders, \A d \in Channel : Keeps(d), UNCHANGED returned,
         NEW c \in Client, NEW s, SetClient(c, s),
         s.pc \in {"range", "send"} => Publishing(c) /\ s.msg = client[c].msg,
         s.recipients \subseteq {ch \in Channel : Made(ch)}
  PROVE  Senders'
<1>1. \A d \in Client : client'[d] = IF d = c THEN s ELSE client[d]
  BY SetClientIs
<1>2. \A d \in Client : Publishing(d)' => Publishing(d) /\ client'[d].msg = client[d].msg
  BY <1>1 DEF Publishing
<1>3. \A d \in Client : \A ch \in client'[d].recipients : ch \in Channel /\ Made(ch)
  BY <1>1 DEF Senders, TypeOK, ClientState
<1>4. QED
  BY <1>2, <1>3 DEF Senders, Keeps

\* The same for a Publish that begins, and for one that returns.
LEMMA PublishKeepsSenders ==
  ASSUME TypeOK, Senders, \A d \in Channel : Keeps(d), NEW c \in Client,
         NEW m \in Message, Publish(c, m)
  PROVE  Senders'
<1> DEFINE s == [Idle EXCEPT !.pc = "range", !.msg = m, !.todo = subs]
<1>1. s.msg = m /\ s.recipients = {}
  BY DEF Idle
<1>2. SetClient(c, s) /\ UNCHANGED returned /\ Unpublished(m)
  BY DEF Publish
<1> HIDE DEF s
<1>3. \A d \in Client : client'[d] = IF d = c THEN s ELSE client[d]
  BY <1>2, SetClientIs
<1>4. \A d \in Client : Publishing(d)' => d = c \/ (Publishing(d) /\ client'[d].msg = client[d].msg)
  BY <1>3 DEF Publishing
<1>5. \A d \in Client : Publishing(d)' => client'[d].msg \notin returned'
  BY <1>1, <1>2, <1>3, <1>4 DEF Senders, Unpublished
<1>6. \A d, e \in Client : Publishing(d)' /\ Publishing(e)' /\ client'[d].msg = client'[e].msg
                             => d = e
  BY <1>1, <1>2, <1>3, <1>4 DEF Senders, Unpublished
<1>7. \A d \in Client : \A ch \in client'[d].recipients : Made(ch)'
  BY <1>1, <1>3 DEF Senders, Keeps, TypeOK, ClientState
<1>8. QED
  BY <1>5, <1>6, <1>7 DEF Senders

\* When a Publish returns its message leaves the calls and is known to have returned.
LEMMA ReturnKeepsSenders ==
  ASSUME TypeOK, Senders, \A d \in Channel : Keeps(d), NEW c \in Client,
         Publishing(c), PublishReturn(c)
  PROVE  Senders'
<1>1. SetClient(c, Idle) /\ returned' = returned \cup {client[c].msg}
  BY DEF PublishReturn
<1>2. \A d \in Client : client'[d] = IF d = c THEN Idle ELSE client[d]
  BY <1>1, SetClientIs
<1>3. \A d \in Client : Publishing(d)' => d # c /\ Publishing(d) /\ client'[d] = client[d]
  BY <1>2 DEF Publishing, Idle
<1>4. \A d \in Client : \A ch \in client'[d].recipients : Made(ch)'
  BY <1>2 DEF Idle, Senders, Keeps, TypeOK, ClientState
<1>5. QED
  BY <1>1, <1>3, <1>4 DEF Senders

\* What is known of the publishers is kept.
LEMMA StepKeepsSenders ==
  TypeOK /\ History /\ Senders /\ [Next]_vars => Senders'
<1> SUFFICES ASSUME TypeOK, History, Senders, [Next]_vars PROVE Senders'
  OBVIOUS
<1>1. \A d \in Channel : Keeps(d)
  BY StepKeeps
<1>2. CASE UNCHANGED <<client, returned>>
  BY <1>1, <1>2 DEF Senders, Publishing, Keeps, TypeOK, ClientState
<1>3. CASE ServerStep
  BY <1>2, <1>3 DEF ServerStep, Start, ReceiveUnsubscribe, ReceivePublish, ReceiveStop, Exit,
     SafeSend, CloseSubscriber
<1>4. ASSUME NEW ch \in Channel, Receive(ch) \/ ConsumerClose(ch) PROVE Senders'
  BY <1>2, <1>4 DEF Receive, ConsumerClose
<1>5. ASSUME NEW c \in Client, NEW m \in Message, Publish(c, m) PROVE Senders'
  BY <1>1, <1>5, PublishKeepsSenders
<1>6. ASSUME NEW c \in Client, PublishReturn(c), Publishing(c) PROVE Senders'
  BY <1>1, <1>6, ReturnKeepsSenders
<1>7. ASSUME NEW c \in Client, Enqueue(c) \/ DropPublish(c) PROVE Senders'
  BY <1>6, <1>7 DEF Enqueue, DropPublish, Publishing
<1>8. ASSUME NEW c \in Client, RangeDone(c) PROVE Senders'
  <2>1. CASE PublishReturn(c)
    BY <1>6, <1>8, <2>1 DEF RangeDone, Publishing
  <2> DEFINE s == [client[c] EXCEPT !.pc = "send", !.todo = {}]
  <2>2. CASE SetClient(c, s) /\ UNCHANGED returned
    <3>1. s.msg = client[c].msg /\ s.recipients = client[c].recipients /\ client[c] \in ClientState
      BY DEF TypeOK, ClientState
    <3> HIDE DEF s
    <3>2. s.recipients \subseteq {ch \in Channel : Made(ch)}
      BY <3>1 DEF Senders, ClientState
    <3>3. Publishing(c)
      BY <1>8 DEF RangeDone, Publishing
    <3>4. QED
      BY <1>1, <2>2, <3>1, <3>2, <3>3, CallKeepsSenders
  <2>3. QED
    BY <1>8, <2>1, <2>2 DEF RangeDone
<1>9. ASSUME NEW c \in Client, NEW ch \in Channel, Collect(c, ch) PROVE Senders'
  <2> DEFINE s == [client[c] EXCEPT !.recipients = @ \cup {ch}]
  <2>1. /\ s.msg = client[c].msg /\ s.recipients = client[c].recipients \cup {ch}
        /\ client[c] \in ClientState
    BY DEF TypeOK, ClientState
  <2>2. SetClient(c, s) /\ UNCHANGED returned /\ ch \in subs /\ client[c].pc = "range"
    BY <1>9 DEF Collect
  <2> HIDE DEF s
  <2>3. s.recipients \subseteq {d \in Channel : Made(d)}
    BY <2>1, <2>2 DEF Senders, History, ClientState
  <2>4. QED
    BY <1>1, <2>1, <2>2, <2>3, CallKeepsSenders DEF Publishing
<1>10. ASSUME NEW c \in Client, NEW s, SetClient(c, s), UNCHANGED returned,
              s.pc \notin {"range", "send"}, s.recipients = {}
       PROVE  Senders'
  BY <1>1, <1>10, CallKeepsSenders
<1>11. ASSUME NEW c \in Client,
              \/ QueueUnsubscribe(c) \/ DropUnsubscribe(c) \/ StopReturn(c)
              \/ \E ch \in Channel : Store(c, ch)
       PROVE  Senders'
  <2>1. SetClient(c, Idle) /\ UNCHANGED returned
    BY <1>11 DEF QueueUnsubscribe, DropUnsubscribe, StopReturn, Store
  <2>2. Idle.pc \notin {"range", "send"} /\ Idle.recipients = {}
    BY DEF Idle
  <2>3. QED
    BY <1>10, <2>1, <2>2
<1>12. ASSUME NEW c \in Client, NEW l \in {"store", "close", "wait"},
              SetClient(c, [Idle EXCEPT !.pc = l]), UNCHANGED returned
       PROVE  Senders'
  <2>1. [Idle EXCEPT !.pc = l].pc = l /\ [Idle EXCEPT !.pc = l].recipients = {}
    BY DEF Idle
  <2>2. QED
    BY <1>10, <1>12, <2>1
<1>13. ASSUME NEW c \in Client, Subscribe(c) \/ Stop(c) \/ CloseStop(c) PROVE Senders'
  BY <1>12, <1>13 DEF Subscribe, Stop, CloseStop
<1>14. ASSUME NEW c \in Client, NEW ch \in Channel, Unsubscribe(c, ch) PROVE Senders'
  <2> DEFINE s == [Idle EXCEPT !.pc = "unsubscribe", !.ch = ch]
  <2>1. s.pc = "unsubscribe" /\ s.recipients = {}
    BY DEF Idle
  <2>2. SetClient(c, s) /\ UNCHANGED returned
    BY <1>14 DEF Unsubscribe
  <2> HIDE DEF s
  <2>3. QED
    BY <1>10, <2>1, <2>2
<1>15. QED
  BY <1>2, <1>3, <1>4, <1>5, <1>7, <1>8, <1>9, <1>11, <1>13, <1>14
     DEF Next, ClientStep, Stopped, vars

\* What a step does to the queue: the server takes the first envelope, a client adds
\* one, or the queue stays as it is.
LEMMA QueueSteps ==
  ASSUME TypeOK, [Next]_vars
  PROVE  \/ ReceivePublish
         \/ \E c \in Client : Enqueue(c)
         \/ /\ UNCHANGED <<publishCh, log>>
            /\ \/ server' = server
               \/ server'.pc # "broadcast"
               \/ \E ch \in Channel : SafeSend(ch)
<1> DEFINE Quiet == UNCHANGED <<publishCh, log>> /\ (server' = server \/ server'.pc # "broadcast")
<1>1. CASE UNCHANGED vars
  BY <1>1 DEF vars
<1>2. CASE Start \/ ReceiveStop \/ Exit
  <2>1. server'.pc # "broadcast"
    <3>1. CASE Start
      BY <3>1 DEF Start, SetServer, TypeOK, ServerState
    <3>2. CASE ReceiveStop
      BY <3>2 DEF ReceiveStop, SetServer
    <3>3. CASE Exit
      BY <3>3 DEF Exit, SetServer, TypeOK, ServerState
    <3>4. QED
      BY <1>2, <3>1, <3>2, <3>3
  <2>2. QED
    BY <1>2, <2>1 DEF Start, ReceiveStop, Exit
<1>3. CASE ReceiveUnsubscribe
  <2>1. Head(unsubCh) \in Channel
    BY <1>3 DEF ReceiveUnsubscribe, TypeOK
  <2>2. QED
    BY <1>3, <2>1, RemoveEffect DEF ReceiveUnsubscribe
<1>4. ASSUME NEW ch \in Channel, CloseSubscriber(ch) PROVE Quiet
  BY <1>4, RemoveEffect DEF CloseSubscriber
<1>5. ASSUME NEW ch \in Channel, SafeSend(ch) PROVE UNCHANGED <<publishCh, log>>
  BY <1>5 DEF SafeSend
<1>6. ASSUME NEW c \in Client, NEW ch \in Channel,
             Store(c, ch) \/ Collect(c, ch) \/ Unsubscribe(c, ch)
      PROVE  Quiet
  BY <1>6 DEF Store, Collect, Unsubscribe
<1>7. ASSUME NEW c \in Client, NEW m \in Message, Publish(c, m) PROVE Quiet
  BY <1>7 DEF Publish
<1>8. ASSUME NEW c \in Client,
             \/ RangeDone(c) \/ DropPublish(c) \/ QueueUnsubscribe(c) \/ DropUnsubscribe(c)
             \/ CloseStop(c) \/ StopReturn(c) \/ Subscribe(c) \/ Stop(c)
      PROVE  Quiet
  BY <1>8 DEF RangeDone, DropPublish, QueueUnsubscribe, DropUnsubscribe, CloseStop, StopReturn,
     Subscribe, Stop
<1>9. ASSUME NEW ch \in Channel, Receive(ch) \/ ConsumerClose(ch) PROVE Quiet
  BY <1>9 DEF Receive, ConsumerClose
<1>10. QED
  BY <1>1, <1>2, <1>3, <1>4, <1>5, <1>6, <1>7, <1>8, <1>9
     DEF Next, ServerStep, ClientStep, Stopped

\* What is on its way was published after the channel subscribed.
LEMMA StepKeepsNotMissed ==
  TypeOK /\ History /\ Senders /\ NotMissed /\ [Next]_vars => NotMissed'
<1> SUFFICES ASSUME TypeOK, History, Senders, NotMissed, [Next]_vars PROVE NotMissed'
  OBVIOUS
<1>1. \A d \in Channel : Keeps(d)
  BY StepKeeps
<1>2. /\ publishCh \in Seq(Envelope)
      /\ \A i \in DOMAIN publishCh : publishCh[i].recipients \subseteq Channel
      /\ server.todo \subseteq Channel
  <2>1. publishCh \in Seq(Envelope) /\ server \in ServerState
    BY DEF TypeOK
  <2>2. \A i \in DOMAIN publishCh : publishCh[i] \in Envelope
    BY <2>1
  <2>3. QED
    BY <2>1, <2>2 DEF Envelope, ServerState
<1>3. \A i \in DOMAIN publishCh : \A ch \in publishCh[i].recipients :
        Made(ch)' /\ publishCh[i].msg \notin chan'[ch].missed
  BY <1>1, <1>2 DEF NotMissed, Keeps
<1>4. server.pc = "broadcast" => \A ch \in server.todo :
        Made(ch)' /\ server.msg \notin chan'[ch].missed
  BY <1>1, <1>2 DEF NotMissed, Keeps
<1>5. CASE ReceivePublish
  <2>1. publishCh # <<>> /\ publishCh' = Tail(publishCh)
    BY <1>5 DEF ReceivePublish
  <2>2. \A i \in DOMAIN publishCh' : i + 1 \in DOMAIN publishCh /\ publishCh'[i] = publishCh[i + 1]
    <3>1. Len(publishCh) > 0 /\ Len(publishCh') = Len(publishCh) - 1
      BY <1>2, <2>1
    <3>2. \A i \in 1..(Len(publishCh) - 1) : publishCh'[i] = publishCh[i + 1]
      BY <1>2, <2>1
    <3>3. DOMAIN publishCh' = 1..(Len(publishCh) - 1)
      BY <1>2, <2>1, <3>1
    <3>4. QED
      BY <1>2, <3>1, <3>2, <3>3
  <2>3. 1 \in DOMAIN publishCh /\ Head(publishCh) = publishCh[1]
    BY <1>2, <2>1
  <2>4. server'.msg = publishCh[1].msg /\ server'.todo = publishCh[1].recipients
    BY <1>5, <2>3 DEF ReceivePublish, SetServer
  <2>5. QED
    BY <1>3, <2>2, <2>3, <2>4 DEF NotMissed
<1>6. ASSUME NEW c \in Client, Enqueue(c) PROVE NotMissed'
  <2> DEFINE env == [msg |-> client[c].msg, recipients |-> client[c].recipients]
  <2>1. publishCh' = Append(publishCh, env) /\ UNCHANGED server /\ client[c].pc = "send"
    BY <1>6 DEF Enqueue
  <2>2. \A ch \in env.recipients : Made(ch)' /\ env.msg \notin chan'[ch].missed
    <3>1. \A ch \in client[c].recipients : ch \in Channel /\ Made(ch)
      BY DEF Senders, TypeOK, ClientState
    <3>2. client[c].msg \notin returned
      BY <2>1 DEF Senders, Publishing
    <3>3. QED
      BY <1>1, <3>1, <3>2 DEF History, Keeps
  <2> HIDE DEF env
  <2>3. \A i \in DOMAIN publishCh' : \/ i \in DOMAIN publishCh /\ publishCh'[i] = publishCh[i]
                                     \/ publishCh'[i] = env
    BY <1>2, <2>1
  <2>4. QED
    BY <1>3, <1>4, <2>1, <2>2, <2>3 DEF NotMissed
<1>7. ASSUME UNCHANGED publishCh, server' = server \/ server'.pc # "broadcast" PROVE NotMissed'
  BY <1>3, <1>4, <1>7 DEF NotMissed
<1>8. ASSUME UNCHANGED publishCh, NEW ch \in Channel, SafeSend(ch) PROVE NotMissed'
  <2>1. server.pc = "broadcast"
    BY <1>8 DEF SafeSend
  <2>2. server'.pc = "broadcast" => server'.msg = server.msg /\ server'.todo \subseteq server.todo
    BY <1>8, SendEffect
  <2>3. QED
    BY <1>3, <1>4, <1>8, <2>1, <2>2 DEF NotMissed
<1>9. QED
  BY <1>5, <1>6, <1>7, <1>8, QueueSteps

\* A subscriber never receives a message whose Publish returned before it subscribed.
THEOREM NoLateDeliveryHolds == Spec => []NoLateDelivery
<1>1. Init => History /\ Senders /\ NotMissed /\ NoLateDelivery
  <2> SUFFICES ASSUME Init PROVE History /\ Senders /\ NotMissed /\ NoLateDelivery
    OBVIOUS
  <2>1. \A ch \in Channel : chan[ch].missed = {} /\ chan[ch].sent = <<>>
    BY DEF Init
  <2>2. \A c \in Client : client[c] = Idle
    BY DEF Init
  <2>3. subs = {} /\ publishCh = <<>> /\ server.pc = "new"
    BY DEF Init
  <2>4. QED
    BY <2>1, <2>2, <2>3 DEF History, Senders, Publishing, NotMissed, NoLateDelivery, Idle, Range
<1>2. TypeOK /\ History /\ Senders /\ NotMissed /\ [Next]_vars
        => History' /\ Senders' /\ NotMissed'
  BY StepKeepsHistory, StepKeepsSenders, StepKeepsNotMissed
<1>3. TypeOK /\ History /\ NotMissed /\ NoLateDelivery /\ [Next]_vars => NoLateDelivery'
  <2> SUFFICES ASSUME TypeOK, History, NotMissed, NoLateDelivery, [Next]_vars,
                      NEW ch \in Channel
               PROVE  Range(chan'[ch].sent) \cap chan'[ch].missed = {}
    BY DEF NoLateDelivery
  <2>1. Keeps(ch)
    BY StepKeeps
  <2>2. chan[ch].sent \in Seq(Message)
    BY DEF TypeOK, ChannelState
  <2>3. CASE SafeSend(ch)
    <3>1. /\ chan'[ch].sent \in {chan[ch].sent, Append(chan[ch].sent, server.msg)}
          /\ chan'[ch].missed = chan[ch].missed /\ server.msg \notin chan[ch].missed
      BY <2>3, SendEffect DEF SafeSend, NotMissed
    <3>2. Range(Append(chan[ch].sent, server.msg)) \subseteq Range(chan[ch].sent) \cup {server.msg}
      BY <2>2 DEF Range
    <3>3. QED
      BY <3>1, <3>2 DEF NoLateDelivery
  <2>4. CASE chan'[ch].sent = chan[ch].sent /\ Made(ch)
    BY <2>1, <2>4 DEF NoLateDelivery, Keeps
  <2>5. CASE chan'[ch].sent = chan[ch].sent /\ ~Made(ch)
    BY <2>5 DEF History, Range
  <2>6. QED
    BY <2>1, <2>3, <2>4, <2>5 DEF Keeps
<1>4. QED
  BY <1>1, <1>2, <1>3, BrokerTypeCorrect, PTL DEF Spec

\* The log is only appended to.
LEMMA LogGrows ==
  ASSUME TypeOK, [Next]_vars
  PROVE  \A k \in DOMAIN log : k \in DOMAIN log' /\ log'[k] = log[k]
<1>1. log' = log \/ \E c \in Client : Enqueue(c)
  BY QueueSteps DEF ReceivePublish
<1>2. ASSUME NEW env, log' = Append(log, env)
      PROVE  \A k \in DOMAIN log : k \in DOMAIN log' /\ log'[k] = log[k]
  BY <1>2 DEF TypeOK
<1>3. QED
  BY <1>1, <1>2 DEF Enqueue

\* The queue is the end of the log, and the channels were sent what came before.
LEMMA StepKeepsQueued ==
  TypeOK /\ Queued /\ [Next]_vars => Queued'
<1> SUFFICES ASSUME TypeOK, Queued, [Next]_vars PROVE Queued'
  OBVIOUS
<1> DEFINE n == Len(log) - Len(publishCh)
           taken(ch) == IF server.pc = "broadcast" /\ ch \in server.todo THEN n - 1 ELSE n
<1>1. /\ n \in Nat
      /\ \A i \in DOMAIN publishCh : publishCh[i] = log[n + i]
      /\ server.pc = "broadcast" => n \in DOMAIN log /\ server.msg = log[n].msg
      /\ \A ch \in Channel : \A i \in DOMAIN chan[ch].sent :
           \E k \in 1..taken(ch) : log[k].msg = chan[ch].sent[i]
  BY DEF Queued
<1>2. /\ publishCh \in Seq(Envelope) /\ log \in Seq(Envelope)
      /\ \A ch \in Channel : chan[ch].sent \in Seq(Message)
  BY DEF TypeOK, ChannelState
<1>3. \A ch \in Channel : taken(ch) \in Int /\ taken(ch) <= n
  BY <1>1
<1>4. \A ch \in Channel : chan'[ch].sent = chan[ch].sent \/ SafeSend(ch)
  BY StepKeeps DEF Keeps
<1> HIDE DEF n, taken
<1>5. ASSUME UNCHANGED <<publishCh, log>>, server' = server \/ server'.pc # "broadcast",
             \A ch \in Channel : ~SafeSend(ch)
      PROVE  Queued'
  <2>1. n' = n /\ \A ch \in Channel : taken(ch)' \in {taken(ch), n}
    BY <1>5 DEF n, taken
  <2>2. \A ch \in Channel : \A i \in DOMAIN chan'[ch].sent :
          \E k \in 1..(taken(ch)') : log'[k].msg = chan'[ch].sent[i]
    BY <1>1, <1>3, <1>4, <1>5, <2>1
  <2>3. QED
    BY <1>1, <1>5, <2>1, <2>2 DEF Queued, n, taken
<1>6. CASE ReceivePublish
  <2>1. /\ publishCh # <<>> /\ publishCh' = Tail(publishCh) /\ UNCHANGED <<log, chan>>
        /\ server.pc = "select" /\ server'.msg = Head(publishCh).msg
    BY <1>6 DEF ReceivePublish, SetServer
  <2>2. n' = n + 1 /\ 1 \in DOMAIN publishCh /\ n + 1 \in DOMAIN log
    BY <1>1, <1>2, <2>1 DEF n
  <2>3. server'.msg = log[n + 1].msg
    BY <1>1, <1>2, <2>1, <2>2
  <2>4. \A i \in DOMAIN publishCh' : publishCh'[i] = log[n' + i]
    BY <1>1, <1>2, <2>1, <2>2
  <2>5. \A ch \in Channel : taken(ch) = n /\ taken(ch)' \in {n, n + 1}
    BY <1>1, <2>1, <2>2 DEF taken
  <2>6. \A ch \in Channel : \A i \in DOMAIN chan'[ch].sent :
          \E k \in 1..(taken(ch)') : log'[k].msg = chan'[ch].sent[i]
    BY <1>1, <2>1, <2>5
  <2>7. QED
    BY <1>1, <2>1, <2>2, <2>3, <2>4, <2>6 DEF Queued, n, taken
<1>7. ASSUME NEW c \in Client, Enqueue(c) PROVE Queued'
  <2> DEFINE env == [msg |-> client[c].msg, recipients |-> client[c].recipients]
  <2>1. /\ publishCh' = Append(publishCh, env) /\ log' = Append(log, env)
        /\ UNCHANGED <<chan, server>>
    BY <1>7 DEF Enqueue
  <2> HIDE DEF env
  <2>2. n' = n /\ \A ch \in Channel : taken(ch)' = taken(ch)
    <3>1. Len(publishCh') = Len(publishCh) + 1 /\ Len(log') = Len(log) + 1
      BY <1>2, <2>1
    <3>2. n' = n
      BY <1>2, <3>1 DEF n
    <3>3. QED
      BY <2>1, <3>2 DEF taken
  <2>3. \A k \in 1..n : k \in DOMAIN log /\ log'[k] = log[k]
    BY <1>1, <1>2, <2>1 DEF n
  <2>4. \A i \in DOMAIN publishCh' : publishCh'[i] = log'[n + i]
    <3>1. \A i \in DOMAIN publishCh : n + i \in DOMAIN log /\ publishCh'[i] = publishCh[i]
      BY <1>1, <1>2, <2>1 DEF n
    <3>2. \A i \in DOMAIN publishCh : publishCh'[i] = log'[n + i]
      BY <1>1, <1>2, <2>1, <3>1
    <3>3. n + Len(publishCh) + 1 = Len(log) + 1
      BY <1>1, <1>2 DEF n
    <3>4. publishCh'[Len(publishCh) + 1] = env /\ log'[Len(log) + 1] = env
      BY <1>2, <2>1
    <3>5. DOMAIN publishCh' = DOMAIN publishCh \cup {Len(publishCh) + 1}
      BY <1>2, <2>1
    <3>6. QED
      BY <1>1, <1>2, <3>2, <3>3, <3>4, <3>5
  <2>5. server'.pc = "broadcast" => n \in DOMAIN log' /\ server'.msg = log'[n].msg
    BY <1>1, <1>2, <2>1
  <2>6. \A ch \in Channel : \A i \in DOMAIN chan'[ch].sent :
          \E k \in 1..(taken(ch)') : log'[k].msg = chan'[ch].sent[i]
    BY <1>1, <1>3, <2>1, <2>2, <2>3
  <2>7. QED
    BY <1>1, <2>2, <2>4, <2>5, <2>6 DEF Queued, n, taken
<1>8. ASSUME UNCHANGED <<publishCh, log>>, NEW ch \in Channel, SafeSend(ch) PROVE Queued'
  <2>1. server.pc = "broadcast" /\ ch \in server.todo
    BY <1>8 DEF SafeSend
  <2>2. n' = n /\ n \in DOMAIN log /\ n >= 1 /\ server.msg = log[n].msg
    BY <1>1, <1>2, <1>8, <2>1 DEF n
  <2>3. /\ taken(ch) = n - 1 /\ taken(ch)' = n
        /\ \A d \in Channel : taken(d)' \in {taken(d), n}
    BY <1>8, <2>1, <2>2, SendEffect DEF taken
  <2>4. \A d \in Channel : d # ch => chan'[d] = chan[d]
    BY <1>8, SendEffect
  <2>5. chan'[ch].sent \in {chan[ch].sent, Append(chan[ch].sent, server.msg)}
    BY <1>8, SendEffect
  <2>6. ASSUME NEW d \in Channel, NEW i \in DOMAIN chan'[d].sent
        PROVE  \E k \in 1..(taken(d)') : log'[k].msg = chan'[d].sent[i]
    <3>1. CASE d # ch \/ chan'[d].sent = chan[d].sent
      BY <1>1, <1>3, <1>8, <2>2, <2>3, <2>4, <3>1
    <3>2. CASE d = ch /\ chan'[ch].sent = Append(chan[ch].sent, server.msg)
      <4>1. CASE i \in DOMAIN chan[ch].sent
        <5>1. chan'[ch].sent[i] = chan[ch].sent[i]
          BY <1>2, <3>2, <4>1
        <5>2. QED
          BY <1>1, <1>8, <2>2, <2>3, <3>2, <4>1, <5>1
      <4>2. CASE i \notin DOMAIN chan[ch].sent
        <5>1. chan'[ch].sent[i] = server.msg
          BY <1>2, <3>2, <4>2
        <5>2. n \in 1..(taken(d)') /\ log'[n].msg = server.msg
          <6>1. taken(d)' = n
            BY <2>3, <3>2
          <6>2. n \in 1..n
            BY <1>1, <2>2
          <6>3. QED
            BY <1>8, <2>2, <6>1, <6>2
        <5>3. QED
          BY <3>2, <5>1, <5>2
      <4>3. QED
        BY <4>1, <4>2
    <3>3. QED
      BY <2>5, <3>1, <3>2
  <2>7. server'.pc = "broadcast" => server'.msg = server.msg
    BY <1>8, SendEffect
  <2>8. QED
    BY <1>1, <1>8, <2>2, <2>6, <2>7 DEF Queued, n, taken
<1>9. QED
  BY <1>5, <1>6, <1>7, <1>8, QueueSteps DEF ReceivePublish, Enqueue, SafeSend

\* Every subscriber sees the messages in the order in which the queue took them.
THEOREM DeliveredInOrderHolds == Spec => []DeliveredInOrder
<1>1. Init => Queued /\ DeliveredInOrder
  BY DEF Init, Queued, DeliveredInOrder
<1>2. TypeOK /\ Queued /\ [Next]_vars => Queued'
  BY StepKeepsQueued
<1>3. TypeOK /\ Queued /\ DeliveredInOrder /\ [Next]_vars => DeliveredInOrder'
  <2> SUFFICES ASSUME TypeOK, Queued, DeliveredInOrder, [Next]_vars, NEW ch \in Channel,
                      NEW i \in DOMAIN chan'[ch].sent, NEW j \in DOMAIN chan'[ch].sent, i < j
               PROVE  \E k, l \in DOMAIN log' :
                        k < l /\ log'[k].msg = chan'[ch].sent[i] /\ log'[l].msg = chan'[ch].sent[j]
    BY DEF DeliveredInOrder
  <2>1. \A k \in DOMAIN log : k \in DOMAIN log' /\ log'[k] = log[k]
    BY LogGrows
  <2>2. chan[ch].sent \in Seq(Message) /\ log \in Seq(Envelope) /\ publishCh \in Seq(Envelope)
    BY DEF TypeOK, ChannelState
  <2>3. CASE i \in DOMAIN chan[ch].sent /\ j \in DOMAIN chan[ch].sent
              /\ chan'[ch].sent[i] = chan[ch].sent[i] /\ chan'[ch].sent[j] = chan[ch].sent[j]
    BY <2>1, <2>3 DEF DeliveredInOrder
  <2>4. CASE chan'[ch].sent = chan[ch].sent
    BY <2>3, <2>4
  <2>5. CASE SafeSend(ch) /\ chan'[ch].sent = Append(chan[ch].sent, server.msg)
    <3>1. i \in DOMAIN chan[ch].sent /\ chan'[ch].sent[i] = chan[ch].sent[i]
      BY <2>2, <2>5
    <3>2. CASE j \in DOMAIN chan[ch].sent
      BY <2>2, <2>3, <2>5, <3>1, <3>2
    <3>3. CASE j \notin DOMAIN chan[ch].sent
      <4> DEFINE n == Len(log) - Len(publishCh)
      <4>1. server.pc = "broadcast" /\ ch \in server.todo /\ chan'[ch].sent[j] = server.msg
        BY <2>2, <2>5, <3>3 DEF SafeSend
      <4>2. n \in DOMAIN log /\ server.msg = log[n].msg
        BY <4>1 DEF Queued
      <4>3. \E k \in 1..(n - 1) : log[k].msg = chan[ch].sent[i]
        BY <3>1, <4>1 DEF Queued
      <4>4. QED
        BY <2>1, <2>2, <3>1, <4>1, <4>2, <4>3
    <3>4. QED
      BY <3>2, <3>3
  <2>6. QED
    BY <2>4, <2>5, StepKeeps, SendEffect DEF Keeps
<1>4. QED
  BY <1>1, <1>2, <1>3, BrokerTypeCorrect, PTL DEF Spec

-----------------------------------------------------------------------------
(* No message is lost.                                                     *)

\* A channel that is open and has never been full, and was made before the step, was
\* so before it.
LEMMA StepKeepsClear ==
  ASSUME TypeOK, [Next]_vars, NEW d \in Channel, Made(d),
         chan'[d].state = "open", ~chan'[d].overflow
  PROVE  chan[d].state = "open" /\ ~chan[d].overflow
<1>0. \A ch \in Channel : chan[ch] \in ChannelState
  BY DEF TypeOK
<1>1. ASSUME NEW ch \in Channel, RemoveAndClose(ch, server)
      PROVE  chan[d].state = "open" /\ ~chan[d].overflow
  BY <1>0, <1>1 DEF RemoveAndClose, TypeOK, ChannelState
<1>2. CASE ReceiveUnsubscribe
  BY <1>1, <1>2 DEF ReceiveUnsubscribe, TypeOK
<1>3. ASSUME NEW ch \in Channel, CloseSubscriber(ch)
      PROVE  chan[d].state = "open" /\ ~chan[d].overflow
  BY <1>1, <1>3 DEF CloseSubscriber
<1>4. ASSUME NEW ch \in Channel, SafeSend(ch)
      PROVE  chan[d].state = "open" /\ ~chan[d].overflow
  BY <1>0, <1>4 DEF SafeSend, TypeOK, ChannelState
<1>5. ASSUME NEW c \in Client, NEW ch \in Channel, Store(c, ch)
      PROVE  chan[d].state = "open" /\ ~chan[d].overflow
  BY <1>0, <1>5 DEF Store, Made, TypeOK, ChannelState
<1>6. ASSUME NEW c \in Client, NEW ch \in Channel, Unsubscribe(c, ch)
      PROVE  chan[d].state = "open" /\ ~chan[d].overflow
  BY <1>0, <1>6 DEF Unsubscribe, TypeOK, ChannelState
<1>7. ASSUME NEW ch \in Channel, Receive(ch) \/ ConsumerClose(ch)
      PROVE  chan[d].state = "open" /\ ~chan[d].overflow
  <2>1. CASE Receive(ch)
    BY <1>0, <2>1 DEF Receive, TypeOK, ChannelState
  <2>2. CASE ConsumerClose(ch)
    BY <1>0, <2>2 DEF ConsumerClose, TypeOK, ChannelState
  <2>3. QED
    BY <1>7, <2>1, <2>2
<1>8. CASE UNCHANGED chan
  BY <1>8
<1>9. CASE Start \/ ReceivePublish \/ ReceiveStop \/ Exit
  BY <1>8, <1>9 DEF Start, ReceivePublish, ReceiveStop, Exit
<1>10. QED
  BY <1>2, <1>3, <1>4, <1>5, <1>6, <1>7, <1>8, <1>9, QuietSteps
     DEF Next, ServerStep, ClientStep, Stopped, vars

\* A broadcast is left only by its own turns.
LEMMA BroadcastGoesOn ==
  ASSUME TypeOK, [Next]_vars, server.pc = "broadcast", \A ch \in Channel : ~SafeSend(ch)
  PROVE  server' = server
<1>1. ~ServerStep
  BY DEF ServerStep, Start, ReceiveUnsubscribe, ReceivePublish, ReceiveStop, Exit, CloseSubscriber
<1>2. ASSUME NEW ch \in Channel, Receive(ch) \/ ConsumerClose(ch) PROVE server' = server
  BY <1>2 DEF Receive, ConsumerClose
<1>3. ASSUME NEW c \in Client, NEW ch \in Channel, Store(c, ch) \/ Unsubscribe(c, ch)
      PROVE  server' = server
  BY <1>3 DEF Store, Unsubscribe
<1>4. QED
  BY <1>1, <1>2, <1>3, QuietSteps DEF Next, ClientStep, Stopped, vars

\* The recipients of the queued messages exist.
LEMMA StepKeepsAddressed ==
  TypeOK /\ Senders /\ Addressed /\ [Next]_vars => Addressed'
<1> SUFFICES ASSUME TypeOK, Senders, Addressed, [Next]_vars PROVE Addressed'
  OBVIOUS
<1>1. \A d \in Channel : Made(d) => Made(d)'
  BY StepKeeps DEF Keeps
<1>2. log \in Seq(Envelope) /\ \A k \in DOMAIN log : log[k].recipients \subseteq Channel
  <2>1. log \in Seq(Envelope) /\ \A k \in DOMAIN log : log[k] \in Envelope
    BY DEF TypeOK
  <2>2. QED
    BY <2>1 DEF Envelope
<1>3. \A k \in DOMAIN log : \A ch \in log[k].recipients : Made(ch)'
  BY <1>1, <1>2 DEF Addressed
<1>4. CASE UNCHANGED log
  BY <1>3, <1>4 DEF Addressed
<1>5. ASSUME NEW c \in Client, Enqueue(c) PROVE Addressed'
  <2> DEFINE env == [msg |-> client[c].msg, recipients |-> client[c].recipients]
  <2>1. log' = Append(log, env)
    BY <1>5 DEF Enqueue
  <2>2. \A ch \in env.recipients : Made(ch)'
    BY <1>1 DEF Senders, TypeOK, ClientState
  <2> HIDE DEF env
  <2>3. \A k \in DOMAIN log' : (k \in DOMAIN log /\ log'[k] = log[k]) \/ log'[k] = env
    BY <1>2, <2>1
  <2>4. QED
    BY <1>3, <2>2, <2>3 DEF Addressed
<1>6. QED
  BY <1>4, <1>5, QueueSteps DEF ReceivePublish

\* A message that has still to be sent on a channel is sent, or still has to be, unless
\* the channel is closed or found full.
LEMMA UnderwayGoesOn ==
  ASSUME TypeOK, Queued, [Next]_vars, NEW ch \in Channel, NEW k \in DOMAIN log,
         ch \in log[k].recipients, Underway(log[k], ch),
         chan'[ch].state = "open", ~chan'[ch].overflow
  PROVE  log[k].msg \in Range(chan'[ch].sent) \/ Underway(log[k], ch)'
<1> DEFINE env == log[k]
<1>1. publishCh \in Seq(Envelope) /\ log' \in Seq(Envelope) /\ server \in ServerState
  BY StepPreservesType DEF TypeOK
<1>2. k \in DOMAIN log' /\ log'[k] = log[k]
  BY LogGrows
<1> SUFFICES env.msg \in Range(chan'[ch].sent)
              \/ env \in Range(publishCh')
              \/ (server'.pc = "broadcast" /\ server'.msg = env.msg /\ ch \in server'.todo)
  BY <1>2 DEF Underway
<1>3. \/ env \in Range(publishCh)
      \/ (server.pc = "broadcast" /\ server.msg = env.msg /\ ch \in server.todo)
  BY DEF Underway
<1>4. ch \in env.recipients
  OBVIOUS
<1> HIDE DEF env
<1>5. CASE ReceivePublish
  <2>1. /\ publishCh # <<>> /\ publishCh' = Tail(publishCh) /\ server.pc = "select"
        /\ server'.pc = "broadcast"
        /\ server'.msg = Head(publishCh).msg /\ server'.todo = Head(publishCh).recipients
    BY <1>5 DEF ReceivePublish, SetServer
  <2>2. PICK i \in DOMAIN publishCh : publishCh[i] = env
    BY <1>3, <2>1 DEF Range
  <2>3. CASE i = 1
    BY <1>1, <1>4, <2>1, <2>2, <2>3
  <2>4. CASE i # 1
    <3>1. i - 1 \in DOMAIN publishCh' /\ publishCh'[i - 1] = env
      BY <1>1, <2>1, <2>2, <2>4
    <3>2. QED
      BY <3>1 DEF Range
  <2>5. QED
    BY <2>3, <2>4
<1>6. CASE ~ReceivePublish
  <2>1. env \in Range(publishCh) => env \in Range(publishCh')
    <3>1. CASE UNCHANGED publishCh
      BY <3>1
    <3>2. ASSUME NEW c \in Client, Enqueue(c)
          PROVE  \A i \in DOMAIN publishCh : i \in DOMAIN publishCh' /\ publishCh'[i] = publishCh[i]
      BY <1>1, <3>2 DEF Enqueue
    <3>3. QED
      BY <1>6, <3>1, <3>2, QueueSteps DEF Range
  <2>2. CASE server.pc = "broadcast" /\ server.msg = env.msg /\ ch \in server.todo
    <3>1. CASE SafeSend(ch)
      <4>1. chan[ch] \in ChannelState /\ chan \in [Channel -> ChannelState]
        BY DEF TypeOK
      <4>2. chan'[ch].sent = Append(chan[ch].sent, server.msg)
        BY <3>1, <4>1 DEF SafeSend, ChannelState
      <4>3. chan[ch].sent \in Seq(Message)
        BY <4>1 DEF ChannelState
      <4>4. /\ Len(chan[ch].sent) + 1 \in DOMAIN chan'[ch].sent
            /\ chan'[ch].sent[Len(chan[ch].sent) + 1] = env.msg
        BY <2>2, <4>2, <4>3
      <4>5. QED
        BY <4>4 DEF Range
    <3>2. ASSUME NEW d \in Channel, d # ch, SafeSend(d)
          PROVE  server'.pc = "broadcast" /\ server'.msg = env.msg /\ ch \in server'.todo
      <4>1. server.todo \ {d} # {}
        BY <2>2, <3>2
      <4>2. server' = [server EXCEPT !.todo = server.todo \ {d}]
        BY <3>2, <4>1 DEF SafeSend, SetServer, Remaining
      <4>3. QED
        BY <1>1, <2>2, <3>2, <4>2 DEF ServerState
    <3>3. QED
      BY <2>2, <3>1, <3>2, BroadcastGoesOn
  <2>3. QED
    BY <1>3, <2>1, <2>2
<1>7. QED
  BY <1>5, <1>6

\* NoLoss is kept.
LEMMA StepKeepsNoLoss ==
  TypeOK /\ Senders /\ Queued /\ Addressed /\ NoLoss /\ [Next]_vars => NoLoss'
<1> SUFFICES ASSUME TypeOK, Senders, Queued, Addressed, NoLoss, [Next]_vars,
                    NEW k \in DOMAIN log', NEW ch \in log'[k].recipients,
                    chan'[ch].state = "open", ~chan'[ch].overflow
             PROVE  log'[k].msg \in Range(chan'[ch].sent) \/ Underway(log[k], ch)'
  BY DEF NoLoss, Underway
<1>1. log \in Seq(Envelope) /\ log' \in Seq(Envelope) /\ publishCh \in Seq(Envelope)
  BY StepPreservesType DEF TypeOK
<1>2. ch \in Channel
  <2>1. log'[k] \in Envelope
    BY <1>1
  <2>2. QED
    BY <2>1 DEF Envelope
<1>3. CASE k \in DOMAIN log
  <2>1. log'[k] = log[k]
    BY <1>3, LogGrows
  <2>2. chan[ch].state = "open" /\ ~chan[ch].overflow
    BY <1>2, <1>3, <2>1, StepKeepsClear DEF Addressed
  <2>3. CASE Underway(log[k], ch)
    BY <1>2, <1>3, <2>1, <2>3, UnderwayGoesOn
  <2>4. CASE log[k].msg \in Range(chan[ch].sent)
    <3>1. Range(chan[ch].sent) \subseteq Range(chan'[ch].sent)
      <4>1. chan[ch].sent \in Seq(Message)
        BY <1>2 DEF TypeOK, ChannelState
      <4>2. chan'[ch].sent \in {chan[ch].sent, Append(chan[ch].sent, server.msg)}
        BY <1>2, StepKeeps, SendEffect DEF Keeps
      <4>3. \A i \in DOMAIN chan[ch].sent :
              i \in DOMAIN chan'[ch].sent /\ chan'[ch].sent[i] = chan[ch].sent[i]
        BY <4>1, <4>2
      <4>4. QED
        BY <4>3 DEF Range
    <3>2. QED
      BY <2>1, <2>4, <3>1
  <2>5. QED
    BY <1>3, <2>1, <2>2, <2>3, <2>4 DEF NoLoss
<1>4. CASE k \notin DOMAIN log
  <2>1. PICK c \in Client : Enqueue(c)
    BY <1>4, QueueSteps DEF ReceivePublish
  <2> DEFINE env == [msg |-> client[c].msg, recipients |-> client[c].recipients]
  <2>2. publishCh' = Append(publishCh, env) /\ log' = Append(log, env)
    BY <2>1 DEF Enqueue
  <2> HIDE DEF env
  <2>3. log'[k] = env
    BY <1>1, <1>4, <2>2
  <2>4. Len(publishCh) + 1 \in DOMAIN publishCh' /\ publishCh'[Len(publishCh) + 1] = env
    BY <1>1, <2>2
  <2>5. log'[k] \in Range(publishCh')
    BY <2>3, <2>4 DEF Range
  <2>6. QED
    BY <2>5 DEF Underway
<1>5. QED
  BY <1>3, <1>4

\* A message the queue took reaches every recipient whose channel is open and has never
\* been full, whatever happens to the other channels and whoever stops the broker.
THEOREM NoLossHolds == Spec => []NoLoss
<1>1. Init => History /\ Senders /\ NotMissed /\ Queued /\ Addressed /\ NoLoss
  <2> SUFFICES ASSUME Init PROVE History /\ Senders /\ NotMissed /\ Queued /\ Addressed /\ NoLoss
    OBVIOUS
  <2>1. \A ch \in Channel : chan[ch].missed = {} /\ chan[ch].sent = <<>>
    BY DEF Init
  <2>2. \A c \in Client : client[c] = Idle
    BY DEF Init
  <2>3. subs = {} /\ publishCh = <<>> /\ log = <<>> /\ server.pc = "new"
    BY DEF Init
  <2>4. QED
    BY <2>1, <2>2, <2>3
       DEF History, Senders, Publishing, NotMissed, Queued, Addressed, NoLoss, Idle
<1>2. TypeOK /\ History /\ Senders /\ NotMissed /\ [Next]_vars
        => History' /\ Senders' /\ NotMissed'
  BY StepKeepsHistory, StepKeepsSenders, StepKeepsNotMissed
<1>3. TypeOK /\ Senders /\ Queued /\ Addressed /\ NoLoss /\ [Next]_vars
        => Queued' /\ Addressed' /\ NoLoss'
  BY StepKeepsQueued, StepKeepsAddressed, StepKeepsNoLoss
<1>4. QED
  BY <1>1, <1>2, <1>3, BrokerTypeCorrect, PTL DEF Spec

=============================================================================
