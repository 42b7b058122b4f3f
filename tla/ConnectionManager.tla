------------------------- MODULE ConnectionManager -------------------------
(***************************************************************************)
(* fastapi_app/realtime/manager.py with the endpoints of                   *)
(* fastapi_app/api/v1/realtime.py: websockets join channels, and one task  *)
(* per channel subscribes to Redis and fans messages out.                  *)
(*                                                                         *)
(* Coroutines interleave at await only, so what runs from one await to the *)
(* next is one action.  The blocks under self._lock contain no await: the  *)
(* lock is never waited for.  task.cancel() raises CancelledError at the   *)
(* await at which the task is suspended, whatever that await would have    *)
(* returned, so a cancelled task takes no further step.  broadcast has no  *)
(* caller and is left out.  A websocket is opened once.                    *)
(***************************************************************************)
EXTENDS Sequences, Functions

CONSTANTS
  Sockets,       \* websockets
  Channels,      \* channel names
  MaxPublished,  \* bound on the messages published to each channel
  NoTask         \* not a socket

VARIABLES
  phase,      \* how far the endpoint of each websocket has come
  channel,    \* the channel of each websocket
  members,    \* ConnectionManager._channels
  registered, \* ConnectionManager._pubsub_tasks: the websocket whose connect
              \* created the task
  state,      \* of the consumer task that the connect of a websocket created
  inbox,      \* what Redis has sent to it
  message,    \* what it is sending, 0 for nothing
  todo,       \* to whom it has yet to send that
  from,       \* how many messages were published before it had subscribed
  published,  \* Redis: how many messages were published to each channel
  received,   \* the messages each client got, in order
  since       \* published when the websocket joined its channel

taskVars == <<state, inbox, message, todo, from>>
clientVars == <<channel, published, received>>
managerVars == <<phase, channel, members, registered, state, inbox, message, todo, from,
                 published, received, since>>

ASSUME ManagerAssumption ==
  /\ NoTask \notin Sockets
  /\ MaxPublished \in Nat

\* "new" until accept has returned (if it raises, the endpoint ends and nothing
\* has happened), then "open", "gone" (the client is, the endpoint has not
\* noticed), "left" (the endpoint has ended).
Phases == {"new", "open", "gone", "left"}

\* A task is "starting" until Redis has confirmed its subscription; then it is
\* "listening" for the next message, or "sending" one.
States == {"none", "starting", "listening", "sending", "crashed", "cancelled"}
Running == {"starting", "listening", "sending"}
Subscribed == {"listening", "sending"}

Messages == 1..MaxPublished

\* A task is sending exactly as long as it has a message and somebody to send it to.
SendsWhatItHas(t) ==
  /\ state[t] = "sending" <=> todo[t] # {}
  /\ state[t] = "sending" <=> message[t] # 0

ManagerTypeOK ==
  /\ phase \in [Sockets -> Phases]
  /\ channel \in [Sockets -> Channels]
  /\ members \in [Channels -> SUBSET Sockets]
  /\ registered \in [Channels -> Sockets \cup {NoTask}]
  /\ state \in [Sockets -> States]
  /\ inbox \in [Sockets -> Seq(Messages)]
  /\ message \in [Sockets -> {0} \cup Messages]
  /\ todo \in [Sockets -> SUBSET Sockets]
  /\ from \in [Sockets -> 0..MaxPublished]
  /\ published \in [Channels -> 0..MaxPublished]
  /\ received \in [Sockets -> Seq(Messages)]
  /\ since \in [Sockets -> 0..MaxPublished]
  /\ \A t \in Sockets : SendsWhatItHas(t)

ManagerInit ==
  /\ phase = [s \in Sockets |-> "new"]
  /\ channel \in [Sockets -> Channels]
  /\ members = [c \in Channels |-> {}]
  /\ registered = [c \in Channels |-> NoTask]
  /\ state = [t \in Sockets |-> "none"]
  /\ inbox = [t \in Sockets |-> <<>>]
  /\ message = [t \in Sockets |-> 0]
  /\ todo = [t \in Sockets |-> {}]
  /\ from = [t \in Sockets |-> 0]
  /\ published = [c \in Channels |-> 0]
  /\ received = [s \in Sockets |-> <<>>]
  /\ since = [s \in Sockets |-> 0]

---------------------------------------------------------------------------
(* The endpoints                                                           *)

ConnectAlwaysStarting(s) ==
  LET c == channel[s] IN
    /\ phase[s] = "new"
    /\ phase' = [phase EXCEPT ![s] = "open"]
    /\ since' = [since EXCEPT ![s] = published[c]]
    /\ members' = [members EXCEPT ![c] = @ \cup {s}]
    /\ registered' = [registered EXCEPT ![c] = s]
    /\ state' = [state EXCEPT ![s] = "starting"]
    /\ UNCHANGED <<inbox, message, todo, from, clientVars>>

\* connect after accept: joins the channel, and starts a consumer if the
\* channel has none registered.
Connect(s) ==
  LET c == channel[s] IN
    /\ phase[s] = "new"
    /\ phase' = [phase EXCEPT ![s] = "open"]
    /\ since' = [since EXCEPT ![s] = published[c]]
    /\ members' = [members EXCEPT ![c] = @ \cup {s}]
    /\ IF registered[c] = NoTask
         THEN /\ registered' = [registered EXCEPT ![c] = s]
              /\ state' = [state EXCEPT ![s] = "starting"]
         ELSE UNCHANGED <<registered, state>>
    /\ UNCHANGED <<inbox, message, todo, from, clientVars>>

\* The client goes away.
Leave(s) ==
  /\ phase[s] = "open"
  /\ phase' = [phase EXCEPT ![s] = "gone"]
  /\ UNCHANGED <<members, registered, taskVars, clientVars, since>>

\* task.cancel(): nothing happens to a task that has ended.
Cancel(t) ==
  /\ state' = [state EXCEPT ![t] = IF @ \in Running THEN "cancelled" ELSE @]
  /\ inbox' = [inbox EXCEPT ![t] = <<>>]
  /\ message' = [message EXCEPT ![t] = 0]
  /\ todo' = [todo EXCEPT ![t] = {}]
  /\ UNCHANGED from

DisconnectWithoutCancel(s) ==
  LET c == channel[s] IN
    /\ phase[s] = "gone"
    /\ phase' = [phase EXCEPT ![s] = "left"]
    /\ members' = [members EXCEPT ![c] = @ \ {s}]
    /\ registered' = IF members'[c] = {} THEN [registered EXCEPT ![c] = NoTask]
                     ELSE registered
    /\ UNCHANGED <<taskVars, clientVars, since>>

\* disconnect, from the finally of the endpoint: the last one to leave takes
\* the registration with it and cancels the task.
Disconnect(s) ==
  LET c == channel[s] IN
    /\ phase[s] = "gone"
    /\ phase' = [phase EXCEPT ![s] = "left"]
    /\ members' = [members EXCEPT ![c] = @ \ {s}]
    /\ IF members'[c] = {} /\ registered[c] # NoTask
         THEN registered' = [registered EXCEPT ![c] = NoTask] /\ Cancel(registered[c])
         ELSE UNCHANGED <<registered, taskVars>>
    /\ UNCHANGED <<clientVars, since>>

---------------------------------------------------------------------------
(* The consumer tasks: _consume                                            *)

\* subscribe returns.
Subscribe(t) ==
  /\ state[t] = "starting"
  /\ state' = [state EXCEPT ![t] = "listening"]
  /\ from' = [from EXCEPT ![t] = published[channel[t]]]
  /\ UNCHANGED <<phase, members, registered, inbox, message, todo, clientVars, since>>

\* The next message of listen(), and a snapshot of the channel to send it to.
Receive(t) ==
  /\ state[t] = "listening"
  /\ inbox[t] # <<>>
  /\ inbox' = [inbox EXCEPT ![t] = Tail(@)]
  /\ todo' = [todo EXCEPT ![t] = members[channel[t]]]
  /\ IF members[channel[t]] = {}
       THEN UNCHANGED <<state, message>>
       ELSE /\ state' = [state EXCEPT ![t] = "sending"]
            /\ message' = [message EXCEPT ![t] = Head(inbox[t])]
  /\ UNCHANGED <<phase, members, registered, from, clientVars, since>>

\* The loop of t is done with s; after the last one it asks for the next message.
Done(t, s) ==
  /\ todo' = [todo EXCEPT ![t] = @ \ {s}]
  /\ IF todo[t] = {s}
       THEN /\ state' = [state EXCEPT ![t] = "listening"]
            /\ message' = [message EXCEPT ![t] = 0]
       ELSE UNCHANGED <<state, message>>
  /\ UNCHANGED <<inbox, from>>

\* send_text to a client that is there
SendTo(t, s) ==
  /\ s \in todo[t]
  /\ phase[s] = "open"
  /\ received' = [received EXCEPT ![s] = Append(@, message[t])]
  /\ Done(t, s)
  /\ UNCHANGED <<phase, channel, members, registered, published, since>>

DropAll(t, s) ==
  /\ s \in todo[t]
  /\ phase[s] # "open"
  /\ members' = [members EXCEPT ![channel[t]] = {}]
  /\ Done(t, s)
  /\ UNCHANGED <<phase, registered, clientVars, since>>

FailureEndsFanOut(t, s) ==
  /\ s \in todo[t]
  /\ phase[s] # "open"
  /\ members' = [members EXCEPT ![channel[t]] = @ \ {s}]
  /\ todo' = [todo EXCEPT ![t] = {}]
  /\ state' = [state EXCEPT ![t] = "listening"]
  /\ message' = [message EXCEPT ![t] = 0]
  /\ UNCHANGED <<phase, registered, inbox, from, clientVars, since>>

FailureHangs(t, s) ==
  /\ s \in todo[t]
  /\ phase[s] # "open"
  /\ members' = [members EXCEPT ![channel[t]] = @ \ {s}]
  /\ todo' = [todo EXCEPT ![t] = @ \ {s}]
  /\ UNCHANGED <<phase, registered, state, inbox, message, from, clientVars, since>>

\* send_text raises for one that is not: the websocket is discarded, the
\* channel keeps its consumer until the endpoint calls disconnect.
SendFails(t, s) ==
  /\ s \in todo[t]
  /\ phase[s] # "open"
  /\ members' = [members EXCEPT ![channel[t]] = @ \ {s}]
  /\ Done(t, s)
  /\ UNCHANGED <<phase, registered, clientVars, since>>

\* The connection to Redis fails: the exception is logged and the task ends,
\* still registered.
Crash(t) ==
  /\ state[t] \in {"starting", "listening"}
  /\ state' = [state EXCEPT ![t] = "crashed"]
  /\ inbox' = [inbox EXCEPT ![t] = <<>>]
  /\ UNCHANGED <<phase, members, registered, message, todo, from, clientVars, since>>

---------------------------------------------------------------------------
(* Redis: a message goes to the subscriptions there are at the moment      *)

Subscribers(c) == {t \in Sockets : channel[t] = c /\ state[t] \in Subscribed}

Publish(c) ==
  /\ published[c] < MaxPublished
  /\ published' = [published EXCEPT ![c] = @ + 1]
  /\ inbox' = [t \in Sockets |-> IF t \in Subscribers(c)
                                 THEN Append(inbox[t], published[c] + 1) ELSE inbox[t]]
  /\ UNCHANGED <<phase, channel, members, registered, state, message, todo, from,
                 received, since>>

---------------------------------------------------------------------------

Endpoint(s) ==
  \/ Connect(s)
  \/ Leave(s)
  \/ Disconnect(s)

Consume(t) ==
  \/ Subscribe(t)
  \/ Receive(t)
  \/ \E s \in Sockets : SendTo(t, s) \/ SendFails(t, s)

ManagerNext ==
  \/ \E s \in Sockets : Endpoint(s) \/ Consume(s) \/ Crash(s)
  \/ \E c \in Channels : Publish(c)

ManagerSpec == ManagerInit /\ [][ManagerNext]_managerVars

\* The event loop resumes every coroutine whose await has finished, and the
\* endpoint of a client that is gone comes to its finally.
FairManagerSpec ==
  /\ ManagerSpec
  /\ \A s \in Sockets : WF_managerVars(Consume(s)) /\ WF_managerVars(Disconnect(s))

---------------------------------------------------------------------------
(* Properties                                                              *)

\* A task that can still send is the one registered for its channel: no
\* channel has two consumers, and no consumer outlives its registration.
OneConsumer ==
  \A t \in Sockets :
    state[t] \in Running => registered[channel[t]] = t

\* Whoever is connected is in the channel and has a registered consumer, and a
\* registration has an endpoint that will end it: discards of failed sends and
\* disconnects in any order neither strand a client nor leak a task.
ClientsAndConsumers ==
  /\ \A s \in Sockets : phase[s] = "open" =>
       s \in members[channel[s]] /\ registered[channel[s]] # NoTask
  /\ \A c \in Channels : registered[c] # NoTask =>
       \E s \in Sockets : channel[s] = c /\ phase[s] \in {"open", "gone"}

\* A client gets messages in the order of their publication, none twice, also
\* when the channel was given up and started again.
ReceivedInOrder ==
  \A s \in Sockets : \A i, j \in 1..Len(received[s]) :
    i < j => received[s][i] < received[s][j]

\* What was published since a client joined and its consumer subscribed has
\* reached the client, or is with the consumer: clients that come, go and fail
\* during a fan-out, and consumers that are cancelled and replaced, lose no
\* message of those who stay.
NothingIsMissed ==
  \A s \in Sockets :
    LET t == registered[channel[s]] IN
      phase[s] = "open" /\ state[t] \in Subscribed =>
        \A m \in Messages :
          since[s] < m /\ from[t] < m /\ m <= published[channel[s]] =>
            \/ m \in Range(received[s])
            \/ m \in Range(inbox[t])
            \/ m = message[t] /\ s \in todo[t]

\* A consumer comes to the end of its inbox, unless it crashes or is cancelled.
InboxIsDrained == \A t \in Sockets : inbox[t] # <<>> ~> inbox[t] = <<>>

\* The module's docstring: "When a message is published to the channel via Redis
\* (...), it is fanned out to all websockets in that channel."  Messages from
\* before the channel's consumer was subscribed are not counted.
FannedOut ==
  \A s \in Sockets, m \in Messages :
    /\ phase[s] = "open"
    /\ since[s] < m
    /\ from[registered[channel[s]]] < m
    /\ m <= published[channel[s]]
    ~> m \in Range(received[s]) \/ phase[s] # "open"
=============================================================================
