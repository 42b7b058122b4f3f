---------------------- MODULE ConnectionManagerProofs ----------------------
(***************************************************************************)
(* The safety properties of ConnectionManager for any number of websockets,*)
(* channels and messages.  Wiring ties websockets, channels and consumers  *)
(* to each other; Progress and Reached say where a consumer and its        *)
(* clients are in the sequence of messages.                                *)
(***************************************************************************)
EXTENDS ConnectionManager, SequenceTheorems, TLAPS

Present == {"open", "gone"}

NewIsIdle == \A t \in Sockets : phase[t] = "new" => state[t] = "none"
MembersFit ==
  \A c \in Channels, s \in Sockets : s \in members[c] => channel[s] = c /\ phase[s] \in Present
MembersServed == \A c \in Channels : members[c] # {} => registered[c] # NoTask
TasksFit == \A c \in Channels : registered[c] # NoTask => channel[registered[c]] = c
InboxFits == \A t \in Sockets : state[t] \notin Subscribed => inbox[t] = <<>>
TodoFits == \A t \in Sockets : \A s \in todo[t] : channel[s] = channel[t]

Wiring ==
  /\ NewIsIdle
  /\ MembersFit
  /\ MembersServed
  /\ TasksFit
  /\ InboxFits
  /\ TodoFits
  /\ OneConsumer
  /\ ClientsAndConsumers

Safe == ManagerTypeOK /\ Wiring

LEMMA InitSafe == ManagerInit => Safe
<1> SUFFICES ASSUME ManagerInit
             PROVE  Safe
  OBVIOUS
<1>1. ManagerTypeOK
  BY ManagerAssumption
     DEF ManagerInit, ManagerTypeOK, SendsWhatItHas, Phases, States
<1>2. Wiring
  BY DEF ManagerInit, Wiring, NewIsIdle, MembersFit, MembersServed, TasksFit, InboxFits,
         TodoFits, OneConsumer, ClientsAndConsumers, Subscribed, Running
<1> QED
  BY <1>1, <1>2 DEF Safe

---------------------------------------------------------------------------
(* Types                                                                   *)

Shapes ==
  /\ phase \in [Sockets -> Phases]
  /\ channel \in [Sockets -> Channels]
  /\ members \in [Channels -> SUBSET Sockets]
  /\ registered \in [Channels -> Sockets \cup {NoTask}]
  /\ state \in [Sockets -> States]
  /\ inbox \in [Sockets -> Seq(Messages)]
  /\ message \in [Sockets -> {0} \cup Messages]
  /\ todo \in [Sockets -> SUBSET Sockets]
  /\ from \in [Sockets -> 0..MaxPublished]
  /\ published \in [Channels -> 0..MaxPublished]
  /\ received \in [Sockets -> Seq(Messages)]
  /\ since \in [Sockets -> 0..MaxPublished]

Consistent == \A t \in Sockets : SendsWhatItHas(t)

LEMMA TypesAre == ManagerTypeOK <=> Shapes /\ Consistent
BY DEF ManagerTypeOK, Shapes, Consistent

LEMMA DoneShapes ==
  ASSUME Shapes, NEW t \in Sockets, NEW s \in Sockets, Done(t, s)
  PROVE  /\ state' \in [Sockets -> States]
         /\ message' \in [Sockets -> {0} \cup Messages]
         /\ todo' \in [Sockets -> SUBSET Sockets]
         /\ UNCHANGED <<inbox, from>>
<1>1. state' \in [Sockets -> States]
  BY DEF Done, Shapes, States
<1>2. message' \in [Sockets -> {0} \cup Messages]
  BY DEF Done, Shapes
<1>3. todo' \in [Sockets -> SUBSET Sockets]
  BY DEF Done, Shapes
<1> QED
  BY <1>1, <1>2, <1>3 DEF Done

LEMMA StepShapes == ManagerTypeOK /\ [ManagerNext]_managerVars => Shapes'
<1> SUFFICES ASSUME Shapes, Consistent, [ManagerNext]_managerVars
             PROVE  Shapes'
  BY TypesAre
<1> USE ManagerAssumption DEF clientVars, taskVars
<1>1. ASSUME NEW s \in Sockets, Connect(s)
      PROVE  Shapes'
  <2>1. /\ phase' \in [Sockets -> Phases]
        /\ members' \in [Channels -> SUBSET Sockets]
    BY <1>1 DEF Connect, Shapes, Phases
  <2>2. since' \in [Sockets -> 0..MaxPublished]
    BY <1>1 DEF Connect, Shapes
  <2>3. registered' \in [Channels -> Sockets \cup {NoTask}]
    BY <1>1 DEF Connect, Shapes
  <2>4. state' \in [Sockets -> States]
    BY <1>1 DEF Connect, Shapes, States
  <2> QED
    BY <1>1, <2>1, <2>2, <2>3, <2>4 DEF Connect, Shapes
<1>2. ASSUME NEW s \in Sockets, Leave(s)
      PROVE  Shapes'
  BY <1>2 DEF Leave, Shapes, Phases
<1>3. ASSUME NEW s \in Sockets, Disconnect(s)
      PROVE  Shapes'
  <2>1. /\ phase' \in [Sockets -> Phases]
        /\ members' \in [Channels -> SUBSET Sockets]
        /\ UNCHANGED <<from, channel, published, received, since>>
    BY <1>3 DEF Disconnect, Cancel, Shapes, Phases
  <2>2. CASE Cancel(registered[channel[s]]) /\ registered' = [registered EXCEPT ![channel[s]] = NoTask]
    <3>0. << >> \in Seq(Messages)
      OBVIOUS
    <3>1. /\ state' \in [Sockets -> States]
      BY <2>2 DEF Cancel, Shapes, States, Running
    <3>5. inbox' \in [Sockets -> Seq(Messages)]
      BY <2>2, <3>0 DEF Cancel, Shapes
    <3>2. message' \in [Sockets -> {0} \cup Messages]
      BY <2>2 DEF Cancel, Shapes
    <3>3. todo' \in [Sockets -> SUBSET Sockets]
      BY <2>2 DEF Cancel, Shapes
    <3>4. registered' \in [Channels -> Sockets \cup {NoTask}]
      BY <2>2 DEF Shapes
    <3> QED
      BY <2>1, <3>1, <3>2, <3>3, <3>4, <3>5 DEF Shapes
  <2>3. CASE UNCHANGED <<registered, taskVars>>
    BY <2>1, <2>3 DEF Shapes
  <2> QED
    BY <1>3, <2>2, <2>3 DEF Disconnect
<1>4. ASSUME NEW t \in Sockets, Subscribe(t)
      PROVE  Shapes'
  BY <1>4 DEF Subscribe, Shapes, States
<1>5. ASSUME NEW t \in Sockets, Receive(t)
      PROVE  Shapes'
  <2>1. /\ Head(inbox[t]) \in Messages
        /\ Tail(inbox[t]) \in Seq(Messages)
    BY <1>5 DEF Receive, Shapes
  <2>2. /\ inbox' \in [Sockets -> Seq(Messages)]
        /\ todo' \in [Sockets -> SUBSET Sockets]
    BY <1>5, <2>1 DEF Receive, Shapes
  <2>3. state' \in [Sockets -> States]
    BY <1>5 DEF Receive, Shapes, States
  <2>4. message' \in [Sockets -> {0} \cup Messages]
    BY <1>5, <2>1 DEF Receive, Shapes
  <2> QED
    BY <1>5, <2>2, <2>3, <2>4 DEF Receive, Shapes
<1>6. ASSUME NEW t \in Sockets, NEW s \in Sockets, SendTo(t, s)
      PROVE  Shapes'
  <2>1. message[t] \in Messages
    BY <1>6 DEF SendTo, Shapes, Consistent, SendsWhatItHas
  <2>2. received' \in [Sockets -> Seq(Messages)]
    BY <1>6, <2>1 DEF SendTo, Shapes
  <2>3. Done(t, s)
    BY <1>6 DEF SendTo
  <2> QED
    BY <1>6, <2>2, <2>3, DoneShapes DEF SendTo, Shapes
<1>7. ASSUME NEW t \in Sockets, NEW s \in Sockets, SendFails(t, s)
      PROVE  Shapes'
  <2>1. members' \in [Channels -> SUBSET Sockets]
    BY <1>7 DEF SendFails, Shapes
  <2>2. Done(t, s)
    BY <1>7 DEF SendFails
  <2> QED
    BY <1>7, <2>1, <2>2, DoneShapes DEF SendFails, Shapes
<1>8. ASSUME NEW t \in Sockets, Crash(t)
      PROVE  Shapes'
  BY <1>8 DEF Crash, Shapes, States
<1>9. ASSUME NEW c \in Channels, Publish(c)
      PROVE  Shapes'
  <2>1. published[c] + 1 \in Messages
    BY <1>9 DEF Publish, Shapes, Messages
  <2>2. inbox' \in [Sockets -> Seq(Messages)]
    BY <1>9, <2>1 DEF Publish, Shapes
  <2>3. published' \in [Channels -> 0..MaxPublished]
    BY <1>9 DEF Publish, Shapes
  <2> QED
    BY <1>9, <2>2, <2>3 DEF Publish, Shapes
<1>10. CASE UNCHANGED managerVars
  BY <1>10 DEF managerVars, Shapes
<1> QED
  BY <1>1, <1>2, <1>3, <1>4, <1>5, <1>6, <1>7, <1>8, <1>9, <1>10
     DEF ManagerNext, Endpoint, Consume

LEMMA StepConsistent == Safe /\ [ManagerNext]_managerVars => Consistent'
<1> SUFFICES ASSUME Shapes, Consistent, NewIsIdle, [ManagerNext]_managerVars, NEW u \in Sockets
             PROVE  SendsWhatItHas(u)'
  BY TypesAre DEF Consistent, Safe, Wiring
<1> USE DEF clientVars, taskVars, Shapes, Consistent, SendsWhatItHas
<1>1. ASSUME NEW s \in Sockets, Connect(s)
      PROVE  SendsWhatItHas(u)'
  BY <1>1 DEF Connect, NewIsIdle
<1>2. ASSUME NEW s \in Sockets, Leave(s)
      PROVE  SendsWhatItHas(u)'
  BY <1>2 DEF Leave
<1>3. ASSUME NEW s \in Sockets, Disconnect(s)
      PROVE  SendsWhatItHas(u)'
  <2>1. CASE Cancel(registered[channel[s]])
    BY <2>1 DEF Cancel, Running
  <2>2. CASE UNCHANGED taskVars
    BY <2>2
  <2> QED
    BY <1>3, <2>1, <2>2 DEF Disconnect
<1>4. ASSUME NEW t \in Sockets, Subscribe(t)
      PROVE  SendsWhatItHas(u)'
  BY <1>4 DEF Subscribe
<1>5. ASSUME NEW t \in Sockets, Receive(t)
      PROVE  SendsWhatItHas(u)'
  <2>1. Head(inbox[t]) \in Messages
    BY <1>5 DEF Receive
  <2>2. Head(inbox[t]) # 0
    BY <2>1 DEF Messages
  <2> QED
    BY <1>5, <2>2 DEF Receive
<1>6. ASSUME NEW t \in Sockets, NEW s \in Sockets, SendTo(t, s) \/ SendFails(t, s)
      PROVE  SendsWhatItHas(u)'
  <2>1. Done(t, s) /\ s \in todo[t]
    BY <1>6 DEF SendTo, SendFails
  <2>2. todo[t] \ {s} = {} <=> todo[t] = {s}
    BY <2>1
  <2> QED
    BY <2>1, <2>2 DEF Done
<1>7. ASSUME NEW t \in Sockets, Crash(t)
      PROVE  SendsWhatItHas(u)'
  BY <1>7 DEF Crash
<1>8. ASSUME NEW c \in Channels, Publish(c)
      PROVE  SendsWhatItHas(u)'
  BY <1>8 DEF Publish
<1>9. CASE UNCHANGED managerVars
  BY <1>9 DEF managerVars
<1> QED
  BY <1>1, <1>2, <1>3, <1>4, <1>5, <1>6, <1>7, <1>8, <1>9
     DEF ManagerNext, Endpoint, Consume

LEMMA StepTypes == Safe /\ [ManagerNext]_managerVars => ManagerTypeOK'
<1> SUFFICES ASSUME Safe, [ManagerNext]_managerVars
             PROVE  Shapes' /\ Consistent'
  BY DEF ManagerTypeOK, Shapes, Consistent
<1> QED
  BY StepShapes, StepConsistent DEF Safe

---------------------------------------------------------------------------
(* Websockets, channels and consumers                                      *)

LEMMA ConnectWiring ==
  ASSUME Safe, NEW s \in Sockets, NEW c \in Channels, c = channel[s], Connect(s)
  PROVE  Wiring'
<1>1. /\ phase[s] = "new" /\ state[s] = "none"
      /\ \A u \in Sockets : phase'[u] = IF u = s THEN "open" ELSE phase[u]
      /\ \A d \in Channels, u \in Sockets :
           u \in members'[d] <=> u \in members[d] \/ (u = s /\ d = c)
      /\ \A d \in Channels : members'[d] # {} => members[d] # {} \/ d = c
      /\ UNCHANGED <<channel, inbox, todo>>
  BY TypesAre DEF Connect, Safe, Shapes, Wiring, NewIsIdle, clientVars
<1>2. \/ /\ registered[c] = NoTask
         /\ \A d \in Channels : registered'[d] = IF d = c THEN s ELSE registered[d]
         /\ \A u \in Sockets : state'[u] = IF u = s THEN "starting" ELSE state[u]
      \/ /\ registered[c] # NoTask
         /\ UNCHANGED <<registered, state>>
  BY TypesAre DEF Connect, Safe, Shapes
<1>3. s # NoTask
  BY ManagerAssumption
<1> USE DEF Safe, Wiring
<1>4. NewIsIdle'
  BY <1>1, <1>2 DEF NewIsIdle
<1>5. MembersFit'
  BY <1>1 DEF MembersFit, Present
<1>6. MembersServed' /\ TasksFit'
  BY <1>1, <1>2, <1>3 DEF MembersServed, TasksFit
<1>7. InboxFits' /\ TodoFits'
  BY <1>1, <1>2 DEF InboxFits, TodoFits, Subscribed
<1>8. OneConsumer'
  <2> SUFFICES ASSUME NEW t \in Sockets, state'[t] \in Running
               PROVE  registered'[channel[t]] = t
    BY <1>1 DEF OneConsumer
  <2>0. channel[t] \in Channels
    BY TypesAre DEF Shapes
  <2>1. CASE t = s
    BY <1>1, <1>2, <2>0, <2>1 DEF OneConsumer, Running
  <2>2. CASE t # s
    BY <1>1, <1>2, <2>0, <2>2, ManagerAssumption DEF OneConsumer
  <2> QED
    BY <2>1, <2>2
<1>9. ClientsAndConsumers'
  <2>1. ASSUME NEW u \in Sockets, phase'[u] = "open"
        PROVE  u \in members'[channel[u]] /\ registered'[channel[u]] # NoTask
    <3>1. channel[u] \in Channels
      BY TypesAre DEF Shapes
    <3>2. CASE u = s
      BY <1>1, <1>2, <1>3, <3>2
    <3>3. CASE u # s
      BY <1>1, <1>2, <1>3, <2>1, <3>1, <3>3 DEF ClientsAndConsumers
    <3> QED
      BY <3>2, <3>3
  <2>2. ASSUME NEW d \in Channels, registered'[d] # NoTask
        PROVE  \E u \in Sockets : channel[u] = d /\ phase'[u] \in {"open", "gone"}
    BY <1>1, <1>2, <2>2 DEF ClientsAndConsumers
  <2> QED
    BY <1>1, <2>1, <2>2 DEF ClientsAndConsumers
<1> QED
  BY <1>4, <1>5, <1>6, <1>7, <1>8, <1>9

LEMMA DisconnectWiring ==
  ASSUME Safe, NEW s \in Sockets, NEW c \in Channels, c = channel[s], Disconnect(s)
  PROVE  Wiring'
<1>1. /\ phase[s] = "gone"
      /\ \A u \in Sockets : phase'[u] = IF u = s THEN "left" ELSE phase[u]
      /\ \A d \in Channels, u \in Sockets :
           u \in members'[d] <=> u \in members[d] /\ ~(u = s /\ d = c)
      /\ members' \in [Channels -> SUBSET Sockets]
      /\ \A d \in Channels : members'[d] # {} => members[d] # {}
      /\ UNCHANGED channel
  BY TypesAre DEF Disconnect, Safe, Shapes, clientVars
<1>2. CASE members'[c] = {} /\ registered[c] # NoTask
  <2> DEFINE t == registered[c]
  <2>1. t \in Sockets /\ channel[t] = c
    BY <1>2, TypesAre DEF Safe, Shapes, Wiring, TasksFit
  <2>2. /\ \A d \in Channels : registered'[d] = IF d = c THEN NoTask ELSE registered[d]
        /\ Cancel(t)
    BY <1>2, TypesAre DEF Disconnect, Safe, Shapes
  <2> HIDE DEF t
  <2>3. \A u \in Sockets :
          /\ u # t => state'[u] = state[u] /\ inbox'[u] = inbox[u] /\ todo'[u] = todo[u]
          /\ state'[t] \notin Running
          /\ state[t] \notin Running => state'[t] = state[t]
          /\ inbox'[t] = <<>>
          /\ todo'[t] = {}
    BY <2>1, <2>2, TypesAre DEF Cancel, Safe, Shapes, Running
  <2> USE DEF Safe, Wiring
  <2>4. NewIsIdle'
    BY <1>1, <2>1, <2>3 DEF NewIsIdle, Running
  <2>5. MembersFit'
    BY <1>1 DEF MembersFit, Present
  <2>6. MembersServed' /\ TasksFit'
    BY <1>1, <1>2, <2>2 DEF MembersServed, TasksFit
  <2>7. InboxFits' /\ TodoFits'
    BY <1>1, <2>3 DEF InboxFits, TodoFits
  <2>8. OneConsumer'
    <3> SUFFICES ASSUME NEW u \in Sockets, state'[u] \in Running
                 PROVE  registered'[channel[u]] = u
      BY <1>1 DEF OneConsumer
    <3>1. channel[u] \in Channels
      BY TypesAre DEF Shapes
    <3>2. u # t /\ registered[channel[u]] = u
      BY <2>3 DEF OneConsumer
    <3> QED
      BY <2>2, <3>1, <3>2 DEF t
  <2>9. ClientsAndConsumers'
    <3>1. ASSUME NEW u \in Sockets, phase'[u] = "open"
          PROVE  u \in members'[channel[u]] /\ registered'[channel[u]] # NoTask
      <4>1. channel[u] \in Channels
        BY TypesAre DEF Shapes
      <4>2. u # s /\ u \in members[channel[u]] /\ registered[channel[u]] # NoTask
        BY <1>1, <3>1 DEF ClientsAndConsumers
      <4>3. channel[u] # c
        BY <1>1, <1>2, <4>1, <4>2
      <4> QED
        BY <1>1, <2>2, <4>1, <4>2, <4>3
    <3>2. ASSUME NEW d \in Channels, registered'[d] # NoTask
          PROVE  \E u \in Sockets : channel[u] = d /\ phase'[u] \in {"open", "gone"}
      BY <1>1, <2>2, <3>2 DEF ClientsAndConsumers
    <3> QED
      BY <1>1, <3>1, <3>2 DEF ClientsAndConsumers
  <2> QED
    BY <2>4, <2>5, <2>6, <2>7, <2>8, <2>9
<1>3. CASE ~(members'[c] = {} /\ registered[c] # NoTask)
  <2>1. UNCHANGED <<registered, state, inbox, todo>>
    BY <1>3 DEF Disconnect, taskVars
  <2> USE DEF Safe, Wiring
  <2>2. NewIsIdle' /\ MembersFit'
    BY <1>1, <2>1 DEF NewIsIdle, MembersFit, Present
  <2>3. MembersServed' /\ TasksFit'
    BY <1>1, <2>1 DEF MembersServed, TasksFit
  <2>4. InboxFits' /\ TodoFits' /\ OneConsumer'
    BY <1>1, <2>1 DEF InboxFits, TodoFits, OneConsumer
  <2>5. ClientsAndConsumers'
    <3>1. ASSUME NEW u \in Sockets, phase'[u] = "open"
          PROVE  u \in members'[channel[u]] /\ registered'[channel[u]] # NoTask
      <4>1. channel[u] \in Channels
        BY TypesAre DEF Shapes
      <4> QED
        BY <1>1, <2>1, <3>1, <4>1 DEF ClientsAndConsumers
    <3>2. ASSUME NEW d \in Channels, registered'[d] # NoTask
          PROVE  \E u \in Sockets : channel[u] = d /\ phase'[u] \in {"open", "gone"}
      <4>1. CASE d = c
        <5>1. PICK u \in members[c] : u # s
          BY <1>1, <1>3, <2>1, <3>2, <4>1
        <5>2. u \in Sockets
          BY TypesAre DEF Shapes
        <5> QED
          BY <1>1, <4>1, <5>1, <5>2 DEF MembersFit, Present
      <4>2. CASE d # c
        BY <1>1, <2>1, <3>2, <4>2 DEF ClientsAndConsumers
      <4> QED
        BY <4>1, <4>2
    <3> QED
      BY <1>1, <3>1, <3>2 DEF ClientsAndConsumers
  <2> QED
    BY <2>2, <2>3, <2>4, <2>5
<1> QED
  BY <1>2, <1>3

LEMMA TaskWiring ==
  ASSUME Safe, NEW t \in Sockets, Consume(t) \/ Crash(t)
  PROVE  Wiring'
<1> USE DEF clientVars
<1> DEFINE
      OnlyT ==
        /\ UNCHANGED <<phase, channel, registered>>
        /\ state[t] \in Running
        /\ \A u \in Sockets \ {t} :
             state'[u] = state[u] /\ inbox'[u] = inbox[u] /\ todo'[u] = todo[u]
        /\ state'[t] \in Running \cup {"crashed"}
      OnlyDiscards ==
        /\ \A c \in Channels, s \in Sockets : s \in members'[c] => s \in members[c]
        /\ \A c \in Channels, s \in Sockets :
             s \in members[c] /\ phase[s] = "open" => s \in members'[c]
        /\ \A c \in Channels : members'[c] # {} => members[c] # {}
<1>1. OnlyT
  <2>1. CASE Subscribe(t)
    BY <2>1, TypesAre DEF Subscribe, Running, Safe, Shapes
  <2>2. CASE Receive(t)
    BY <2>2, TypesAre DEF Receive, Running, Safe, Shapes
  <2>3. ASSUME NEW s \in Sockets, SendTo(t, s) \/ SendFails(t, s)
        PROVE  OnlyT
    <3>1. state[t] = "sending"
      BY <2>3, TypesAre DEF SendTo, SendFails, Safe, Shapes, Consistent, SendsWhatItHas
    <3> QED
      BY <2>3, <3>1, TypesAre DEF SendTo, SendFails, Done, Running, Safe, Shapes
  <2>4. CASE Crash(t)
    BY <2>4, TypesAre DEF Crash, Running, Safe, Shapes
  <2> QED
    BY <2>1, <2>2, <2>3, <2>4 DEF Consume
<1>2. OnlyDiscards
  <2>1. CASE UNCHANGED members
    BY <2>1
  <2>2. ASSUME NEW s \in Sockets, SendFails(t, s)
        PROVE  OnlyDiscards
    BY <2>2, TypesAre DEF SendFails, Safe, Shapes
  <2> QED
    BY <2>1, <2>2 DEF Consume, Crash, Subscribe, Receive, SendTo
<1> USE DEF Safe, Wiring
<1>3. NewIsIdle' /\ MembersFit'
  BY <1>1, <1>2 DEF NewIsIdle, MembersFit, Running
<1>4. MembersServed' /\ TasksFit'
  BY <1>1, <1>2 DEF MembersServed, TasksFit
<1>5. OneConsumer'
  BY <1>1 DEF OneConsumer, Running
<1>6. ClientsAndConsumers'
  BY <1>1, <1>2, TypesAre DEF ClientsAndConsumers, Shapes
<1>7. InboxFits'
  <2>1. state'[t] \notin Subscribed => inbox'[t] = <<>>
    <3>1. CASE Subscribe(t)
      BY <3>1, TypesAre DEF Subscribe, Subscribed, Shapes
    <3>2. CASE Receive(t)
      BY <3>2, TypesAre DEF Receive, Subscribed, Shapes
    <3>3. ASSUME NEW s \in Sockets, SendTo(t, s) \/ SendFails(t, s)
          PROVE  state'[t] \in Subscribed
      BY <3>3, TypesAre DEF SendTo, SendFails, Done, Subscribed, Shapes, Consistent, SendsWhatItHas
    <3>4. CASE Crash(t)
      BY <3>4, TypesAre DEF Crash, Shapes
    <3> QED
      BY <3>1, <3>2, <3>3, <3>4 DEF Consume
  <2> QED
    BY <1>1, <2>1 DEF InboxFits
<1>8. TodoFits'
  <2>1. \A s \in todo'[t] : channel[s] = channel[t]
    <3>1. CASE Receive(t)
      BY <3>1, TypesAre DEF Receive, MembersFit, Shapes
    <3>2. ASSUME NEW s \in Sockets, SendTo(t, s) \/ SendFails(t, s)
          PROVE  todo'[t] \subseteq todo[t]
      BY <3>2, TypesAre DEF SendTo, SendFails, Done, Shapes
    <3>3. CASE UNCHANGED todo
      BY <3>3 DEF TodoFits
    <3> QED
      BY <3>1, <3>2, <3>3 DEF Consume, Subscribe, Crash, TodoFits
  <2> QED
    BY <1>1, <2>1 DEF TodoFits
<1> QED
  BY <1>3, <1>4, <1>5, <1>6, <1>7, <1>8

LEMMA StepWiring == Safe /\ [ManagerNext]_managerVars => Wiring'
<1> SUFFICES ASSUME Safe, [ManagerNext]_managerVars
             PROVE  Wiring'
  OBVIOUS
<1>1. ASSUME NEW s \in Sockets, Connect(s) \/ Disconnect(s)
      PROVE  Wiring'
  <2>1. channel[s] \in Channels
    BY TypesAre DEF Safe, Shapes
  <2> QED
    BY <1>1, <2>1, ConnectWiring, DisconnectWiring
<1>2. ASSUME NEW t \in Sockets, Consume(t) \/ Crash(t)
      PROVE  Wiring'
  BY <1>2, TaskWiring
<1> USE DEF Wiring, NewIsIdle, MembersFit, MembersServed, TasksFit, InboxFits, TodoFits,
            OneConsumer, ClientsAndConsumers, Present, Safe
<1>3. ASSUME NEW s \in Sockets, Leave(s)
      PROVE  Wiring'
  <2>1. \A u \in Sockets : phase'[u] = IF u = s THEN "gone" ELSE phase[u]
    BY <1>3, TypesAre DEF Leave, Shapes
  <2> QED
    BY <1>3, <2>1 DEF Leave, taskVars, clientVars
<1>4. ASSUME NEW c \in Channels, Publish(c)
      PROVE  Wiring'
  BY <1>4 DEF Publish, Subscribers
<1>5. CASE UNCHANGED managerVars
  BY <1>5 DEF managerVars
<1> QED
  BY <1>1, <1>2, <1>3, <1>4, <1>5 DEF ManagerNext, Endpoint

\* Lemma: the strengthened invariant holds in every reachable state.
LEMMA AlwaysSafe == ManagerSpec => []Safe
<1>1. Safe /\ [ManagerNext]_managerVars => Safe'
  BY StepTypes, StepWiring DEF Safe
<1> QED
  BY InitSafe, <1>1, PTL DEF ManagerSpec

\* The manager's variables keep their types, and a consumer that sends has a
\* message and somebody to send it to.
THEOREM ManagerTypeCorrect == ManagerSpec => []ManagerTypeOK
<1>1. Safe => ManagerTypeOK
  BY DEF Safe
<1> QED
  BY AlwaysSafe, <1>1, PTL

\* connect and disconnect never leave a channel with two consumers, nor a
\* consumer without registration.
THEOREM OneConsumerPerChannel == ManagerSpec => []OneConsumer
<1>1. Safe => OneConsumer
  BY DEF Safe, Wiring
<1> QED
  BY AlwaysSafe, <1>1, PTL

\* A connected websocket is in its channel, which has a registered consumer,
\* and a registration has an endpoint that will end it.
THEOREM NobodyStranded == ManagerSpec => []ClientsAndConsumers
<1>1. Safe => ClientsAndConsumers
  BY DEF Safe, Wiring
<1> QED
  BY AlwaysSafe, <1>1, PTL

---------------------------------------------------------------------------
(* Sequences of messages                                                   *)

Increasing(q) == \A i, j \in 1..Len(q) : i < j => q[i] < q[j]

LEMMA AppendedMessage ==
  ASSUME NEW q \in Seq(Messages), NEW m \in Messages
  PROVE  /\ Range(Append(q, m)) = Range(q) \cup {m}
         /\ Increasing(q) /\ (\A n \in Range(q) : n < m) => Increasing(Append(q, m))
<1> DEFINE a == Append(q, m)
<1>1. /\ Len(a) = Len(q) + 1
      /\ \A i \in 1..Len(q) : a[i] = q[i]
      /\ a[Len(q) + 1] = m
      /\ Len(q) \in Nat
      /\ DOMAIN q = 1..Len(q)
      /\ DOMAIN a = 1..Len(a)
  OBVIOUS
<1> HIDE DEF a
<1>2. Range(a) = Range(q) \cup {m}
  BY <1>1 DEF Range
<1>3. ASSUME Increasing(q), \A n \in Range(q) : n < m
      PROVE  Increasing(a)
  <2> SUFFICES ASSUME NEW i \in 1..Len(a), NEW j \in 1..Len(a), i < j
               PROVE  a[i] < a[j]
    BY DEF Increasing
  <2>1. i \in 1..Len(q) /\ a[i] = q[i] /\ q[i] \in Range(q)
    BY <1>1 DEF Range
  <2>2. CASE j = Len(q) + 1
    BY <1>1, <1>3, <2>1, <2>2
  <2>3. CASE j # Len(q) + 1
    <3>1. j \in 1..Len(q) /\ a[j] = q[j]
      BY <1>1, <2>3
    <3> QED
      BY <1>3, <2>1, <3>1 DEF Increasing
  <2> QED
    BY <2>2, <2>3
<1> QED
  BY <1>2, <1>3 DEF a

LEMMA TakenMessage ==
  ASSUME NEW q \in Seq(Messages), q # <<>>
  PROVE  /\ Range(q) = {Head(q)} \cup Range(Tail(q))
         /\ Increasing(q) => /\ Increasing(Tail(q))
                             /\ \A n \in Range(Tail(q)) : Head(q) < n
<1> DEFINE r == Tail(q)
<1>1. /\ Len(q) \in Nat /\ Len(q) > 0
      /\ Len(r) = Len(q) - 1
      /\ \A i \in 1..Len(r) : r[i] = q[i + 1]
      /\ Head(q) = q[1]
      /\ DOMAIN q = 1..Len(q)
      /\ DOMAIN r = 1..Len(r)
  OBVIOUS
<1> HIDE DEF r
<1>2. Range(q) = {Head(q)} \cup Range(r)
  <2>1. ASSUME NEW n \in Range(q)
        PROVE  n \in {Head(q)} \cup Range(r)
    <3>1. PICK i \in 1..Len(q) : n = q[i]
      BY <1>1 DEF Range
    <3>2. CASE i = 1
      BY <1>1, <3>1, <3>2
    <3>3. CASE i # 1
      <4>1. i - 1 \in 1..Len(r) /\ r[i - 1] = q[i]
        BY <1>1, <3>3
      <4> QED
        BY <1>1, <3>1, <4>1 DEF Range
    <3> QED
      BY <3>2, <3>3
  <2>2. ASSUME NEW n \in {Head(q)} \cup Range(r)
        PROVE  n \in Range(q)
    <3>1. CASE n = Head(q)
      BY <1>1, <3>1 DEF Range
    <3>2. CASE n \in Range(r)
      <4>1. PICK i \in 1..Len(r) : n = r[i]
        BY <1>1, <3>2 DEF Range
      <4>2. i + 1 \in 1..Len(q) /\ n = q[i + 1]
        BY <1>1, <4>1
      <4> QED
        BY <1>1, <4>2 DEF Range
    <3> QED
      BY <3>1, <3>2
  <2> QED
    BY <2>1, <2>2
<1>3. ASSUME Increasing(q)
      PROVE  Increasing(r) /\ \A n \in Range(r) : Head(q) < n
  <2>1. ASSUME NEW i \in 1..Len(r), NEW j \in 1..Len(r), i < j
        PROVE  r[i] < r[j]
    <3>1. i + 1 \in 1..Len(q) /\ j + 1 \in 1..Len(q) /\ i + 1 < j + 1
      BY <1>1, <2>1
    <3> QED
      BY <1>1, <1>3, <3>1 DEF Increasing
  <2>2. ASSUME NEW n \in Range(r)
        PROVE  Head(q) < n
    <3>1. PICK i \in 1..Len(r) : n = r[i]
      BY <1>1, <2>2 DEF Range
    <3>2. i + 1 \in 1..Len(q) /\ 1 \in 1..Len(q) /\ 1 < i + 1
      BY <1>1
    <3> QED
      BY <1>1, <1>3, <3>1, <3>2 DEF Increasing
  <2> QED
    BY <2>1, <2>2 DEF Increasing
<1> QED
  BY <1>2, <1>3 DEF r

LEMMA NoMessage == Range(<<>>) = {} /\ Increasing(<<>>)
BY DEF Range, Increasing

LEMMA MessagesAre ==
  ASSUME NEW q \in Seq(Messages)
  PROVE  Range(q) \subseteq Messages
<1>1. DOMAIN q = 1..Len(q) /\ \A i \in 1..Len(q) : q[i] \in Messages
  OBVIOUS
<1> QED
  BY <1>1 DEF Range

---------------------------------------------------------------------------
(* The order of messages                                                   *)

InboxAhead ==
  \A t \in Sockets :
    /\ Increasing(inbox[t])
    /\ \A m \in Range(inbox[t]) : message[t] < m /\ m <= published[channel[t]]
MessagePublished == \A t \in Sockets : message[t] <= published[channel[t]]
ReceivedPublished ==
  \A s \in Sockets :
    /\ Increasing(received[s])
    /\ \A m \in Range(received[s]) : m <= published[channel[s]]
InboxUnseen ==
  \A s, t \in Sockets : channel[s] = channel[t] =>
    \A m \in Range(received[s]), n \in Range(inbox[t]) : m < n
TodoUnseen ==
  \A t \in Sockets : \A s \in todo[t] : \A m \in Range(received[s]) : m < message[t]

Order == InboxAhead /\ MessagePublished /\ ReceivedPublished /\ InboxUnseen /\ TodoUnseen

LEMMA InitOrder == ManagerInit => Order
<1> SUFFICES ASSUME ManagerInit
             PROVE  Order
  OBVIOUS
<1>1. \A s \in Sockets : inbox[s] = <<>> /\ received[s] = <<>> /\ message[s] = 0 /\ todo[s] = {}
  BY DEF ManagerInit
<1>2. \A s \in Sockets : published[channel[s]] = 0
  BY DEF ManagerInit
<1> QED
  BY <1>1, <1>2, NoMessage
     DEF Order, InboxAhead, MessagePublished, ReceivedPublished, InboxUnseen, TodoUnseen

LEMMA Values ==
  ASSUME Safe, NEW t \in Sockets
  PROVE  /\ message[t] \in Nat
         /\ published[channel[t]] \in Nat
         /\ channel[t] \in Channels
         /\ inbox[t] \in Seq(Messages)
         /\ received[t] \in Seq(Messages)
         /\ \A m \in Range(inbox[t]) \cup Range(received[t]) \cup Messages : m \in Nat /\ 0 < m
<1>1. Shapes
  BY TypesAre DEF Safe
<1>2. \A m \in Messages : m \in Nat /\ 0 < m
  BY ManagerAssumption DEF Messages
<1>3. message[t] \in Nat
  BY <1>1, <1>2 DEF Shapes
<1>4. published[channel[t]] \in Nat /\ channel[t] \in Channels
  BY <1>1, ManagerAssumption DEF Shapes
<1>5. inbox[t] \in Seq(Messages) /\ received[t] \in Seq(Messages)
  BY <1>1 DEF Shapes
<1> QED
  BY <1>2, <1>3, <1>4, <1>5, MessagesAre

\* What a step that neither publishes nor delivers may do to a consumer.
GivesUp ==
  /\ UNCHANGED <<channel, published, received>>
  /\ \A t \in Sockets :
       /\ inbox'[t] = inbox[t] \/ inbox'[t] = <<>>
       /\ \/ message'[t] = message[t] /\ \A s \in todo'[t] : s \in todo[t]
          \/ message'[t] = 0 /\ todo'[t] = {}

LEMMA GivesUpOrder == Safe /\ Order /\ GivesUp => Order'
<1> SUFFICES ASSUME Safe, Order, GivesUp
             PROVE  Order'
  OBVIOUS
<1> USE DEF Order, GivesUp
<1>1. InboxAhead'
  <2> SUFFICES ASSUME NEW t \in Sockets
               PROVE  /\ Increasing(inbox'[t])
                      /\ \A m \in Range(inbox'[t]) : message'[t] < m /\ m <= published[channel[t]]
    BY DEF InboxAhead
  <2>1. CASE inbox'[t] = inbox[t]
    BY <2>1, Values DEF InboxAhead
  <2>2. CASE inbox'[t] = <<>>
    BY <2>2, NoMessage
  <2> QED
    BY <2>1, <2>2
<1>2. MessagePublished'
  BY Values DEF MessagePublished
<1>3. ReceivedPublished'
  BY DEF ReceivedPublished
<1>4. InboxUnseen'
  BY NoMessage DEF InboxUnseen
<1>5. TodoUnseen'
  BY DEF TodoUnseen
<1> QED
  BY <1>1, <1>2, <1>3, <1>4, <1>5

LEMMA SendToOrder ==
  ASSUME Safe, Order, NEW t \in Sockets, NEW s \in Sockets, SendTo(t, s)
  PROVE  Order'
<1> USE DEF Safe
<1>1. /\ state[t] = "sending"
      /\ message[t] \in Messages
      /\ channel[s] = channel[t]
      /\ s \in todo[t]
      /\ registered[channel[t]] = t
  BY TypesAre DEF SendTo, Shapes, Consistent, SendsWhatItHas, Wiring, TodoFits, OneConsumer,
                  Running
<1>2. /\ UNCHANGED <<channel, published, inbox>>
      /\ \A u \in Sockets : u # s => received'[u] = received[u]
      /\ received'[s] = Append(received[s], message[t])
  BY TypesAre DEF SendTo, Done, Shapes
<1>3. \A u \in Sockets :
        /\ u # t => message'[u] = message[u] /\ todo'[u] = todo[u]
        /\ todo'[t] = todo[t] \ {s}
        /\ message'[t] = message[t] \/ (message'[t] = 0 /\ todo'[t] = {})
  <2>1. Done(t, s)
    BY DEF SendTo
  <2>2. CASE todo[t] = {s}
    BY <2>1, <2>2, TypesAre DEF Done, Shapes
  <2>3. CASE todo[t] # {s}
    BY <2>1, <2>3, TypesAre DEF Done, Shapes
  <2> QED
    BY <2>2, <2>3
<1>4. /\ Range(received'[s]) = Range(received[s]) \cup {message[t]}
      /\ Increasing(received'[s])
  <2>1. received[s] \in Seq(Messages)
    BY TypesAre DEF Shapes
  <2>2. Increasing(received[s]) /\ \A m \in Range(received[s]) : m < message[t]
    BY <1>1 DEF Order, ReceivedPublished, TodoUnseen
  <2> QED
    BY <1>1, <1>2, <2>1, <2>2, AppendedMessage
<1>5. InboxAhead'
  BY <1>2, <1>3, Values DEF Order, InboxAhead
<1>6. MessagePublished'
  <2> SUFFICES ASSUME NEW u \in Sockets
               PROVE  message'[u] <= published[channel[u]]
    BY <1>2 DEF MessagePublished
  <2>1. message'[u] = message[u] \/ message'[u] = 0
    BY <1>3
  <2> QED
    BY <2>1, Values DEF Order, MessagePublished
<1>7. ReceivedPublished'
  BY <1>1, <1>2, <1>4 DEF Order, ReceivedPublished, MessagePublished
<1>8. InboxUnseen'
  <2> SUFFICES ASSUME NEW u \in Sockets, NEW v \in Sockets, channel[u] = channel[v],
                      NEW m \in Range(received'[u]), NEW n \in Range(inbox[v])
               PROVE  m < n
    BY <1>2 DEF InboxUnseen
  <2>1. CASE m \in Range(received[u])
    BY <2>1 DEF Order, InboxUnseen
  <2>2. CASE u = s /\ m = message[t]
    <3>1. state[v] \in Subscribed
      BY NoMessage DEF Wiring, InboxFits
    <3>2. v = t
      BY <1>1, <2>2, <3>1 DEF Wiring, OneConsumer, Subscribed, Running
    <3> QED
      BY <2>2, <3>2 DEF Order, InboxAhead
  <2> QED
    BY <1>2, <1>4, <2>1, <2>2
<1>9. TodoUnseen'
  <2> SUFFICES ASSUME NEW u \in Sockets, NEW v \in todo'[u], NEW m \in Range(received'[v])
               PROVE  m < message'[u]
    BY DEF TodoUnseen
  <2>1. v \in todo[u] /\ message'[u] = message[u] /\ v \in Sockets
    BY <1>3, TypesAre DEF Shapes
  <2>2. v # s
    <3> SUFFICES ASSUME v = s
                 PROVE  FALSE
      OBVIOUS
    <3>1. state[u] = "sending" /\ channel[u] = channel[t]
      BY <1>1, <2>1, TypesAre DEF Consistent, SendsWhatItHas, Wiring, TodoFits
    <3>2. u = t
      BY <1>1, <3>1 DEF Wiring, OneConsumer, Running
    <3> QED
      BY <1>3, <3>2
  <2> QED
    BY <1>2, <2>1, <2>2 DEF Order, TodoUnseen
<1> QED
  BY <1>5, <1>6, <1>7, <1>8, <1>9 DEF Order

LEMMA ReceiveOrder ==
  ASSUME Safe, Order, NEW t \in Sockets, Receive(t)
  PROVE  Order'
<1> USE DEF Safe
<1>1. /\ inbox[t] \in Seq(Messages) /\ inbox[t] # <<>>
      /\ message[t] = 0
      /\ UNCHANGED <<channel, published, received>>
      /\ \A u \in Sockets :
           /\ u # t => inbox'[u] = inbox[u] /\ message'[u] = message[u] /\ todo'[u] = todo[u]
           /\ inbox'[t] = Tail(inbox[t])
           /\ todo'[t] = members[channel[t]]
           /\ \/ message'[t] = Head(inbox[t])
              \/ message'[t] = 0 /\ todo'[t] = {}
  BY TypesAre DEF Receive, Shapes, Consistent, SendsWhatItHas, clientVars
<1>2. /\ Range(inbox[t]) = {Head(inbox[t])} \cup Range(inbox'[t])
      /\ Increasing(inbox'[t])
      /\ \A n \in Range(inbox'[t]) : Head(inbox[t]) < n
  BY <1>1, TakenMessage DEF Order, InboxAhead
<1>3. InboxAhead'
  BY <1>1, <1>2, Values DEF Order, InboxAhead
<1>4. MessagePublished'
  BY <1>1, <1>2, Values DEF Order, InboxAhead, MessagePublished
<1>5. ReceivedPublished'
  BY <1>1 DEF Order, ReceivedPublished
<1>6. InboxUnseen'
  BY <1>1, <1>2 DEF Order, InboxUnseen
<1>7. TodoUnseen'
  <2> SUFFICES ASSUME NEW u \in Sockets, NEW s \in todo'[u], NEW m \in Range(received[s])
               PROVE  m < message'[u]
    BY <1>1 DEF TodoUnseen
  <2>1. CASE u # t
    BY <1>1, <2>1 DEF Order, TodoUnseen
  <2>2. CASE u = t
    <3>1. s \in Sockets /\ channel[s] = channel[t]
      BY <1>1, <2>2, TypesAre DEF Wiring, MembersFit, Shapes
    <3> QED
      BY <1>1, <1>2, <2>2, <3>1 DEF Order, InboxUnseen
  <2> QED
    BY <2>1, <2>2
<1> QED
  BY <1>3, <1>4, <1>5, <1>6, <1>7 DEF Order

LEMMA PublishOrder ==
  ASSUME Safe, Order, NEW c \in Channels, Publish(c)
  PROVE  Order'
<1> USE DEF Safe
<1> DEFINE n == published[c] + 1
<1>1. /\ published[c] \in Nat /\ n \in Messages
      /\ UNCHANGED <<channel, message, todo, received>>
      /\ \A d \in Channels : published'[d] = IF d = c THEN n ELSE published[d]
  BY TypesAre, ManagerAssumption DEF Publish, Shapes, Messages
<1>2. \A t \in Sockets :
        /\ published[channel[t]] <= published'[channel[t]]
        /\ channel[t] = c => published[channel[t]] < n /\ published'[channel[t]] = n
  BY <1>1, Values
<1>0. \A t \in Sockets : inbox'[t] = IF t \in Subscribers(c) THEN Append(inbox[t], n)
                                     ELSE inbox[t]
  BY DEF Publish
<1> HIDE DEF n
<1>3. \A t \in Sockets : inbox'[t] = inbox[t] \/
        /\ channel[t] = c
        /\ Range(inbox'[t]) = Range(inbox[t]) \cup {n}
        /\ Increasing(inbox'[t])
  <2> SUFFICES ASSUME NEW t \in Sockets, inbox'[t] # inbox[t]
               PROVE  /\ channel[t] = c
                      /\ Range(inbox'[t]) = Range(inbox[t]) \cup {n}
                      /\ Increasing(inbox'[t])
    OBVIOUS
  <2>1. channel[t] = c /\ inbox'[t] = Append(inbox[t], n) /\ inbox[t] \in Seq(Messages)
    BY <1>0, TypesAre DEF Shapes, Subscribers
  <2>2. Increasing(inbox[t]) /\ \A m \in Range(inbox[t]) : m < n
    <3>1. /\ Increasing(inbox[t])
          /\ \A m \in Range(inbox[t]) : m \in Nat /\ m <= published[channel[t]]
          /\ published[channel[t]] \in Nat
      BY Values DEF Order, InboxAhead
    <3> QED
      BY <1>1, <1>2, <2>1, <3>1 DEF n
  <2> QED
    BY <1>1, <2>1, <2>2, AppendedMessage
<1>5. InboxAhead'
  <2> SUFFICES ASSUME NEW t \in Sockets
               PROVE  /\ Increasing(inbox'[t])
                      /\ \A m \in Range(inbox'[t]) :
                           message[t] < m /\ m <= published'[channel[t]]
    BY <1>1 DEF InboxAhead
  <2>1. /\ Increasing(inbox[t])
        /\ \A m \in Range(inbox[t]) :
             m \in Nat /\ message[t] < m /\ m <= published[channel[t]]
        /\ message[t] <= published[channel[t]]
    BY Values DEF Order, InboxAhead, MessagePublished
  <2>2. /\ message[t] \in Nat /\ published[channel[t]] \in Nat
        /\ published'[channel[t]] \in Nat
    BY <1>1, Values
  <2>3. CASE inbox'[t] = inbox[t]
    BY <1>2, <2>1, <2>2, <2>3
  <2>4. CASE inbox'[t] # inbox[t]
    BY <1>2, <1>3, <2>1, <2>2, <2>4
  <2> QED
    BY <2>3, <2>4
<1>6. MessagePublished'
  BY <1>1, <1>2, Values DEF Order, MessagePublished
<1>7. ReceivedPublished'
  <2> SUFFICES ASSUME NEW s \in Sockets
               PROVE  /\ Increasing(received[s])
                      /\ \A m \in Range(received[s]) : m <= published'[channel[s]]
    BY <1>1 DEF ReceivedPublished
  <2>1. /\ Increasing(received[s])
        /\ \A m \in Range(received[s]) : m \in Nat /\ m <= published[channel[s]]
        /\ published[channel[s]] \in Nat /\ published'[channel[s]] \in Nat
    BY <1>1, Values DEF Order, ReceivedPublished
  <2> QED
    BY <1>2, <2>1
<1>8. InboxUnseen'
  <2> SUFFICES ASSUME NEW s \in Sockets, NEW t \in Sockets, channel[s] = channel[t],
                      NEW m \in Range(received[s]), NEW k \in Range(inbox'[t])
               PROVE  m < k
    BY <1>1 DEF InboxUnseen
  <2>1. CASE k \in Range(inbox[t])
    BY <2>1 DEF Order, InboxUnseen
  <2>2. CASE k = n /\ channel[t] = c
    <3>1. m \in Nat /\ m <= published[channel[s]] /\ published[channel[s]] \in Nat
      BY Values DEF Order, ReceivedPublished
    <3> QED
      BY <1>1, <1>2, <2>2, <3>1 DEF n
  <2> QED
    BY <1>3, <2>1, <2>2
<1>9. TodoUnseen'
  BY <1>1 DEF Order, TodoUnseen
<1> QED
  BY <1>5, <1>6, <1>7, <1>8, <1>9 DEF Order

LEMMA StepOrder == Safe /\ Order /\ [ManagerNext]_managerVars => Order'
<1> SUFFICES ASSUME Safe, Order, [ManagerNext]_managerVars
             PROVE  Order'
  OBVIOUS
<1> USE DEF GivesUp, clientVars, taskVars
<1>1. ASSUME NEW s \in Sockets, Connect(s) \/ Leave(s)
      PROVE  GivesUp
  BY <1>1 DEF Connect, Leave
<1>2. ASSUME NEW s \in Sockets, Disconnect(s)
      PROVE  GivesUp
  BY <1>2, TypesAre DEF Disconnect, Cancel, Safe, Shapes
<1>3. ASSUME NEW t \in Sockets, Subscribe(t) \/ Crash(t)
      PROVE  GivesUp
  BY <1>3, TypesAre DEF Subscribe, Crash, Safe, Shapes
<1>4. ASSUME NEW t \in Sockets, NEW s \in Sockets, SendFails(t, s)
      PROVE  GivesUp
  BY <1>4, TypesAre DEF SendFails, Done, Safe, Shapes
<1>5. CASE UNCHANGED managerVars
  BY <1>5, GivesUpOrder DEF managerVars
<1> QED
  BY <1>1, <1>2, <1>3, <1>4, <1>5, GivesUpOrder, SendToOrder, ReceiveOrder, PublishOrder
     DEF ManagerNext, Endpoint, Consume

\* However consumers are cancelled, crash and are replaced, a client gets
\* messages in the order of their publication and none twice (_consume).
THEOREM InOrder == ManagerSpec => []ReceivedInOrder
<1>1. Safe /\ Order /\ [ManagerNext]_managerVars /\ Safe' => Order'
  BY StepOrder
<1>2. Order => ReceivedInOrder
  BY DEF Order, ReceivedPublished, Increasing, ReceivedInOrder
<1> QED
  BY AlwaysSafe, InitOrder, <1>1, <1>2, PTL DEF ManagerSpec

---------------------------------------------------------------------------
(* No message is lost                                                      *)

\* m has reached s or is with the consumer t for s.
Kept(s, t, m) ==
  \/ m \in Range(received[s])
  \/ m \in Range(inbox[t])
  \/ m = message[t] /\ s \in todo[t]

LEMMA StepMissed == Safe /\ Safe' /\ NothingIsMissed /\ [ManagerNext]_managerVars => NothingIsMissed'
<1> SUFFICES ASSUME Safe, Safe', NothingIsMissed, [ManagerNext]_managerVars,
                    NEW s \in Sockets, NEW t, t = registered'[channel'[s]],
                    phase'[s] = "open", state'[t] \in Subscribed,
                    NEW m \in Messages, since'[s] < m, from'[t] < m,
                    m <= published'[channel'[s]]
             PROVE  Kept(s, t, m)'
  BY DEF NothingIsMissed, Kept
<1> USE DEF clientVars, taskVars
<1>1. UNCHANGED channel
  BY DEF ManagerNext, managerVars, Endpoint, Consume, Connect, Leave, Disconnect, Subscribe,
         Receive, SendTo, SendFails, Crash, Publish
<1>2. Shapes /\ Shapes'
  BY TypesAre DEF Safe, ManagerTypeOK, Shapes
<1>3. channel[s] \in Channels /\ t \in Sockets /\ channel[t] = channel[s]
  <2>1. channel[s] \in Channels
    BY <1>2 DEF Shapes
  <2>2. t # NoTask
    BY <1>1 DEF Safe, Wiring, ClientsAndConsumers
  <2>3. t \in Sockets
    BY <1>1, <1>2, <2>1, <2>2 DEF Shapes
  <2> QED
    BY <1>1, <2>1, <2>2, <2>3 DEF Safe, Wiring, TasksFit
<1>4. /\ message[t] \in Nat
      /\ m \in Nat /\ 0 < m
      /\ published[channel[s]] \in Nat
      /\ inbox[t] \in Seq(Messages) /\ received[s] \in Seq(Messages)
  BY <1>3, Values
<1>5. ASSUME phase[s] = "open", registered[channel[s]] = t, state[t] \in Subscribed,
             since[s] < m, from[t] < m, m <= published[channel[s]]
      PROVE  Kept(s, t, m)
  BY <1>5 DEF NothingIsMissed, Kept
<1>6. ASSUME NEW u \in Sockets, Connect(u)
      PROVE  Kept(s, t, m)'
  <2>1. s # u
    <3> SUFFICES ASSUME s = u
                 PROVE  FALSE
      OBVIOUS
    <3>1. since'[s] = published[channel[s]] /\ published' = published
      BY <1>2, <1>6 DEF Connect, Shapes
    <3> QED
      BY <1>1, <1>4, <3>1
  <2>2. phase[s] = "open" /\ since'[s] = since[s]
    BY <1>2, <1>6, <2>1 DEF Connect, Shapes
  <2>3. registered[channel[s]] # NoTask
    BY <2>2 DEF Safe, Wiring, ClientsAndConsumers
  <2>4. registered[channel[s]] = t
    <3>1. CASE registered[channel[u]] = NoTask
      <4>1. registered' = [registered EXCEPT ![channel[u]] = u] /\ channel[u] # channel[s]
        BY <1>6, <2>3, <3>1 DEF Connect
      <4> QED
        BY <1>1, <1>2, <1>3, <4>1 DEF Shapes
    <3>2. CASE registered[channel[u]] # NoTask
      BY <1>1, <1>6, <3>2 DEF Connect
    <3> QED
      BY <3>1, <3>2
  <2>5. state[t] \in Subscribed
    BY <1>2, <1>3, <1>6 DEF Connect, Shapes, Subscribed
  <2>6. UNCHANGED <<inbox, message, todo, from, published, received>>
    BY <1>6 DEF Connect
  <2> QED
    BY <1>1, <1>5, <2>2, <2>4, <2>5, <2>6 DEF Kept
<1>7. ASSUME NEW u \in Sockets, Leave(u)
      PROVE  Kept(s, t, m)'
  BY <1>1, <1>2, <1>5, <1>7 DEF Leave, Kept, Shapes
<1>8. ASSUME NEW u \in Sockets, Disconnect(u)
      PROVE  Kept(s, t, m)'
  <2>1. /\ phase[s] = "open"
        /\ UNCHANGED <<from, published, received, since>>
    BY <1>2, <1>8 DEF Disconnect, Cancel, Shapes
  <2>2. CASE UNCHANGED <<registered, taskVars>>
    BY <1>1, <1>5, <2>1, <2>2 DEF Kept
  <2>3. CASE /\ registered[channel[u]] # NoTask
             /\ registered' = [registered EXCEPT ![channel[u]] = NoTask]
             /\ Cancel(registered[channel[u]])
    <3> DEFINE w == registered[channel[u]]
    <3>1. w \in Sockets /\ channel[w] = channel[u] /\ channel[u] \in Channels
      BY <1>2, <2>3 DEF Shapes, Safe, Wiring, TasksFit
    <3>2. channel[s] # channel[u] /\ registered[channel[s]] = t
      BY <1>1, <1>2, <1>3, <2>3, <3>1, ManagerAssumption DEF Shapes
    <3>3. t # w
      BY <1>3, <3>1, <3>2
    <3>4. state'[t] = state[t] /\ inbox'[t] = inbox[t] /\ message'[t] = message[t] /\ todo'[t] = todo[t]
      BY <1>2, <1>3, <2>3, <3>1, <3>3 DEF Cancel, Shapes
    <3> QED
      BY <1>1, <1>5, <2>1, <3>2, <3>4 DEF Kept
  <2> QED
    BY <1>8, <2>2, <2>3 DEF Disconnect
<1>9. ASSUME NEW u \in Sockets, Consume(u) \/ Crash(u)
      PROVE  Kept(s, t, m)'
  <2>1. UNCHANGED <<phase, registered, published, since>>
    BY <1>9 DEF Consume, Subscribe, Receive, SendTo, SendFails, Crash
  <2>2. CASE Subscribe(u)
    <3>1. u # t
      BY <1>1, <1>2, <1>3, <1>4, <2>1, <2>2 DEF Subscribe, Shapes
    <3> QED
      BY <1>1, <1>2, <1>3, <1>5, <2>1, <2>2, <3>1 DEF Subscribe, Shapes, Kept
  <2>3. CASE Crash(u)
    BY <1>1, <1>2, <1>3, <1>5, <2>1, <2>3 DEF Crash, Shapes, Kept, Subscribed
  <2>4. CASE Receive(u)
    <3>1. state[t] \in Subscribed
      <4>1. CASE u = t
        BY <2>4, <4>1 DEF Receive, Subscribed
      <4>2. CASE u # t
        <5>1. state'[t] = state[t]
          BY <1>2, <1>3, <2>4, <4>2 DEF Receive, Shapes
        <5> QED
          BY <5>1
      <4> QED
        BY <4>1, <4>2
    <3>2. Kept(s, t, m)
      BY <1>1, <1>5, <2>1, <2>4, <3>1 DEF Receive
    <3>3. CASE u # t
      BY <1>2, <1>3, <2>4, <3>2, <3>3 DEF Receive, Shapes, Kept
    <3>4. CASE u = t
      <4>1. message[t] = 0 /\ inbox[t] # <<>>
        BY <1>2, <1>3, <2>4, <3>4, TypesAre
           DEF Receive, Safe, Consistent, SendsWhatItHas
      <4>2. s \in members[channel[t]]
        BY <1>3, <2>1 DEF Safe, Wiring, ClientsAndConsumers
      <4>3. /\ received' = received
            /\ inbox'[t] = Tail(inbox[t])
            /\ message'[t] = Head(inbox[t])
            /\ todo'[t] = members[channel[t]]
        BY <1>2, <1>3, <2>4, <3>4, <4>2 DEF Receive, Shapes
      <4> QED
        BY <1>4, <3>2, <4>1, <4>2, <4>3, TakenMessage DEF Kept
    <3> QED
      BY <3>3, <3>4
  <2>5. ASSUME NEW v \in Sockets, SendTo(u, v) \/ SendFails(u, v)
        PROVE  Kept(s, t, m)'
    <3>1. v \in todo[u] /\ Done(u, v) /\ inbox' = inbox /\ from' = from
      BY <2>5 DEF SendTo, SendFails, Done
    <3>2. state[u] = "sending"
      BY <3>1, TypesAre DEF Safe, Consistent, SendsWhatItHas
    <3>3. ASSUME u # t
           PROVE  state'[t] = state[t] /\ message'[t] = message[t] /\ todo'[t] = todo[t]
      <4>1. todo'[t] = todo[t]
        BY <1>2, <1>3, <3>1, <3>3 DEF Done, Shapes
      <4>2. \/ UNCHANGED <<state, message>>
            \/ /\ state' = [state EXCEPT ![u] = "listening"]
               /\ message' = [message EXCEPT ![u] = 0]
        BY <3>1 DEF Done
      <4>3. state'[t] = state[t] /\ message'[t] = message[t]
        BY <1>2, <1>3, <3>3, <4>2 DEF Shapes
      <4> QED
        BY <4>1, <4>2, <4>3
    <3>4. state[t] \in Subscribed
      BY <3>2, <3>3 DEF Subscribed
    <3>5. Kept(s, t, m)
      BY <1>1, <1>5, <2>1, <3>1, <3>4
    <3>6. \/ received'[s] = received[s] /\ (s # v \/ u # t)
          \/ received'[s] = Append(received[s], message[u]) /\ s = v
      BY <1>2, <2>1, <2>5 DEF SendTo, SendFails, Shapes
    <3>7. message[u] \in Messages
      BY <1>2, <3>2, TypesAre DEF Shapes, Safe, Consistent, SendsWhatItHas
    <3>8. Range(received[s]) \subseteq Range(received'[s])
      BY <1>4, <3>6, <3>7, AppendedMessage
    <3>9. CASE m \in Range(received[s]) \/ m \in Range(inbox[t])
      BY <3>1, <3>8, <3>9 DEF Kept
    <3>10. CASE m = message[t] /\ s \in todo[t]
      <4>1. CASE u # t
        BY <3>10, <3>3, <4>1 DEF Kept
      <4>2. CASE u = t /\ s # v
        <5>1. todo[t] # {v}
          BY <3>10, <4>2
        <5>2. message'[t] = message[t] /\ s \in todo'[t]
          BY <1>2, <1>3, <3>1, <3>10, <4>2, <5>1 DEF Done, Shapes
        <5> QED
          BY <3>10, <5>2 DEF Kept
      <4>3. CASE u = t /\ s = v
        <5>1. received'[s] = Append(received[s], message[t])
          BY <3>6, <4>3
        <5>2. m \in Range(received'[s])
          BY <1>4, <3>10, <5>1, AppendedMessage
        <5> QED
          BY <5>2 DEF Kept
      <4> QED
        BY <4>1, <4>2, <4>3
    <3> QED
      BY <3>5, <3>9, <3>10 DEF Kept
  <2> QED
    BY <1>9, <2>2, <2>3, <2>4, <2>5 DEF Consume
<1>10. ASSUME NEW c \in Channels, Publish(c)
      PROVE  Kept(s, t, m)'
  <2>1. /\ UNCHANGED <<phase, registered, state, message, todo, from, received, since>>
        /\ \A u \in Sockets : inbox'[u] = IF u \in Subscribers(c)
                                            THEN Append(inbox[u], published[c] + 1) ELSE inbox[u]
    BY <1>10 DEF Publish
  <2>2. published[c] + 1 \in Messages /\ published[c] \in Nat
    BY <1>2, <1>10, ManagerAssumption DEF Publish, Shapes, Messages
  <2>3. Range(inbox[t]) \subseteq Range(inbox'[t])
    BY <1>3, <1>4, <2>1, <2>2, AppendedMessage
  <2>4. CASE m <= published[channel[s]]
    <3>1. Kept(s, t, m)
      BY <1>1, <1>5, <2>1, <2>4
    <3> QED
      BY <2>1, <2>3, <3>1 DEF Kept
  <2>5. CASE ~(m <= published[channel[s]])
    <3>1. channel[s] = c /\ m = published[c] + 1
      BY <1>1, <1>2, <1>3, <1>4, <1>10, <2>2, <2>5 DEF Publish, Shapes
    <3>2. t \in Subscribers(c)
      BY <1>3, <2>1, <3>1 DEF Subscribers
    <3> QED
      BY <1>3, <1>4, <2>1, <2>2, <3>1, <3>2, AppendedMessage DEF Kept
  <2> QED
    BY <2>4, <2>5
<1>11. CASE UNCHANGED managerVars
  BY <1>5, <1>11 DEF managerVars, Kept
<1> QED
  BY <1>6, <1>7, <1>8, <1>9, <1>10, <1>11 DEF ManagerNext, Endpoint

\* What is published while a client is connected and its consumer subscribed
\* reaches the client or is with the consumer (connect, disconnect, _consume):
\* no fan-out, failed send or replaced consumer loses it.
THEOREM NoneMissed == ManagerSpec => []NothingIsMissed
<1>1. ManagerInit => NothingIsMissed
  BY DEF ManagerInit, NothingIsMissed
<1> QED
  BY AlwaysSafe, <1>1, StepMissed, PTL DEF ManagerSpec
=============================================================================
