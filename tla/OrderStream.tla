---------------------------- MODULE OrderStream ----------------------------
(***************************************************************************)
(* What websocket clients are told about one order                         *)
(* (apps/orders/signals.py, apps/realtime/consumers.py).                   *)
(*                                                                         *)
(* Saving an OrderEvent sends its order's status to the groups             *)
(* order.<id> and user.<id> at once, while the transaction that writes it  *)
(* is still open.  The steps of a transaction are therefore apart here:    *)
(* lock, the webhook's own event, check, write and send, commit or roll    *)
(* back.  Staff write the status without an event, and add events without  *)
(* a lock.  The channel layer (Redis) keeps a queue for every socket.      *)
(***************************************************************************)
EXTENDS Naturals, Sequences, FiniteSets

CONSTANTS
  Writers,     \* transactions that move the order
  Sockets,     \* websockets
  Followers,   \* those of them on /ws/orders/<id>/; the others are on /ws/me/
  MaxQueue     \* bound on the queue of a socket

Nobody == "nobody"

ASSUME StreamAssumption ==
  /\ Followers \subseteq Sockets
  /\ MaxQueue \in Nat
  /\ Nobody \notin Writers

VARIABLES
  saved,     \* Order.status as committed, "none" before checkout
  writing,   \* the status each transaction writes, and how far it is
  holder,    \* the transaction that holds the lock of the order row
  group,     \* the sockets in order.<id> or user.<id>
  queue,     \* what the channel layer keeps for each socket
  told,      \* the status a client was told last
  lost,      \* the clients for which a message was lost since they joined
  note,      \* the status read for an event that staff add, or "nothing"
  upsets,    \* what came between the events and the status: a transaction "undone"
             \* after its event was sent, a status "forced" off its path by hand, an
             \* event added with an "outdated" status
  silent     \* whether the status was changed last without an event

streamVars == <<saved, writing, holder, group, queue, told, lost, note, upsets, silent>>

Quiet == [stage |-> "quiet", to |-> "nothing"]

\* Order.ALLOWED_TRANSITIONS
Allowed ==
  [none |-> {"pending"}, pending |-> {"paid", "cancelled"},
   paid |-> {"packed", "cancelled", "refunded"},
   packed |-> {"shipped", "cancelled", "refunded"},
   shipped |-> {"delivered", "refunded"}, delivered |-> {"refunded"},
   cancelled |-> {}, refunded |-> {}]

Statuses == DOMAIN Allowed

\* Checkout, and the transitions that transition_status is called for.
Written == {"pending", "paid", "cancelled", "refunded"}

\* The statuses an order can still reach: those in every set that has the
\* allowed ones and, with a status, all that is allowed from there.
Later ==
  LET Closed == {S \in SUBSET Statuses : \A s \in S : Allowed[s] \subseteq S}
  IN  [s \in Statuses |->
         {t \in Statuses : \A S \in Closed : Allowed[s] \subseteq S => t \in S}]

Onward(s) == {s} \cup Later[s]

StreamInit ==
  /\ saved = "none"
  /\ writing = [w \in Writers |-> Quiet]
  /\ holder = Nobody
  /\ group = {}
  /\ queue = [s \in Sockets |-> <<>>]
  /\ told = [s \in Sockets |-> "nothing"]
  /\ lost = {}
  /\ note = "nothing"
  /\ upsets = {}
  /\ silent = FALSE

---------------------------------------------------------------------------
(* Transactions                                                            *)

BeginUnlocked(w, to) ==
  /\ writing[w] = Quiet
  /\ to \in Allowed[saved]
  /\ writing' = [writing EXCEPT ![w] = [stage |-> "checked", to |-> to]]
  /\ UNCHANGED <<saved, holder, group, queue, told, lost, note, upsets, silent>>

\* Other callers than the webhook: select_for_update and can_transition_to of
\* transition_status; for checkout, the INSERT of an order that nobody else sees.
Begin(w, to) ==
  /\ writing[w] = Quiet
  /\ holder = Nobody
  /\ to \in Allowed[saved]
  /\ holder' = w
  /\ writing' = [writing EXCEPT ![w] = [stage |-> "checked", to |-> to]]
  /\ UNCHANGED <<saved, group, queue, told, lost, note, upsets, silent>>

\* group_send: to every member of the group, unless its queue is full.
Send(members, message) ==
  /\ queue' = [s \in Sockets |->
       IF s \in members /\ Len(queue[s]) < MaxQueue
       THEN Append(queue[s], message) ELSE queue[s]]
  /\ lost' = lost \cup {s \in group : queue'[s] = queue[s]}

\* handle_webhook locks the order, and its own event is sent with the status as
\* it is ...
Hear(w) ==
  /\ writing[w] = Quiet
  /\ holder = Nobody /\ saved # "none"
  /\ holder' = w
  /\ writing' = [writing EXCEPT ![w] = [stage |-> "heard", to |-> saved]]
  /\ \E members \in {{}, group \cap Followers, group} : Send(members, saved)
  /\ silent' = FALSE
  /\ UNCHANGED <<saved, group, told, note, upsets>>

\* ... before transition_status checks what the notice asks for.
Proceed(w, to) ==
  /\ writing[w].stage = "heard"
  /\ to \in Allowed[saved]
  /\ writing' = [writing EXCEPT ![w] = [stage |-> "checked", to |-> to]]
  /\ UNCHANGED <<saved, holder, group, queue, told, lost, note, upsets, silent>>

WriteOldStatus(w) ==
  /\ writing[w].stage = "checked"
  /\ holder \in {w, Nobody}
  /\ holder' = w
  /\ writing' = [writing EXCEPT ![w].stage = "written"]
  /\ \E members \in {{}, group \cap Followers, group} : Send(members, saved)
  /\ UNCHANGED <<saved, group, told, note, upsets, silent>>

\* order.save and OrderEvent.objects.create with broadcast_order_event: the
\* order's group, then the user's; an error ends the sending and is logged.
Write(w) ==
  /\ writing[w].stage = "checked"
  /\ holder \in {w, Nobody}
  /\ holder' = w
  /\ writing' = [writing EXCEPT ![w].stage = "written"]
  /\ \E members \in {{}, group \cap Followers, group} : Send(members, writing[w].to)
  /\ UNCHANGED <<saved, group, told, note, upsets, silent>>

\* A webhook that moves nothing, or whose capture fails, which is logged, commits
\* the status as it was.
Commit(w) ==
  /\ writing[w].stage \in {"heard", "written"}
  /\ saved' = writing[w].to
  /\ writing' = [writing EXCEPT ![w] = Quiet]
  /\ holder' = Nobody
  /\ silent' = FALSE
  /\ UNCHANGED <<group, queue, told, lost, note, upsets>>

\* What follows the event in the transaction fails: the payments' UPDATE of
\* handle_webhook, emptying the cart at checkout, the COMMIT.
RollBack(w) ==
  /\ writing[w].stage # "quiet"
  /\ upsets' = IF writing[w].stage = "written" THEN upsets \cup {"undone"} ELSE upsets
  /\ writing' = [writing EXCEPT ![w] = Quiet]
  /\ holder' = IF holder = w THEN Nobody ELSE holder
  /\ UNCHANGED <<saved, group, queue, told, lost, note, silent>>

\* OrderAdmin: its form saves any status, chosen or left as it was shown, waits
\* for the row's lock and writes no event.
SetByHand(new) ==
  /\ holder = Nobody /\ saved # "none"
  /\ saved' = new
  /\ upsets' = IF new \in Onward(saved) THEN upsets ELSE upsets \cup {"forced"}
  /\ silent' = (silent \/ new # saved)
  /\ UNCHANGED <<writing, holder, group, queue, told, lost, note>>

\* OrderEventAdmin: the form of a new event reads the order as it is committed ...
ReadForEvent ==
  /\ note = "nothing" /\ saved # "none"
  /\ note' = saved
  /\ UNCHANGED <<saved, writing, holder, group, queue, told, lost, upsets, silent>>

\* ... and the event is sent with that status, without a lock.
AddEvent ==
  /\ note # "nothing"
  /\ note' = "nothing"
  /\ \E members \in {{}, group \cap Followers, group} : Send(members, note)
  /\ upsets' = IF note = saved /\ \A w \in Writers : writing[w].stage # "written"
               THEN upsets ELSE upsets \cup {"outdated"}
  /\ UNCHANGED <<saved, writing, holder, group, told, silent>>

---------------------------------------------------------------------------
(* Sockets                                                                 *)

Join(s) ==
  /\ s \notin group
  /\ group' = group \cup {s}
  /\ UNCHANGED <<saved, writing, holder, queue, told, lost, note, upsets, silent>>

\* OrderStatusConsumer.connect by the buyer, who must own the order, which must
\* be there to be owned.
Follow(s) == s \in Followers /\ saved # "none" /\ Join(s)

\* UserFirehoseConsumer.connect
Subscribe(s) == s \notin Followers /\ Join(s)

\* order_event
Tell(s) ==
  /\ queue[s] # <<>>
  /\ told' = [told EXCEPT ![s] = Head(queue[s])]
  /\ queue' = [queue EXCEPT ![s] = Tail(@)]
  /\ UNCHANGED <<saved, writing, holder, group, lost, note, upsets, silent>>

\* The layer drops what was not fetched for a minute.
Expire(s) ==
  /\ queue[s] # <<>>
  /\ queue' = [queue EXCEPT ![s] = Tail(@)]
  /\ lost' = lost \cup {s}
  /\ UNCHANGED <<saved, writing, holder, group, told, note, upsets, silent>>

\* disconnect
Disconnect(s) ==
  /\ s \in group
  /\ group' = group \ {s}
  /\ queue' = [queue EXCEPT ![s] = <<>>]
  /\ told' = [told EXCEPT ![s] = "nothing"]
  /\ lost' = lost \ {s}
  /\ UNCHANGED <<saved, writing, holder, note, upsets, silent>>

StreamNext ==
  \/ \E w \in Writers, to \in Written : Begin(w, to)
  \/ \E w \in Writers, to \in Written \ {"pending"} : Proceed(w, to)
  \/ \E w \in Writers : Hear(w) \/ Write(w) \/ Commit(w) \/ RollBack(w)
  \/ \E new \in Statuses \ {"none"} : SetByHand(new)
  \/ ReadForEvent \/ AddEvent
  \/ \E s \in Sockets : Follow(s) \/ Subscribe(s) \/ Tell(s) \/ Expire(s) \/ Disconnect(s)

StreamSpec == StreamInit /\ [][StreamNext]_streamVars

---------------------------------------------------------------------------
(* Properties                                                              *)

StreamTypeOK ==
  /\ saved \in Statuses
  /\ writing \in [Writers -> [stage : {"quiet", "heard", "checked", "written"},
                            to : Statuses \cup {"nothing"}]]
  /\ holder \in Writers \cup {Nobody}
  /\ \A w \in Writers : writing[w] # Quiet => holder = w
  /\ group \subseteq Sockets /\ lost \subseteq group
  /\ queue \in [Sockets -> Seq(Statuses)]
  /\ told \in [Sockets -> Statuses \cup {"nothing"}]
  /\ note \in Statuses \cup {"nothing"}
  /\ upsets \subseteq {"undone", "forced", "outdated"} /\ silent \in BOOLEAN

\* All a client has been told or will be told.
Stream(s) == IF told[s] = "nothing" THEN queue[s] ELSE <<told[s]>> \o queue[s]

\* Though events leave before their transactions commit, the webhook sends one
\* of its own before each transition, and some are lost on the way, no client
\* sees an order go back in its life (broadcast_order_event under the row lock of
\* handle_webhook and transition_status), until a transaction is undone after its
\* event, staff force the status off its path, or an event they add carries a
\* status that changed meanwhile.
StreamGoesForward ==
  upsets = {} =>
    \A s \in Sockets : \A i, j \in DOMAIN Stream(s) :
      i < j => Stream(s)[j] \in Onward(Stream(s)[i])

\* A client that has lost nothing ends up with the committed status, also after
\* staff forced it: once no transaction has a write open, the last thing it is
\* told is what a query would say, unless the status was set by the admin form
\* last, which tells nobody, a transaction was undone after its event, or an
\* event was added with an outdated status (broadcast_order_event; the payload's
\* status is the locked row's).
LastWordIsTrue ==
  (upsets \subseteq {"forced"} /\ ~silent
     /\ \A w \in Writers : writing[w].stage # "written") =>
    \A s \in group \ lost : Stream(s) # <<>> => Stream(s)[Len(Stream(s))] = saved
=============================================================================
