----------------------------- MODULE Addresses -----------------------------
(***************************************************************************)
(* The address book of one user (AddressViewSet in apps/users/views.py).   *)
(* The user has several devices; each sends one request at a time.  The    *)
(* views open no transaction, so every statement commits on its own, other *)
(* requests come in between, and a worker that dies leaves half of them.   *)
(***************************************************************************)
EXTENDS FiniteSets

CONSTANTS
  Addresses,  \* the ids addresses can get
  Devices     \* the clients of the user

VARIABLES
  entry,      \* Address: absent, alive or deleted, with kind and is_default
  doing,      \* what each device's request is about to do
  overlapped, \* a request of another device ran at the same time
  chosen      \* the default that was chosen last, while no request has come since

addressVars == <<entry, doing, overlapped, chosen>>

AddressKinds == {"shipping", "billing"}
NoRow == [life |-> "absent", kind |-> "shipping", is_default |-> FALSE]
NoRequest == [does |-> "nothing"]
NoChoice == [kind |-> "none"]

Steps ==
  [does : {"clear_others", "clear_kind", "set_default"}, address : Addresses, kind : AddressKinds]
    \cup [does : {"save"}, address : Addresses, kind : AddressKinds, is_default : BOOLEAN]

AddressesTypeOK ==
  /\ entry \in [Addresses -> [life : {"absent", "alive", "deleted"}, kind : AddressKinds,
                            is_default : BOOLEAN]]
  /\ doing \in [Devices -> Steps \cup {NoRequest}]
  /\ overlapped \in [Devices -> BOOLEAN]
  /\ chosen \in [kind : AddressKinds, address : Addresses] \cup {NoChoice}

AddressesInit ==
  /\ entry = [a \in Addresses |-> NoRow]
  /\ doing = [d \in Devices |-> NoRequest]
  /\ overlapped = [d \in Devices |-> FALSE]
  /\ chosen = NoChoice

---------------------------------------------------------------------------

Underway == {d \in Devices : doing[d] # NoRequest}

\* The default addresses of a kind, as get_queryset shows them.
Defaults(kind) ==
  {a \in Addresses : entry[a].life = "alive" /\ entry[a].kind = kind /\ entry[a].is_default}

NotCleared(as, kind) == entry

\* UPDATE ... SET is_default = false WHERE kind = kind, of the addresses in as.
Cleared(as, kind) ==
  [a \in Addresses |->
     IF a \in as \cap Defaults(kind) THEN [entry[a] EXCEPT !.is_default = FALSE] ELSE entry[a]]

\* A request arrives: whatever was chosen before may change now.
Arrive(d) ==
  /\ doing[d] = NoRequest
  /\ overlapped' = [other \in Devices |->
                      IF other = d THEN Underway # {} ELSE overlapped[other] \/ other \in Underway]
  /\ chosen' = NoChoice

Continue(d, step) ==
  /\ doing' = [doing EXCEPT ![d] = step]
  /\ UNCHANGED overlapped

\* The request has made its address the default of the kind.
Chosen(d, a, kind) ==
  chosen' = IF overlapped[d] THEN NoChoice ELSE [kind |-> kind, address |-> a]

\* perform_create: the new address is inserted first.
Create(d, a, kind, is_default) ==
  /\ Arrive(d)
  /\ entry[a].life = "absent"
  /\ entry' = [entry EXCEPT ![a] = [life |-> "alive", kind |-> kind, is_default |-> is_default]]
  /\ doing' = IF is_default
                THEN [doing EXCEPT ![d] = [does |-> "clear_others", address |-> a, kind |-> kind]]
                ELSE doing

ClearOthers(d) ==
  LET r == doing[d] IN
  /\ r.does = "clear_others"
  /\ entry' = Cleared(Addresses \ {r.address}, r.kind)
  /\ Continue(d, NoRequest)
  /\ Chosen(d, r.address, r.kind)

\* make_default: get_object, then clear the kind it saw, then set.
MakeDefault(d, a) ==
  /\ Arrive(d)
  /\ entry[a].life = "alive"
  /\ doing' = [doing EXCEPT ![d] =
                   [does |-> "clear_kind", address |-> a, kind |-> entry[a].kind]]
  /\ UNCHANGED entry

ClearKind(d) ==
  LET r == doing[d] IN
  /\ r.does = "clear_kind"
  /\ entry' = Cleared(Addresses, r.kind)
  /\ Continue(d, [r EXCEPT !.does = "set_default"])
  /\ UNCHANGED chosen

\* save(update_fields=["is_default"]) writes the one column, on a row that may
\* have been deleted or moved to another kind by now.
SetDefault(d) ==
  LET r == doing[d] IN
  /\ r.does = "set_default"
  /\ entry' = [entry EXCEPT ![r.address].is_default = TRUE]
  /\ Continue(d, NoRequest)
  /\ Chosen(d, r.address, r.kind)

\* PUT and PATCH: get_object, then save() of every column, deleted_at included;
\* kind and is_default are writable and no other address is cleared.
Update(d, a, kind, is_default) ==
  /\ Arrive(d)
  /\ entry[a].life = "alive"
  /\ doing' = [doing EXCEPT ![d] =
                   [does |-> "save", address |-> a, kind |-> kind, is_default |-> is_default]]
  /\ UNCHANGED entry

Save(d) ==
  LET r == doing[d] IN
  /\ r.does = "save"
  /\ entry' = [entry EXCEPT ![r.address] =
               [life |-> "alive", kind |-> r.kind, is_default |-> r.is_default]]
  /\ Continue(d, NoRequest)
  /\ UNCHANGED chosen

\* DELETE stamps deleted_at, in one statement.
Destroy(d, a) ==
  /\ Arrive(d)
  /\ entry[a].life = "alive"
  /\ entry' = [entry EXCEPT ![a].life = "deleted"]
  /\ UNCHANGED doing

\* The worker dies between two statements.
Abandon(d) ==
  /\ d \in Underway
  /\ Continue(d, NoRequest)
  /\ UNCHANGED <<entry, chosen>>

AddressesNext ==
  \E d \in Devices :
    \/ \E a \in Addresses, kind \in AddressKinds, is_default \in BOOLEAN :
         Create(d, a, kind, is_default) \/ Update(d, a, kind, is_default)
    \/ \E a \in Addresses : MakeDefault(d, a) \/ Destroy(d, a)
    \/ ClearOthers(d) \/ ClearKind(d) \/ SetDefault(d) \/ Save(d) \/ Abandon(d)

AddressesSpec == AddressesInit /\ [][AddressesNext]_addressVars

---------------------------------------------------------------------------
(* Property                                                                *)

\* An address chosen as default, by a request that ran alone, is the one default
\* of its kind until the next request: whatever earlier requests that overlapped,
\* died halfway or patched is_default left behind, choosing again repairs it
\* (make_default and perform_create).
LastChoiceStands ==
  chosen # NoChoice => Defaults(chosen.kind) = {chosen.address}
=============================================================================
