------------------------------ MODULE Accounts ------------------------------
(***************************************************************************)
(* Registration (RegisterSerializer, UserManager and the post_save signal  *)
(* of apps/users).  The serializer looks for the address as it was typed,  *)
(* create_user stores it with the domain in lower case, and the unique     *)
(* index has the last word.  The view opens no transaction: account,       *)
(* wishlist and role are three commits, and a worker can die in between.   *)
(***************************************************************************)
EXTENDS FiniteSets

CONSTANTS
  Visitors,    \* people who register, once each
  Emails,      \* e-mail addresses as they are typed
  Normalized   \* normalize_email of each

ASSUME NormalizedAssumption ==
  /\ Normalized \in [Emails -> Emails]
  /\ \A e \in Emails : Normalized[Normalized[e]] = Normalized[e]

VARIABLES
  accounts,   \* User.email of every row
  wishlists,  \* the accounts that have a wishlist
  customers,  \* the accounts that have the role "customer"
  seeded,     \* the role exists (seed_roles)
  visit       \* where each registration is

accountVars == <<accounts, wishlists, customers, seeded, visit>>

Stages == {"away", "checked", "inserted", "signalled", "welcome", "roleless", "refused", "dead"}

AccountsTypeOK ==
  /\ accounts \subseteq Emails /\ wishlists \subseteq accounts /\ customers \subseteq accounts
  /\ seeded \in BOOLEAN
  /\ visit \in [Visitors -> [stage : Stages, email : Emails]]

AccountsInit ==
  /\ accounts = {} /\ wishlists = {} /\ customers = {}
  /\ seeded = FALSE
  /\ visit \in [Visitors -> [stage : {"away"}, email : Emails]]

---------------------------------------------------------------------------

Go(v, stage) == visit' = [visit EXCEPT ![v].stage = stage]

Unnormalized(e) == e

\* UserManager.normalize_email
Stored(e) == Normalized[e]

\* The uniqueness validator of the serializer's email field (400).
Check(v) ==
  /\ visit[v].stage = "away"
  /\ Go(v, IF visit[v].email \in accounts THEN "refused" ELSE "checked")
  /\ UNCHANGED <<accounts, wishlists, customers, seeded>>

\* create_user: the insert, which the unique index may refuse (IntegrityError).
Insert(v) ==
  LET e == Stored(visit[v].email) IN
  /\ visit[v].stage = "checked"
  /\ Go(v, IF e \in accounts THEN "refused" ELSE "inserted")
  /\ accounts' = accounts \cup {e}
  /\ UNCHANGED <<wishlists, customers, seeded>>

\* post_save of a created user: create_wishlist.
Signal(v) ==
  /\ visit[v].stage = "inserted"
  /\ Go(v, "signalled")
  /\ wishlists' = wishlists \cup {Stored(visit[v].email)}
  /\ UNCHANGED <<accounts, customers, seeded>>

\* RegisterSerializer.create adds the role, if it has been seeded, and answers.
AddRole(v) ==
  /\ visit[v].stage = "signalled"
  /\ Go(v, IF seeded THEN "welcome" ELSE "roleless")
  /\ customers' = IF seeded THEN customers \cup {Stored(visit[v].email)} ELSE customers
  /\ UNCHANGED <<accounts, wishlists, seeded>>

\* The worker dies between two commits.
Perish(v) ==
  /\ visit[v].stage \in {"checked", "inserted", "signalled"}
  /\ Go(v, "dead")
  /\ UNCHANGED <<accounts, wishlists, customers, seeded>>

\* The management command, run by the deployment.
SeedRoles ==
  /\ seeded' = TRUE
  /\ UNCHANGED <<accounts, wishlists, customers, visit>>

AccountsNext ==
  \/ \E v \in Visitors : Check(v) \/ Insert(v) \/ Signal(v) \/ AddRole(v) \/ Perish(v)
  \/ SeedRoles

AccountsSpec == AccountsInit /\ [][AccountsNext]_accountVars

---------------------------------------------------------------------------
(* Property                                                                *)

\* Whoever is told "created" owns the account alone, whatever way others typed
\* the same address at the same time, and it is whole: it has its wishlist and,
\* if the role existed when it was asked for, its role.
OneWholeAccountEach ==
  \A v \in Visitors :
    LET e == Normalized[visit[v].email] IN
    visit[v].stage \in {"welcome", "roleless"} =>
      /\ e \in accounts \cap wishlists
      /\ visit[v].stage = "welcome" => e \in customers
      /\ \A other \in Visitors \ {v} :
           visit[other].stage \in {"inserted", "signalled", "welcome", "roleless"} =>
             Normalized[visit[other].email] # e
=============================================================================
