--------------------------- MODULE CatalogCache ----------------------------
(***************************************************************************)
(* The cached reads of the FastAPI catalog (fastapi_app/api/v1/catalog.py):*)
(* list_categories, list_brands and product_detail look into Redis, ask    *)
(* the database statement by statement when there is nothing, and put the  *)
(* answer into Redis with a time to live.  Nobody invalidates an entry     *)
(* when staff edit the catalog.  Requests are coroutines and may stop at   *)
(* every await: each statement and each call of Redis is a step.           *)
(*                                                                         *)
(* A table stands for the rows that one statement selects; its contents    *)
(* are told apart by how often they were edited.                           *)
(***************************************************************************)
EXTENDS Naturals, Sequences

CONSTANTS
  Requests,    \* requests served at one time
  Keys,        \* the endpoints in use, each with one cache key
  Ttl,         \* time to live of an endpoint's entries
  Encodable,   \* the keys whose answers orjson can encode, which depends on the driver
  Longest,     \* the longest a request takes from its first statement to its end
  MaxTime,     \* bound on the clock
  MaxEdits     \* bound on the edits of a table

ASSUME CatalogAssumption ==
  /\ Keys \subseteq {"categories", "brands", "product"}
  /\ Encodable \subseteq Keys
  /\ Ttl \in [Keys -> Nat \ {0}]
  /\ Longest \in Nat /\ MaxTime \in Nat /\ MaxEdits \in Nat

VARIABLES
  clock,
  replaced,  \* replaced[t][v + 1] is when version v of table t was edited away
  selected,  \* the tables whose statement selects at least one row now
  cache,     \* Redis: an answer and the moment it expires
  request    \* what each request has read so far

cacheVars == <<clock, replaced, selected, cache, request>>

\* What each endpoint asks the database, one statement after the other.
CategoryStatements == <<"categories">>
BrandStatements == <<"brands">>
ProductStatements == <<"product", "variants", "images">>

Statements ==
  [categories |-> CategoryStatements, brands |-> BrandStatements,
   product |-> ProductStatements]

Tables == UNION {{Statements[k][i] : i \in DOMAIN Statements[k]} : k \in Keys}

\* The tables for which it matters whether their statement selects anything.
Decisive == {Statements[k][1] : k \in Keys}

Nothing == [answer |-> <<>>, expires |-> 0]
NoKey == "none"
Idle == [key |-> NoKey, read |-> <<>>, since |-> 0]

\* The result of one statement as it is now.
Result(t) == [version |-> Len(replaced[t]), empty |-> t \notin selected]

\* _cache_get and the test of what it returns: an empty list counts as none.
Hit(k) ==
  /\ cache[k] # Nothing
  /\ k = "product" \/ ~cache[k].answer[1].empty

Complete(r) == Len(request[r].read) = Len(Statements[request[r].key])

CacheInit ==
  /\ clock = 0
  /\ replaced = [t \in Tables |-> <<>>]
  /\ selected = Tables
  /\ cache = [k \in Keys |-> Nothing]
  /\ request = [r \in Requests |-> Idle]

---------------------------------------------------------------------------
(* Operations                                                              *)

\* Staff save a form; the rows a statement selects may become none or some.
EditCatalog(t) ==
  /\ Len(replaced[t]) < MaxEdits
  /\ replaced' = [replaced EXCEPT ![t] = Append(@, clock)]
  /\ selected' \in {selected \cup {t}, selected \ ({t} \cap Decisive)}
  /\ UNCHANGED <<clock, cache, request>>

\* Time passes, and Redis drops what has expired.
Tick ==
  /\ clock < MaxTime
  /\ \A r \in Requests : request[r] # Idle => clock < request[r].since + Longest
  /\ clock' = clock + 1
  /\ cache' = [k \in Keys |-> IF cache[k].expires <= clock + 1 THEN Nothing ELSE cache[k]]
  /\ UNCHANGED <<replaced, selected, request>>

\* A request that finds nothing in Redis, or no Redis, turns to the database;
\* one that finds an answer is over.
Miss(r, k) ==
  /\ request[r] = Idle
  /\ request' = [request EXCEPT ![r] = [key |-> k, read |-> <<>>, since |-> clock]]
  /\ UNCHANGED <<clock, replaced, selected, cache>>

\* The next statement.  Without a product the detail ends with 404.
Select(r) ==
  /\ request[r] # Idle
  /\ ~Complete(r)
  /\ LET now == request[r]
         result == Result(Statements[now.key][Len(now.read) + 1])
     IN  request' = [request EXCEPT ![r] =
           IF now.key = "product" /\ now.read = <<>> /\ result.empty
           THEN Idle
           ELSE [now EXCEPT !.read = Append(@, result)]]
  /\ UNCHANGED <<clock, replaced, selected, cache>>

StoreForGood(r) ==
  /\ request[r] # Idle
  /\ Complete(r)
  /\ request[r].key \in Encodable
  /\ cache' = [cache EXCEPT ![request[r].key] =
                 [answer |-> request[r].read, expires |-> MaxTime + 1]]
  /\ request' = [request EXCEPT ![r] = Idle]
  /\ UNCHANGED <<clock, replaced, selected>>

\* _cache_set, and the answer to the client.  What cannot be encoded or sent
\* to Redis is not stored, and nobody is told.
Store(r) ==
  /\ request[r] # Idle
  /\ Complete(r)
  /\ LET k == request[r].key
     IN  \/ /\ k \in Encodable
            /\ cache' = [cache EXCEPT ![k] =
                 [answer |-> request[r].read, expires |-> clock + Ttl[k]]]
         \/ UNCHANGED cache
  /\ request' = [request EXCEPT ![r] = Idle]
  /\ UNCHANGED <<clock, replaced, selected>>

CacheNext ==
  \/ \E t \in Tables : EditCatalog(t)
  \/ Tick
  \/ \E r \in Requests, k \in Keys : Miss(r, k)
  \/ \E r \in Requests : Select(r) \/ Store(r)

CacheSpec == CacheInit /\ [][CacheNext]_cacheVars

---------------------------------------------------------------------------
(* Properties                                                              *)

Results == [version : 0..MaxEdits, empty : BOOLEAN]

CacheTypeOK ==
  /\ clock \in 0..MaxTime
  /\ replaced \in [Tables -> Seq(0..MaxTime)]
  /\ selected \subseteq Tables
  /\ cache \in [Keys -> [answer : Seq(Results), expires : Nat]]
  /\ request \in [Requests -> [key : Keys \cup {NoKey}, read : Seq(Results), since : Nat]]

\* The i-th part of an answer for k was still right less than the given time ago.
RightWithin(k, answer, i, time) ==
  LET t == Statements[k][i]
  IN  answer[i].version < Len(replaced[t]) =>
        clock <= replaced[t][answer[i].version + 1] + time

\* Whatever edits happen between the statements of a request, and however
\* requests overlap and overwrite each other's entries, no part of an answer
\* given from Redis was edited away longer ago than the time to live and the
\* longest request allow (_cache_set with its ttl; product_detail).
AnswersAreRecent ==
  \A k \in Keys :
    Hit(k) => \A i \in DOMAIN cache[k].answer :
                RightWithin(k, cache[k].answer, i, Ttl[k] + Longest)
=============================================================================
