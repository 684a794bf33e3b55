------------------------------ MODULE ApiKeys ------------------------------
(***************************************************************************)
(* The API keys: the key operations of AuthService                         *)
(* (internal/service/auth_service.go), their table                         *)
(* (internal/store/apikey_store.go) and the checks requests undergo        *)
(* (internal/middleware/apikey_auth.go, ip_whitelist.go).                  *)
(*                                                                         *)
(* Requests are checked against keyCache, a map of the active rows that    *)
(* refreshKeyCache builds and swaps in.  An operation changes the table,   *)
(* reads the active rows, and swaps the new map in; nothing keeps two      *)
(* operations of two administrators' requests apart, and a failing read    *)
(* leaves the old map while the operation still reports success.  A        *)
(* request of a game server is checked in two steps, which go by one entry *)
(* of one map: ApiKeyAuth looks the key up, IPWhitelist judges the address *)
(* by what the first found.  A session in the place of a key passes both;  *)
(* sessions are the subject of AdminAccount.                               *)
(***************************************************************************)
EXTENDS Integers

CONSTANTS
    Worker,         \* the goroutines of administrators' requests
    Caller,         \* the goroutines of requests that bring a key
    Id, Key,        \* the ids AUTOINCREMENT and the keys rand.Read hand out
    Address,        \* client addresses
    Whitelists,     \* the whitelists administrators set; {} admits everyone
    None,           \* no row, no entry
    MaxFailures     \* bound of the model: failing reads of the table

ASSUME Assumptions ==
    /\ Whitelists \subseteq SUBSET Address
    /\ MaxFailures \in Nat
    /\ \A i \in Id, k \in Key, a \in SUBSET Address :
          None # [key |-> k, ips |-> a] /\ None # [id |-> i, ips |-> a]
    /\ \A k \in Key, a \in Address, ips \in SUBSET Address, b, c \in BOOLEAN :
          None # [key |-> k, address |-> a, ips |-> ips, passed |-> b, sure |-> c]

VARIABLES
    table,      \* table[i]: key and whitelist of the row, None without one
    usedIds,    \* the ids that were ever given
    usedKeys,   \* the keys that were ever generated
    cache,      \* keyCache: cache[k] is id and whitelist, or None
    pc,         \* pc[w]: where the operation is
    snapshot,   \* snapshot[w]: the map the operation has built
    alone,      \* alone[w]: no other operation has run beside it (history)
    settled,    \* the last refresh was of an operation that ran alone
    past,       \* the maps the table has stood for since a refresh last
                \* settled, or the start (history)
    request,    \* request[q]: what the middleware keeps of a request
    failures    \* failed reads (history)

ops  == <<pc, snapshot, alone>>
vars == <<table, usedIds, usedKeys, cache, ops, settled, past, request, failures>>

Row   == [key : Key, ips : SUBSET Address]
Entry == [id : Id, ips : SUBSET Address]
Map   == [Key -> Entry \cup {None}]
Empty == [k \in Key |-> None]

(* A request whose key was found: the key, the client's address, the       *)
(* whitelist of the entry, whether IPWhitelist has let it pass, and        *)
(* whether the map was settled and no operation has begun since (history). *)
Request == [key : Key, address : Address, ips : SUBSET Address,
            passed : BOOLEAN, sure : BOOLEAN]

(* The rows have ids and keys that were given out, and no two rows the same *)
(* key.                                                                    *)
RowsGivenOut(rows, ids, keys) ==
    \A i, j \in Id : rows[i] # None =>
        /\ i \in ids /\ rows[i].key \in keys
        /\ rows[j] # None /\ rows[i].key = rows[j].key => i = j

(* Types, and the UNIQUE constraints of the table. *)
TypeOK ==
    /\ table \in [Id -> Row \cup {None}]
    /\ usedIds \subseteq Id /\ usedKeys \subseteq Key
    /\ RowsGivenOut(table, usedIds, usedKeys)
    /\ cache \in Map
    /\ pc \in [Worker -> {"idle", "changed", "read"}]
    /\ snapshot \in [Worker -> Map]
    /\ alone \in [Worker -> BOOLEAN] /\ settled \in BOOLEAN
    /\ past \subseteq Map
    /\ request \in [Caller -> Request \cup {None}]
    /\ failures \in 0..MaxFailures

-----------------------------------------------------------------------------

(* The map the active rows stand for, indexed by key.  Lines 252-269; a    *)
(* row is never made inactive and two rows never have the same key.        *)
ActiveKeys(rows) ==
    [k \in Key |->
        LET holders == {i \in Id : rows[i] # None /\ rows[i].key = k}
        IN  IF holders = {} THEN None
            ELSE LET i == CHOOSE j \in holders : TRUE
                 IN  [id |-> i, ips |-> rows[i].ips]]

IPMatchesWhitelist(address, ips) == ips = {} \/ address \in ips

Admits(k, address) == cache[k] # None /\ IPMatchesWhitelist(address, cache[k].ips)

Init ==
    /\ table = [i \in Id |-> None]
    /\ usedIds = {} /\ usedKeys = {}
    /\ cache = Empty
    /\ pc = [w \in Worker |-> "idle"]
    /\ snapshot = [w \in Worker |-> Empty]
    /\ alone = [w \in Worker |-> FALSE]
    /\ settled = TRUE
    /\ past = {Empty}
    /\ request = [q \in Caller |-> None]
    /\ failures = 0

-----------------------------------------------------------------------------
(* The statement an operation starts with; when it fails the operation     *)
(* returns the error and nothing has happened.                             *)

Change(w, rows) ==
    /\ pc[w] = "idle"
    /\ table' = rows
    /\ past' = past \cup {ActiveKeys(rows)}
    /\ pc' = [pc EXCEPT ![w] = "changed"]
    /\ alone' = [v \in Worker |->
                    IF v = w THEN \A u \in Worker \ {w} : pc[u] = "idle" ELSE FALSE]
    /\ settled' = FALSE
    /\ request' = [q \in Caller |->
                      IF request[q] = None THEN None ELSE [request[q] EXCEPT !.sure = FALSE]]
    /\ UNCHANGED <<cache, snapshot, failures>>

CreateApiKey(w, i, k) ==
    /\ i \notin usedIds /\ k \notin usedKeys
    /\ usedIds' = usedIds \cup {i}
    /\ usedKeys' = usedKeys \cup {k}
    /\ Change(w, [table EXCEPT ![i] = [key |-> k, ips |-> {}]])

MutantResetApiKey(w, i, k) ==
    /\ i \in usedIds
    /\ usedKeys' = usedKeys \cup {k}
    /\ Change(w, IF table[i] = None THEN table ELSE [table EXCEPT ![i].key = k])
    /\ UNCHANGED usedIds

(* UpdateHash changes nothing when there is no row with that id. *)
ResetApiKey(w, i, k) ==
    /\ i \in usedIds /\ k \notin usedKeys
    /\ usedKeys' = usedKeys \cup {k}
    /\ Change(w, IF table[i] = None THEN table ELSE [table EXCEPT ![i].key = k])
    /\ UNCHANGED usedIds

DeleteApiKey(w, i) ==
    /\ i \in usedIds
    /\ Change(w, [table EXCEPT ![i] = None])
    /\ UNCHANGED <<usedIds, usedKeys>>

UpdateApiKeyWhitelist(w, i, ips) ==
    /\ i \in usedIds
    /\ Change(w, IF table[i] = None THEN table ELSE [table EXCEPT ![i].ips = ips])
    /\ UNCHANGED <<usedIds, usedKeys>>

-----------------------------------------------------------------------------
(* refreshKeyCache.                                                        *)

(* GetActive returns the rows, and the new map is built from them. *)
MutantReadActive(w) ==
    /\ pc[w] = "changed"
    /\ pc' = [pc EXCEPT ![w] = "read"]
    /\ snapshot' = [snapshot EXCEPT ![w] = cache]
    /\ UNCHANGED <<table, usedIds, usedKeys, cache, alone, settled, past, request, failures>>

ReadActive(w) ==
    /\ pc[w] = "changed"
    /\ pc' = [pc EXCEPT ![w] = "read"]
    /\ snapshot' = [snapshot EXCEPT ![w] = ActiveKeys(table)]
    /\ UNCHANGED <<table, usedIds, usedKeys, cache, alone, settled, past, request, failures>>

(* GetActive fails: the old map stays, the operation reports success. *)
ReadActiveFails(w) ==
    /\ pc[w] = "changed"
    /\ failures < MaxFailures
    /\ failures' = failures + 1
    /\ pc' = [pc EXCEPT ![w] = "idle"]
    /\ UNCHANGED <<table, usedIds, usedKeys, cache, snapshot, alone, settled, past, request>>

(* The new map replaces the old one, whatever has happened since the read. *)
MutantInstall(w) ==
    /\ pc[w] = "read"
    /\ cache' = [k \in Key |-> IF snapshot[w][k] # None THEN snapshot[w][k] ELSE cache[k]]
    /\ pc' = [pc EXCEPT ![w] = "idle"]
    /\ snapshot' = [snapshot EXCEPT ![w] = Empty]
    /\ settled' = alone[w]
    /\ past' = IF alone[w] THEN {ActiveKeys(table)} ELSE past
    /\ UNCHANGED <<table, usedIds, usedKeys, alone, request, failures>>

Install(w) ==
    /\ pc[w] = "read"
    /\ cache' = snapshot[w]
    /\ pc' = [pc EXCEPT ![w] = "idle"]
    /\ snapshot' = [snapshot EXCEPT ![w] = Empty]
    /\ settled' = alone[w]
    /\ past' = IF alone[w] THEN {ActiveKeys(table)} ELSE past
    /\ UNCHANGED <<table, usedIds, usedKeys, alone, request, failures>>

(* The process ends and starts: NewAuthService fills the map anew, or     *)
(* leaves it empty when GetActive fails.                                   *)
Restart ==
    /\ pc' = [w \in Worker |-> "idle"]
    /\ snapshot' = [w \in Worker |-> Empty]
    /\ alone' = [w \in Worker |-> FALSE]
    /\ past' = {ActiveKeys(table)}
    /\ request' = [q \in Caller |-> None]
    /\ \/ cache' = ActiveKeys(table) /\ settled' = TRUE /\ UNCHANGED failures
       \/ /\ failures < MaxFailures /\ failures' = failures + 1
          /\ cache' = Empty /\ settled' = FALSE
    /\ UNCHANGED <<table, usedIds, usedKeys>>

-----------------------------------------------------------------------------
(* A request of a game server.                                             *)

(* ApiKeyAuth: the map is loaded once, and the entry is the one the rest   *)
(* of the request goes by.  A key that is not there ends the request.      *)
ValidateApiKey(q, k, address) ==
    /\ request[q] = None
    /\ cache[k] # None
    /\ request' = [request EXCEPT ![q] =
                      [key |-> k, address |-> address, ips |-> cache[k].ips,
                       passed |-> FALSE, sure |-> settled]]
    /\ UNCHANGED <<table, usedIds, usedKeys, cache, ops, settled, past, failures>>

(* The address is judged by the entry, whatever map is in force by now.    *)
IPWhitelist(q) ==
    /\ request[q] # None /\ ~request[q].passed
    /\ request' = [request EXCEPT ![q] =
                      IF IPMatchesWhitelist(@.address, @.ips)
                      THEN [@ EXCEPT !.passed = TRUE] ELSE None]
    /\ UNCHANGED <<table, usedIds, usedKeys, cache, ops, settled, past, failures>>

(* The handler answers. *)
Answer(q) ==
    /\ request[q] # None /\ request[q].passed
    /\ request' = [request EXCEPT ![q] = None]
    /\ UNCHANGED <<table, usedIds, usedKeys, cache, ops, settled, past, failures>>

Next ==
    \/ \E w \in Worker, i \in Id :
          \/ \E k \in Key : CreateApiKey(w, i, k) \/ ResetApiKey(w, i, k)
          \/ DeleteApiKey(w, i)
          \/ \E ips \in Whitelists : UpdateApiKeyWhitelist(w, i, ips)
    \/ \E w \in Worker : ReadActive(w) \/ ReadActiveFails(w) \/ Install(w)
    \/ \E q \in Caller :
          \/ \E k \in Key, address \in Address : ValidateApiKey(q, k, address)
          \/ IPWhitelist(q) \/ Answer(q)
    \/ Restart

Spec == Init /\ [][Next]_vars

-----------------------------------------------------------------------------
(* Properties.                                                             *)

Quiet == \A w \in Worker : pc[w] = "idle"

(* An operation that ran alone and whose read succeeded leaves the map     *)
(* equal to the table, however stale the map was before it: staleness is   *)
(* repaired, and only overlapping operations or failing reads cause it.    *)
AloneRefreshSettles == settled => Quiet /\ cache = ActiveKeys(table)

(* The map requests are checked against is, as a whole, one the table has  *)
(* stood for since the last undisturbed refresh: never a mixture of two    *)
(* states, never an invented key, and never older than that refresh, with  *)
(* whatever overlaps and failures came after it.                           *)
MapIsWhole == cache \in past \cup {Empty}

(* A request that found its key while the map was settled is let through   *)
(* only if the table has a row of that key that admits its address, until  *)
(* an administrator's next operation begins.                               *)
AdmittedByTable ==
    \A q \in Caller :
        request[q] # None /\ request[q].passed /\ request[q].sure =>
            \E i \in Id : /\ table[i] # None /\ table[i].key = request[q].key
                          /\ IPMatchesWhitelist(request[q].address, table[i].ips)

(* Table, map and their operations are a book of keys and its copy.        *)
KeyBook == INSTANCE KeyBook
    WITH Book <- Map, Nobody <- Empty,
         book <- ActiveKeys(table), served <- cache, since <- past

ImplementsKeyBook == KeyBook!Spec

(* What deleting or resetting a key reports: when no operation is running  *)
(* a key without a row admits nobody.                                      *)
RevokedKeyRefused ==
    Quiet => \A k \in Key, a \in Address :
                Admits(k, a) => \E i \in Id : table[i] # None /\ table[i].key = k

=============================================================================
