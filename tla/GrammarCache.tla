---------------------------- MODULE GrammarCache ----------------------------
(***************************************************************************)
(* The process-wide cache of decoded grammars                              *)
(* (grammars/embedded_loader.go): a map of entries by blob name, a         *)
(* container/list in order of use, a limit, idle eviction and the janitor  *)
(* goroutine behind it.                                                    *)
(*                                                                         *)
(* A load takes the entry under the mutex, decodes it outside of it (once  *)
(* per entry) and records the use under the mutex again; whatever the      *)
(* cache is told in between sees an entry that is in the map and not in    *)
(* the list.  Every critical section is one step.                          *)
(***************************************************************************)
EXTENDS Integers, FiniteSets

CONSTANTS
  Blobs,      \* names of grammar blobs
  Flaky,      \* those whose read or decode may fail
  Entries,    \* identities of embeddedLanguageCacheEntry objects
  Callers,    \* goroutines that load grammars
  Root,       \* the sentinel element of the list
  Nil,        \* nil
  Limits,     \* arguments of SetEmbeddedLanguageCacheLimit (below 0: unlimited)
  TTLs,       \* arguments of SetEmbeddedLanguageIdleTTL (0: no idle eviction)
  Sweeps,     \* arguments of SetEmbeddedLanguageIdleSweepInterval
  FirstSweep, \* the interval until it is called
  MaxIdle,    \* idle times above it are not told apart
  MaxChanges  \* bound on the calls that configure or empty the cache

ASSUME FlakyAreBlobs == Flaky \subseteq Blobs
ASSUME FiniteEntries == IsFiniteSet(Entries) /\ IsFiniteSet(Blobs)
ASSUME NoSuchEntry == Root \notin Entries /\ Nil \notin Entries /\ Root # Nil
ASSUME NoSuchBlob == Nil \notin Blobs
ASSUME LimitValues == Limits \subseteq Int
ASSUME TTLsAreTold == TTLs \subseteq Nat /\ MaxIdle \in Nat /\ \A d \in TTLs : d < MaxIdle
ASSUME SweepValues == Sweeps \subseteq Nat \ {0} /\ FirstSweep \in Sweeps
ASSUME ChangesBound == MaxChanges \in Nat

Never == -1   \* lastAccess is the zero time

VARIABLES
  store,      \* the map, the lruNode fields and the list, see Empty
  blob,       \* blob[e]: blobName, Nil while e is not allocated
  decoded,    \* decoded[e]: "no", "ok" (lang set) or "bad" (err set)
  idle,       \* idle[e]: time since lastAccess
  limit,      \* embeddedLanguageLimit
  ttl,        \* embeddedLanguageIdleTTL
  sweep,      \* embeddedLanguageIdleSweep
  janitor,    \* the running janitor: alive, its interval, time to its next tick
  stopping,   \* a stopped janitor has not left its loop yet
  holds,      \* holds[c]: the entry caller c is loading
  changes,    \* calls counted against MaxChanges
  incidents   \* history: what recording a use met that it does not handle

entryVars == <<blob, decoded, idle>>
configVars == <<limit, ttl, sweep, janitor, stopping>>
vars == <<store, blob, decoded, idle, limit, ttl, sweep, janitor, stopping,
          holds, changes, incidents>>

Elements == Entries \cup {Root}
Off == [alive |-> FALSE, every |-> 0, left |-> 0]

(* The zero value of the package's variables.  stuck is set when the loop  *)
(* of enforceEmbeddedLanguageLimitLocked does not end.                     *)
Empty ==
  [cache |-> [b \in Blobs |-> Nil],
   node |-> [e \in Entries |-> FALSE],                   \* lruNode # nil
   next |-> [x \in Elements |-> IF x = Root THEN Root ELSE Nil],
   prev |-> [x \in Elements |-> IF x = Root THEN Root ELSE Nil],
   len |-> 0,
   stuck |-> FALSE]

CachedBlobs(s) == {b \in Blobs : s.cache[b] # Nil}
Cached(s) == {s.cache[b] : b \in CachedBlobs(s)}
Allocated == {e \in Entries : blob[e] # Nil}

Init ==
  /\ store = Empty
  /\ blob = [e \in Entries |-> Nil]
  /\ decoded = [e \in Entries |-> "no"]
  /\ idle = [e \in Entries |-> Never]
  /\ limit = -1
  /\ ttl = 0
  /\ sweep = FirstSweep
  /\ janitor = Off
  /\ stopping = FALSE
  /\ holds = [c \in Callers |-> Nil]
  /\ changes = 0
  /\ incidents = {}

-----------------------------------------------------------------------------
(* container/list, pointer by pointer: Init resets the sentinel only, so   *)
(* an element of an emptied list still passes for one of its own.          *)

ListInit(s) == [s EXCEPT !.next[Root] = Root, !.prev[Root] = Root, !.len = 0]

Unlink(s, e) == [s EXCEPT !.next[s.prev[e]] = s.next[e], !.prev[s.next[e]] = s.prev[e]]

LinkFront(s, e) == [s EXCEPT !.next[e] = s.next[Root], !.prev[e] = Root,
                             !.next[Root] = e, !.prev[s.next[Root]] = e]

ListPushFront(s, e) == [LinkFront(s, e) EXCEPT !.len = @ + 1]

ListMoveToFront(s, e) == IF s.next[Root] = e THEN s ELSE LinkFront(Unlink(s, e), e)

ListRemove(s, e) == [Unlink(s, e) EXCEPT !.next[e] = Nil, !.prev[e] = Nil, !.len = @ - 1]

-----------------------------------------------------------------------------
(* What runs under the mutex.                                              *)

(* removeEmbeddedLanguageEntryLocked: the key goes, whichever entry it is  *)
(* the key of.                                                             *)
RemoveEntry(s, e) ==
  LET cut == [s EXCEPT !.cache[blob[e]] = Nil]
  IN IF s.node[e] THEN [ListRemove(cut, e) EXCEPT !.node[e] = FALSE] ELSE cut

(* Where the loop of enforceEmbeddedLanguageLimitLocked ends: Back is nil  *)
(* when len is 0.                                                          *)
Enforced(s, n) == n < 0 \/ Cardinality(CachedBlobs(s)) <= n \/ s.len = 0

(* One turn of it.  The sentinel belongs to no list, so removing it does   *)
(* nothing.                                                                *)
EnforceTurn(s, n) ==
  IF Enforced(s, n) \/ s.prev[Root] = Root THEN s ELSE RemoveEntry(s, s.prev[Root])

EnforceOnce(s, n) == EnforceTurn(s, n)  \* faulty variant: "if" where the loop is

(* The loop.  A turn that changes anything takes a key or an element away; *)
(* after as many turns as there may be of both it has ended, or meets the  *)
(* same element again for ever.                                            *)
MaxTurns == Cardinality(Entries) + Cardinality(Blobs)

Enforce(s, n) ==
  LET after[turn \in 0 .. MaxTurns] ==
        IF turn = 0 THEN s ELSE EnforceTurn(after[turn - 1], n)
      last == after[MaxTurns]
  IN IF Enforced(s, n) THEN s
     ELSE IF Enforced(last, n) THEN last ELSE [last EXCEPT !.stuck = TRUE]

(* evictIdleEmbeddedLanguagesLocked, over the map in one of its orders.    *)
IdleFor(s, d, age) == {e \in Cached(s) : age[e] # Never /\ age[e] > d}

EvictTurn(s, d, age) ==
  IF IdleFor(s, d, age) = {} THEN s
                             ELSE RemoveEntry(s, CHOOSE e \in IdleFor(s, d, age) : TRUE)

EvictIdle(s, d, age) ==
  LET after[turn \in 0 .. Cardinality(Blobs)] ==
        IF turn = 0 THEN s ELSE EvictTurn(after[turn - 1], d, age)
  IN IF d <= 0 THEN s ELSE after[Cardinality(Blobs)]

-----------------------------------------------------------------------------
(* Loading a grammar.                                                      *)

(* getEmbeddedLanguageCacheEntry                                           *)
Get(c, b) ==
  /\ ~ store.stuck
  /\ holds[c] = Nil
  /\ IF store.cache[b] # Nil
       THEN /\ holds' = [holds EXCEPT ![c] = store.cache[b]]
            /\ UNCHANGED <<store, entryVars>>
       ELSE /\ Allocated # Entries
            /\ LET e == CHOOSE x \in Entries \ Allocated : TRUE
               IN /\ holds' = [holds EXCEPT ![c] = e]
                  /\ store' = [store EXCEPT !.cache[b] = e]
                  /\ blob' = [blob EXCEPT ![e] = b]
            /\ UNCHANGED <<decoded, idle>>
  /\ UNCHANGED <<configVars, changes, incidents>>

(* once.Do(decode): whoever comes first decodes, the others wait for it.   *)
Decode(c) ==
  /\ holds[c] # Nil
  /\ decoded[holds[c]] = "no"
  /\ \E result \in IF blob[holds[c]] \in Flaky THEN {"ok", "bad"} ELSE {"ok"} :
       decoded' = [decoded EXCEPT ![holds[c]] = result]
  /\ UNCHANGED <<store, blob, idle, configVars, holds, changes, incidents>>

(* The error stays in the entry and every load of it panics.               *)
Fail(c) ==
  /\ holds[c] # Nil
  /\ decoded[holds[c]] = "bad"
  /\ holds' = [holds EXCEPT ![c] = Nil]
  /\ UNCHANGED <<store, entryVars, configVars, changes, incidents>>

(* What RecordUse finds without looking: the key names another entry now,  *)
(* or the entry's element belongs to a list that was emptied.              *)
Linked(s) ==
  LET from[n \in 0..Cardinality(Entries)] ==
        IF n = 0 THEN {Root} ELSE from[n - 1] \cup {s.next[x] : x \in from[n - 1]}
  IN from[Cardinality(Entries)] \ {Root}

Met(e) ==
  (IF store.cache[blob[e]] \notin {e, Nil} THEN {"displaced"} ELSE {})
    \cup (IF store.node[e] /\ e \notin Linked(store) THEN {"emptied"} ELSE {})

(* recordEmbeddedLanguageUse without its last two calls.                   *)
TouchAtBack(s, e) ==          \* faulty variant: a hit keeps its place in the list
  LET kept == IF s.cache[blob[e]] = Nil THEN [s EXCEPT !.cache[blob[e]] = e] ELSE s
  IN IF s.node[e] THEN kept ELSE [ListPushFront(kept, e) EXCEPT !.node[e] = TRUE]

Touch(s, e) ==
  LET kept == IF s.cache[blob[e]] = Nil THEN [s EXCEPT !.cache[blob[e]] = e] ELSE s
  IN IF s.node[e] THEN ListMoveToFront(kept, e)
                  ELSE [ListPushFront(kept, e) EXCEPT !.node[e] = TRUE]

(* recordEmbeddedLanguageUse, after which the load returns.                *)
RecordUse(c) ==
  LET e == holds[c] IN
  /\ ~ store.stuck
  /\ e # Nil
  /\ decoded[e] = "ok"
  /\ idle' = [idle EXCEPT ![e] = 0]
  /\ store' = IF limit = 0
                THEN RemoveEntry(store, e)
                ELSE LET s == Enforce(Touch(store, e), limit)
                     IN IF s.stuck THEN s ELSE EvictIdle(s, ttl, idle')
  /\ holds' = [holds EXCEPT ![c] = Nil]
  /\ incidents' = incidents \cup Met(e)
  /\ UNCHANGED <<blob, decoded, configVars, changes>>

-----------------------------------------------------------------------------
(* Configuring and emptying the cache.                                     *)

Change ==
  /\ ~ store.stuck
  /\ changes < MaxChanges
  /\ changes' = changes + 1
  /\ UNCHANGED <<entryVars, holds, incidents>>

SetLimitRaw(n) ==             \* faulty variant: a negative limit is stored as it came
  /\ Change
  /\ limit' = n
  /\ store' = EvictIdle(Enforce(store, n), ttl, idle)
  /\ UNCHANGED <<ttl, sweep, janitor, stopping>>

(* SetEmbeddedLanguageCacheLimit: lifting the limit evicts nothing.        *)
SetLimit(n) ==
  /\ Change
  /\ limit' = IF n < 0 THEN -1 ELSE n
  /\ store' = IF n < 0 THEN store
                       ELSE LET s == Enforce(store, n)
                            IN IF s.stuck THEN s ELSE EvictIdle(s, ttl, idle)
  /\ UNCHANGED <<ttl, sweep, janitor, stopping>>

(* UnloadEmbeddedLanguage                                                  *)
Unload(b) ==
  /\ Change
  /\ store.cache[b] # Nil
  /\ store' = RemoveEntry(store, store.cache[b])
  /\ UNCHANGED configVars

(* PurgeEmbeddedLanguageCache: a new map, and the list is emptied in place *)
(* while the entries keep their elements.                                  *)
Purge ==
  /\ Change
  /\ store' = [ListInit(store) EXCEPT !.cache = [b \in Blobs |-> Nil]]
  /\ UNCHANGED configVars

NewJanitor(every) == [alive |-> TRUE, every |-> every, left |-> every]

SetIdleTTLNoStop(d) ==        \* faulty variant: disabling the TTL leaves the janitor
  /\ Change
  /\ ttl' = d
  /\ janitor' = IF d = 0 \/ janitor.alive THEN janitor ELSE NewJanitor(sweep)
  /\ store' = EvictIdle(store, d, idle)
  /\ UNCHANGED <<limit, sweep, stopping>>

(* SetEmbeddedLanguageIdleTTL                                              *)
SetIdleTTL(d) ==
  /\ Change
  /\ ttl' = d
  /\ janitor' = IF d = 0 THEN Off
                ELSE IF janitor.alive THEN janitor ELSE NewJanitor(sweep)
  /\ stopping' = (stopping \/ (d = 0 /\ janitor.alive))
  /\ store' = EvictIdle(store, d, idle)
  /\ UNCHANGED <<limit, sweep>>

SetSweepNoStart(n) ==         \* faulty variant: the janitor is stopped and not restarted
  /\ Change
  /\ sweep' = n
  /\ janitor' = Off
  /\ stopping' = (stopping \/ janitor.alive)
  /\ UNCHANGED <<store, limit, ttl>>

(* SetEmbeddedLanguageIdleSweepInterval                                    *)
SetSweep(n) ==
  /\ Change
  /\ sweep' = n
  /\ janitor' = IF janitor.alive /\ ttl > 0 THEN NewJanitor(n) ELSE Off
  /\ stopping' = (stopping \/ janitor.alive)
  /\ UNCHANGED <<store, limit, ttl>>

-----------------------------------------------------------------------------
(* The janitor, the clock and the garbage collector.                       *)

(* A tick of the ticker: the janitor takes the mutex and evicts.           *)
JanitorSweep ==
  /\ ~ store.stuck
  /\ janitor.alive /\ janitor.left = 0
  /\ store' = EvictIdle(store, ttl, idle)
  /\ janitor' = [janitor EXCEPT !.left = janitor.every]
  /\ UNCHANGED <<entryVars, limit, ttl, sweep, stopping, holds, changes, incidents>>

(* A stopped janitor whose select finds a tick beside the closed channel   *)
(* may evict once more.                                                    *)
LateSweep ==
  /\ ~ store.stuck
  /\ stopping
  /\ store' = EvictIdle(store, ttl, idle)
  /\ UNCHANGED <<entryVars, configVars, holds, changes, incidents>>

JanitorExit ==
  /\ stopping
  /\ stopping' = FALSE
  /\ UNCHANGED <<store, entryVars, limit, ttl, sweep, janitor, holds, changes, incidents>>

Tick ==
  /\ idle' = [e \in Entries |-> IF idle[e] \in {Never, MaxIdle} THEN idle[e] ELSE idle[e] + 1]
  /\ janitor' = [janitor EXCEPT !.left = IF @ = 0 THEN 0 ELSE @ - 1]
  /\ UNCHANGED <<store, blob, decoded, limit, ttl, sweep, stopping, holds, changes, incidents>>

(* Nothing refers to the entry or to its element any more.                 *)
Collect(e) ==
  /\ e \in Allocated \ Cached(store)
  /\ \A c \in Callers : holds[c] # e
  /\ \A x \in Elements \ {e} : store.next[x] # e /\ store.prev[x] # e
  /\ blob' = [blob EXCEPT ![e] = Nil]
  /\ decoded' = [decoded EXCEPT ![e] = "no"]
  /\ idle' = [idle EXCEPT ![e] = Never]
  /\ store' = [store EXCEPT !.node[e] = FALSE, !.next[e] = Nil, !.prev[e] = Nil]
  /\ UNCHANGED <<configVars, holds, changes, incidents>>

-----------------------------------------------------------------------------
Load(c) ==
  \/ \E b \in Blobs : Get(c, b)
  \/ Decode(c)
  \/ Fail(c)
  \/ RecordUse(c)

Configure ==
  \/ \E n \in Limits : SetLimit(n)
  \/ \E b \in Blobs : Unload(b)
  \/ Purge
  \/ \E d \in TTLs : SetIdleTTL(d)
  \/ \E n \in Sweeps : SetSweep(n)

Next ==
  \/ \E c \in Callers : Load(c)
  \/ Configure
  \/ JanitorSweep \/ LateSweep \/ JanitorExit
  \/ Tick
  \/ \E e \in Entries : Collect(e)

(* Time passes, and the janitor's goroutine gets the mutex when it ticks.  *)
(* Nobody has to load or configure anything.                               *)
Spec == Init /\ [][Next]_vars
FairSpec == Spec /\ WF_vars(Tick) /\ WF_vars(JanitorSweep)

-----------------------------------------------------------------------------
(* Properties.                                                             *)

(* Types, and an entry in the map is there under its own name.             *)
TypeOK ==
  /\ store.cache \in [Blobs -> Entries \cup {Nil}]
  /\ \A b \in CachedBlobs(store) : blob[store.cache[b]] = b
  /\ store.node \in [Entries -> BOOLEAN]
  /\ store.next \in [Elements -> Elements \cup {Nil}]
  /\ store.prev \in [Elements -> Elements \cup {Nil}]
  /\ store.len \in Int
  /\ store.stuck \in BOOLEAN
  /\ blob \in [Entries -> Blobs \cup {Nil}]
  /\ decoded \in [Entries -> {"no", "ok", "bad"}]
  /\ idle \in [Entries -> {Never} \cup 0..MaxIdle]
  /\ limit \in (Limits \cap Nat) \cup {-1}
  /\ ttl \in TTLs \cup {0}
  /\ sweep \in Sweeps
  /\ janitor \in [alive : BOOLEAN, every : Sweeps \cup {0}, left : Nat]
  /\ stopping \in BOOLEAN
  /\ holds \in [Callers -> Entries \cup {Nil}]
  /\ changes \in 0..MaxChanges
  /\ incidents \subseteq {"displaced", "emptied"}

Recorded(s) == {e \in Cached(s) : s.node[e]}

(* As long as no use was recorded of an entry displaced or purged during   *)
(* its load, the list holds exactly the recorded entries of the map, is    *)
(* doubly linked, counts its elements, and orders them by last use: what   *)
(* the limit evicts is what was used least recently.                       *)
LruMirrorsCache ==
  incidents = {} =>
    /\ Linked(store) = Recorded(store)
    /\ store.len = Cardinality(Linked(store))
    /\ \A x \in Linked(store) \cup {Root} :
         /\ store.next[x] \in Elements /\ store.prev[store.next[x]] = x
         /\ x # Root /\ store.next[x] # Root => idle[x] <= idle[store.next[x]]

(* Under the same condition a critical section never leaves more recorded  *)
(* grammars behind than the limit, and the loop that enforces it ends.     *)
LimitIsKept ==
  incidents = {} => /\ ~ store.stuck
                    /\ limit >= 0 => Cardinality(Recorded(store)) <= limit

(* A janitor runs exactly while idle eviction is on, with the interval set *)
(* last: no order of the two setters leaves none, or an outdated one.      *)
JanitorFollowsTTL ==
  /\ janitor.alive <=> ttl > 0
  /\ janitor.alive => janitor.every = sweep

Expired(e) == ttl > 0 /\ e \in Cached(store) /\ idle[e] > ttl

(* An entry that nobody uses any more leaves the cache without another     *)
(* call to it, or its idle time or the TTL changed meanwhile.              *)
IdleEntriesAreEvicted ==
  \A e \in Entries : Expired(e) ~> (~ Expired(e) \/ incidents # {})

(* embedded_loader.go:153: "limit > 0: retain at most limit most recently  *)
(* used grammars", and with 0 none: between loads the cache retains no     *)
(* more decoded grammars than the limit.                                   *)
RetainsAtMostLimit ==
  limit >= 0 /\ (\A c \in Callers : holds[c] = Nil)
    => Cardinality({e \in Cached(store) : decoded[e] = "ok"}) <= limit
=============================================================================
