----------------------------- MODULE SecretCache -----------------------------
(***************************************************************************)
(* The session cache as it is in memory: entries under HMAC keys, values   *)
(* encrypted, a session key that clear() zeroes and replaces.              *)
(*                                                                         *)
(* The cryptography is ideal: an HMAC names its key and its input, a       *)
(* ciphertext can be opened with its own key and no other, and randomBytes *)
(* never returns the same key twice.  What is modelled is which buffers    *)
(* exist, under which key, and what a heap dump can make of them: buffers  *)
(* that are no longer referenced stay in the heap until they are           *)
(* collected.                                                              *)
(***************************************************************************)
CONSTANTS
    Names,   \* cache keys as ResolverCache composes them
    Values,  \* plaintexts
    Keys,    \* what randomBytes returns for a session key; bounds the clears
    None     \* undefined

ASSUME NoneAssumption == None \notin Values \cup Keys

VARIABLES
    sessionKey,   \* #sessionKey
    entries,      \* #entries: HMAC -> ciphertext
    keyBuffers,   \* keys whose bytes stand in some buffer of the heap
    blobs,        \* ciphertexts in the heap, in the map or not yet collected
    drawn,        \* history: the keys randomBytes has returned
    recent,       \* history: <<name, value>> set since the last clear
    call,         \* history: the last call and its arguments
    answer        \* what the last get returned

vars == <<sessionKey, entries, keyBuffers, blobs, drawn, recent, call, answer>>

Hash(key, n) == [key |-> key, name |-> n]
Cipher == [key: Keys, plain: Values]
Encrypt(key, v) == [key |-> key, plain |-> v]

(* Decryption with another key than the entry's fails authentication: get     *)
(* throws.                                                                    *)
Thrown == [thrown |-> TRUE]

(* A bug: tag and IV are read from each other's place. *)
Misread(key, blob) == Thrown

Decrypt(key, blob) == IF blob.key = key THEN blob.plain ELSE Thrown

NoEntries == [h \in {} |-> None]

Init ==
    /\ sessionKey \in Keys
    /\ entries = NoEntries
    /\ keyBuffers = {sessionKey} /\ drawn = {sessionKey}
    /\ blobs = {} /\ recent = {}
    /\ call = <<"new">> /\ answer = None

Lookup(n) ==
    LET h == Hash(sessionKey, n)
    IN  IF h \in DOMAIN entries THEN Decrypt(sessionKey, entries[h]) ELSE None

Get(n) ==
    /\ call' = <<"get", n>> /\ answer' = Lookup(n)
    /\ UNCHANGED <<sessionKey, entries, keyBuffers, blobs, drawn, recent>>

(* A bug: an entry that is there is left as it is. *)
PutIfAbsent(map, h, blob) ==
    [x \in DOMAIN map \cup {h} |-> IF x \in DOMAIN map THEN map[x] ELSE blob]

Put(map, h, blob) ==
    [x \in DOMAIN map \cup {h} |-> IF x = h THEN blob ELSE map[x]]

Set(n, v) ==
    LET blob == Encrypt(sessionKey, v)
    IN  /\ call' = <<"set", n, v>>
        /\ entries' = Put(entries, Hash(sessionKey, n), blob)
        /\ blobs' = blobs \cup {blob}
        /\ recent' = recent \cup {<<n, v>>}
        /\ UNCHANGED <<sessionKey, keyBuffers, drawn, answer>>

(* A bug: the old key is replaced without being overwritten. *)
ReplacedOnly(key) == keyBuffers \cup {key}

(* fill(0) on the old buffer, then a new one. *)
ZeroedAndReplaced(key) == (keyBuffers \ {sessionKey}) \cup {key}

Clear ==
    /\ \E key \in Keys \ drawn :
        /\ sessionKey' = key
        /\ keyBuffers' = ZeroedAndReplaced(key)
        /\ drawn' = drawn \cup {key}
    /\ call' = <<"clear">>
    /\ entries' = NoEntries
    /\ recent' = {}
    /\ UNCHANGED <<blobs, answer>>

(* The garbage collector frees a ciphertext the map no longer holds. *)
Collect(blob) ==
    /\ blob \in blobs
    /\ \A h \in DOMAIN entries : entries[h] # blob
    /\ blobs' = blobs \ {blob}
    /\ UNCHANGED <<sessionKey, entries, keyBuffers, drawn, recent, call, answer>>

Next ==
    \/ \E n \in Names : Get(n)
    \/ \E n \in Names, v \in Values : Set(n, v)
    \/ Clear
    \/ \E blob \in blobs : Collect(blob)

Spec == Init /\ [][Next]_vars

-----------------------------------------------------------------------------
(***************************************************************************)
(* Properties.                                                             *)
(***************************************************************************)

(* The buffers hold keys and ciphertexts, the map only what is in the heap.  *)
TypeOK ==
    /\ sessionKey \in Keys
    /\ DOMAIN entries \subseteq [key: Keys, name: Names]
    /\ \A h \in DOMAIN entries : entries[h] \in blobs
    /\ keyBuffers \subseteq drawn /\ drawn \subseteq Keys /\ sessionKey \in keyBuffers
    /\ blobs \subseteq Cipher
    /\ recent \subseteq Names \X Values
    /\ answer \in Values \cup {None}

(* A heap dump at any moment, with every key in it tried on every ciphertext, *)
(* opens only values that were cached after the last clear: the old key is    *)
(* gone before its garbage is (secretCache.ts:57-63).                         *)
DumpShowsRecentOnly ==
    \A blob \in blobs : blob.key \in keyBuffers => \E n \in Names : <<n, blob.plain>> \in recent

(* The hashed and encrypted map behaves like a plain map from names to        *)
(* values that clear() empties: get never throws and never returns a value    *)
(* set before a clear, or another one than the last.                          *)
Contract == INSTANCE CacheContract WITH store <- [n \in Names |-> Lookup(n)]
ImplementsContract == Contract!Spec
=============================================================================
