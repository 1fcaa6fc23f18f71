-------------------------- MODULE SecretCacheProofs --------------------------
(***************************************************************************)
(* For any names, values and session keys: the types, the heap property    *)
(* and the refinement of CacheContract.                                    *)
(***************************************************************************)
EXTENDS SecretCache, TLAPS

(* All that is readable is under the current key, and recent. *)
EntryOK(h) ==
    /\ h = Hash(sessionKey, h.name)
    /\ entries[h].key = sessionKey

BlobOK(blob) ==
    /\ blob.key \in drawn
    /\ blob.key = sessionKey => \E n \in Names : <<n, blob.plain>> \in recent

IInv ==
    /\ TypeOK
    /\ keyBuffers = {sessionKey}
    /\ \A h \in DOMAIN entries : EntryOK(h)
    /\ \A blob \in blobs : BlobOK(blob)

(* A lookup finds the plaintext of the entry, or nothing.                    *)
LEMMA LookupResult ==
    ASSUME IInv, NEW n \in Names
    PROVE  /\ Lookup(n) = IF Hash(sessionKey, n) \in DOMAIN entries
                          THEN entries[Hash(sessionKey, n)].plain ELSE None
           /\ Lookup(n) \in Values \cup {None}
<1>1. CASE Hash(sessionKey, n) \in DOMAIN entries
    <2>1. /\ entries[Hash(sessionKey, n)] \in Cipher
          /\ entries[Hash(sessionKey, n)].key = sessionKey
        BY <1>1 DEF IInv, TypeOK, EntryOK
    <2> QED BY <1>1, <2>1 DEF Lookup, Decrypt, Cipher
<1>2. CASE Hash(sessionKey, n) \notin DOMAIN entries
    BY <1>2 DEF Lookup
<1> QED BY <1>1, <1>2

LEMMA InitIInv == Init => IInv
BY DEF Init, IInv, TypeOK, NoEntries, EntryOK, BlobOK

LEMMA GetIInv ==
    ASSUME IInv, NEW n \in Names, Get(n)
    PROVE  IInv'
<1>1. answer' \in Values \cup {None}
    BY LookupResult DEF Get
<1> QED BY <1>1 DEF Get, IInv, TypeOK, EntryOK, BlobOK

LEMMA SetIInv ==
    ASSUME IInv, NEW n \in Names, NEW v \in Values, Set(n, v)
    PROVE  IInv'
<1> DEFINE h == Hash(sessionKey, n)
           blob == Encrypt(sessionKey, v)
<1>1. /\ h \in [key: Keys, name: Names] /\ h.name = n
      /\ blob \in Cipher /\ blob.key = sessionKey /\ blob.plain = v
    BY DEF IInv, TypeOK, Hash, Encrypt, Cipher
<1>2. /\ entries' = Put(entries, h, blob)
      /\ blobs' = blobs \cup {blob} /\ recent' = recent \cup {<<n, v>>}
      /\ UNCHANGED <<sessionKey, keyBuffers, drawn, answer>>
    BY DEF Set
<1> HIDE DEF h, blob
<1>3. /\ DOMAIN entries' = DOMAIN entries \cup {h}
      /\ \A x \in DOMAIN entries' : entries'[x] = IF x = h THEN blob ELSE entries[x]
    BY <1>2 DEF Put
<1>4. TypeOK'
    BY <1>1, <1>2, <1>3 DEF IInv, TypeOK
<1>5. \A x \in DOMAIN entries' : EntryOK(x)'
    <2> SUFFICES ASSUME NEW x \in DOMAIN entries' PROVE EntryOK(x)' OBVIOUS
    <2>1. CASE x = h
        BY <1>1, <1>2, <1>3, <2>1 DEF EntryOK, h
    <2>2. CASE x # h
        BY <1>2, <1>3, <2>2 DEF IInv, EntryOK
    <2> QED BY <2>1, <2>2
<1>6. \A b \in blobs' : BlobOK(b)'
    <2> SUFFICES ASSUME NEW b \in blobs' PROVE BlobOK(b)' OBVIOUS
    <2>1. CASE b = blob
        BY <1>1, <1>2, <2>1 DEF IInv, TypeOK, BlobOK
    <2>2. CASE b \in blobs
        BY <1>2, <2>2 DEF IInv, BlobOK
    <2> QED BY <1>2, <2>1, <2>2
<1> QED BY <1>2, <1>4, <1>5, <1>6 DEF IInv

LEMMA ClearIInv ==
    ASSUME IInv, Clear
    PROVE  IInv'
<1>1. PICK key \in Keys \ drawn :
        /\ sessionKey' = key
        /\ keyBuffers' = ZeroedAndReplaced(key)
        /\ drawn' = drawn \cup {key}
    BY DEF Clear
<1>2. entries' = NoEntries /\ recent' = {} /\ UNCHANGED <<blobs, answer>>
    BY DEF Clear
<1>3. keyBuffers' = {key}
    BY <1>1 DEF IInv, ZeroedAndReplaced
<1>4. TypeOK'
    BY <1>1, <1>2, <1>3 DEF IInv, TypeOK, NoEntries
<1>5. \A b \in blobs' : BlobOK(b)'
    BY <1>1, <1>2 DEF IInv, BlobOK
<1> QED BY <1>1, <1>2, <1>3, <1>4, <1>5 DEF IInv, NoEntries

LEMMA CollectIInv ==
    ASSUME IInv, NEW blob \in blobs, Collect(blob)
    PROVE  IInv'
BY DEF Collect, IInv, TypeOK, EntryOK, BlobOK

LEMMA NextIInv == IInv /\ [Next]_vars => IInv'
<1> SUFFICES ASSUME IInv, [Next]_vars PROVE IInv' OBVIOUS
<1>1. CASE Next
    BY <1>1, GetIInv, SetIInv, ClearIInv, CollectIInv DEF Next
<1>2. CASE UNCHANGED vars
    BY <1>2 DEF vars, IInv, TypeOK, EntryOK, BlobOK
<1> QED BY <1>1, <1>2

THEOREM Invariance == Spec => []IInv
BY InitIInv, NextIInv, PTL DEF Spec

(* The buffers, the map and the answers keep their types; get never throws.  *)
THEOREM TypeCorrect == Spec => []TypeOK
<1>1. IInv => TypeOK BY DEF IInv
<1> QED BY <1>1, Invariance, PTL

(* No heap dump opens a value cached before the last clear, whatever garbage *)
(* is still there.                                                           *)
THEOREM DumpIsRecent == Spec => []DumpShowsRecentOnly
<1>1. IInv => DumpShowsRecentOnly
    BY DEF IInv, BlobOK, DumpShowsRecentOnly
<1> QED BY <1>1, Invariance, PTL

-----------------------------------------------------------------------------
(* The refinement, one lemma for each action. *)

LEMMA InitRefines == Init => Contract!Init
BY DEF Init, Contract!Init, Lookup, NoEntries

LEMMA GetRefines ==
    ASSUME IInv, NEW n \in Names, Get(n)
    PROVE  Contract!Get(n)
<1>1. \A m \in Names : Lookup(m)' = Lookup(m)
    BY DEF Get, Lookup
<1> QED BY <1>1 DEF Get, Contract!Get

LEMMA SetRefines ==
    ASSUME IInv, NEW n \in Names, NEW v \in Values, Set(n, v)
    PROVE  Contract!Set(n, v)
<1>1. ASSUME NEW m \in Names
      PROVE  Lookup(m)' = IF m = n THEN v ELSE Lookup(m)
    <2>1. Hash(sessionKey, m) = Hash(sessionKey, n) <=> m = n
        BY DEF Hash
    <2>2. /\ DOMAIN entries' = DOMAIN entries \cup {Hash(sessionKey, n)}
          /\ \A x \in DOMAIN entries' :
                entries'[x] = IF x = Hash(sessionKey, n) THEN Encrypt(sessionKey, v)
                                                         ELSE entries[x]
          /\ sessionKey' = sessionKey
        BY DEF Set, Put
    <2>3. CASE m = n
        BY <2>2, <2>3 DEF Lookup, Decrypt, Encrypt
    <2>4. CASE m # n
        BY <2>1, <2>2, <2>4 DEF Lookup
    <2> QED BY <2>3, <2>4
<1>2. [m \in Names |-> Lookup(m)'] = [[m \in Names |-> Lookup(m)] EXCEPT ![n] = v]
    BY <1>1
<1> QED BY <1>2 DEF Set, Contract!Set

LEMMA ClearRefines ==
    ASSUME IInv, Clear
    PROVE  Contract!Clear
<1>1. \A m \in Names : Lookup(m)' = None
    BY DEF Clear, Lookup, NoEntries
<1> QED BY <1>1 DEF Clear, Contract!Clear

LEMMA CollectRefines ==
    ASSUME NEW blob \in blobs, Collect(blob)
    PROVE  UNCHANGED <<[m \in Names |-> Lookup(m)], call, answer>>
<1>1. \A m \in Names : Lookup(m)' = Lookup(m)
    BY DEF Collect, Lookup
<1> QED BY <1>1 DEF Collect

LEMMA StepRefines ==
    IInv /\ [Next]_vars => [Contract!Next]_<<[n \in Names |-> Lookup(n)], call, answer>>
<1> SUFFICES ASSUME IInv, [Next]_vars
             PROVE  [Contract!Next]_<<[n \in Names |-> Lookup(n)], call, answer>>
    OBVIOUS
<1>1. CASE Next
    BY <1>1, GetRefines, SetRefines, ClearRefines, CollectRefines DEF Next, Contract!Next
<1>2. CASE UNCHANGED vars
    <2>1. \A m \in Names : Lookup(m)' = Lookup(m)
        BY <1>2 DEF vars, Lookup
    <2> QED BY <1>2, <2>1 DEF vars
<1> QED BY <1>1, <1>2

(* Every behaviour of the hashed, encrypted map is one of a plain map that   *)
(* clear() empties.                                                          *)
THEOREM Refinement == Spec => ImplementsContract
<1>1. Spec => Contract!Spec
    BY InitRefines, StepRefines, Invariance, PTL DEF Spec, Contract!Spec
<1> QED BY <1>1 DEF ImplementsContract
=============================================================================
