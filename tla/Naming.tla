------------------------------- MODULE Naming -------------------------------
(***************************************************************************)
(* The naming layer (src/src/mesh/naming.c): owners register one alias by  *)
(* publishing signed, dated records to the DHT and again every 24 hours,   *)
(* and every node keeps the bindings it has resolved, verified or imported *)
(* in a cache, next to its own petnames.                                   *)
(***************************************************************************)
EXTENDS Naturals, FiniteSets

CONSTANTS
    Owners,      \* fingerprints, in their byte order
    Resolvers,   \* nodes that look the alias up
    PetnameMax,  \* PETNAME_MAX
    MaxStamp,    \* bound: the clock
    MaxLookups   \* bound: lookups of a node that are under way

ASSUME NamingAssumption ==
    /\ Owners \subseteq Nat /\ {PetnameMax, MaxLookups} \subseteq Nat
    /\ MaxStamp \in Nat \ {0}

NoBinding == [fp |-> 0, ts |-> 0, cached |-> FALSE]
Binding(fp, ts) == [fp |-> fp, ts |-> ts, cached |-> TRUE]

VARIABLES
    stamp,       \* the clock of the owners
    registered,  \* owners with the alias in own_aliases
    nameStore,   \* records of the alias in the DHT, <<fp, ts>>
    binding,     \* node -> its cache entry of the alias
    lookingUp,   \* node -> number of name_lookup_ctx_t
    offered,     \* history: node -> records it was given
    writers,     \* history: node -> who but trellis_naming_verify_record wrote its entry
    petnames     \* node -> fingerprints with a petname

namingVars == <<stamp, registered, nameStore, binding, lookingUp, offered, writers, petnames>>

NamingInit ==
    /\ stamp = 1
    /\ registered = {}
    /\ nameStore = {}
    /\ binding = [n \in Resolvers |-> NoBinding]
    /\ lookingUp = [n \in Resolvers |-> 0]
    /\ offered = [n \in Resolvers |-> {}]
    /\ writers = [n \in Resolvers |-> {}]
    /\ petnames = [n \in Resolvers |-> {}]

Clock ==
    /\ stamp < MaxStamp
    /\ stamp' = stamp + 1
    /\ UNCHANGED <<registered, nameStore, binding, lookingUp, offered, writers, petnames>>

\* naming_publish_one: the record carries the time of this publication; at the storers it
\* takes the place of others or does not.
PublishName(o) == nameStore' = nameStore \cup {<<o, stamp>>}

\* trellis_naming_register: nobody asks the DHT whether the alias is taken.
RegisterName(o) ==
    /\ o \notin registered
    /\ registered' = registered \cup {o}
    /\ PublishName(o)
    /\ UNCHANGED <<stamp, binding, lookingUp, offered, writers, petnames>>

\* naming_publish_timer_cb.
RepublishName(o) ==
    /\ o \in registered
    /\ PublishName(o)
    /\ UNCHANGED <<stamp, registered, binding, lookingUp, offered, writers, petnames>>

\* trellis_naming_resolve: a cached binding answers, whatever its age.
ResolveName(n) ==
    /\ ~binding[n].cached /\ lookingUp[n] < MaxLookups
    /\ lookingUp' = [lookingUp EXCEPT ![n] = @ + 1]
    /\ UNCHANGED <<stamp, registered, nameStore, binding, offered, writers, petnames>>

\* on_name_dht_result: what parses is cached, over what is there.
OnNameResult(n) ==
    /\ lookingUp[n] > 0
    /\ lookingUp' = [lookingUp EXCEPT ![n] = @ - 1]
    /\ \/ \E r \in nameStore :
            /\ binding' = [binding EXCEPT ![n] = Binding(r[1], r[2])]
            /\ offered' = [offered EXCEPT ![n] = @ \cup {r}]
            /\ writers' = [writers EXCEPT ![n] = @ \cup {"lookup"}]
       \/ UNCHANGED <<binding, offered, writers>>
    /\ UNCHANGED <<stamp, registered, nameStore, petnames>>

\* Faulty variant of Conflict: of two records with one date the later comer wins.
ConflictOfDates(b, r) == b.cached /\ r[2] > b.ts

\* The conflict resolution of trellis_naming_verify_record.
Conflict(b, r) == b.cached /\ (r[2] > b.ts \/ (r[2] = b.ts /\ r[1] > b.fp))

\* trellis_naming_verify_record; records have the signature of their owner.
VerifyRecord(n, r) ==
    /\ offered' = [offered EXCEPT ![n] = @ \cup {r}]
    /\ IF Conflict(binding[n], r) THEN UNCHANGED binding
       ELSE binding' = [binding EXCEPT ![n] = Binding(r[1], r[2])]
    /\ UNCHANGED <<stamp, registered, nameStore, lookingUp, writers, petnames>>

\* trellis_naming_import_dns_txt: a new entry is dated 0, an old one keeps its date.
ImportDnsTxt(n, fp) ==
    /\ binding' = [binding EXCEPT ![n] = Binding(fp, @.ts)]
    /\ writers' = [writers EXCEPT ![n] = @ \cup {"dns"}]
    /\ UNCHANGED <<stamp, registered, nameStore, lookingUp, offered, petnames>>

\* trellis_naming_set_petname and trellis_naming_remove_petname.
SetPetname(n, fp) ==
    /\ fp \in petnames[n] \/ Cardinality(petnames[n]) < PetnameMax
    /\ petnames' = [petnames EXCEPT ![n] = @ \cup {fp}]
    /\ UNCHANGED <<stamp, registered, nameStore, binding, lookingUp, offered, writers>>

RemovePetname(n, fp) ==
    /\ fp \in petnames[n]
    /\ petnames' = [petnames EXCEPT ![n] = @ \ {fp}]
    /\ UNCHANGED <<stamp, registered, nameStore, binding, lookingUp, offered, writers>>

NamingNext ==
    \/ Clock
    \/ \E o \in Owners : RegisterName(o) \/ RepublishName(o)
    \/ \E n \in Resolvers :
        \/ ResolveName(n) \/ OnNameResult(n)
        \/ \E r \in nameStore : VerifyRecord(n, r)
        \/ \E fp \in Owners : ImportDnsTxt(n, fp) \/ SetPetname(n, fp) \/ RemovePetname(n, fp)

NamingSpec == NamingInit /\ [][NamingNext]_namingVars

--------------------------------------------------------------------------
(* Properties *)

Records == Owners \X (1..MaxStamp)

\* Every part of the state has its shape.
NamingTypeOK ==
    /\ stamp \in 1..MaxStamp
    /\ registered \subseteq Owners
    /\ nameStore \subseteq Records
    /\ binding \in [Resolvers -> [fp : Owners \cup {0}, ts : 0..MaxStamp, cached : BOOLEAN]]
    /\ lookingUp \in [Resolvers -> 0..MaxLookups]
    /\ offered \in [Resolvers -> SUBSET Records]
    /\ writers \in [Resolvers -> SUBSET {"lookup", "dns"}]
    /\ petnames \in [Resolvers -> SUBSET Owners]

Earlier(r, s) == r[2] < s[2] \/ (r[2] = s[2] /\ r[1] <= s[1])

FirstOffered(n) == CHOOSE r \in offered[n] : \A s \in offered[n] : Earlier(r, s)

\* Nodes that verify what they are given agree on the owner, in whatever order and however
\* often they saw the records: the earliest one counts, the smaller fingerprint among
\* records of one date (naming.c: trellis_naming_verify_record).
VerifiersAgree ==
    \A n \in Resolvers : offered[n] # {} /\ writers[n] = {} =>
        binding[n] = Binding(FirstOffered(n)[1], FirstOffered(n)[2])
==============================================================================
