------------------------------- MODULE Resolver -------------------------------
(***************************************************************************)
(* bank_conn.resolver: the cache that every thread of a data job shares    *)
(* for connection metadata (from the collector) and credentials (from      *)
(* Vault), while both change behind its back.                              *)
(*                                                                         *)
(* A thread holds the lock only for the two accesses to the dictionary;    *)
(* the clock is read before the first one and both fetches happen between  *)
(* them.  The metadata and the secret of a name are represented by version *)
(* numbers; of every version the instant of its replacement is kept, which *)
(* is what the properties are about.                                       *)
(***************************************************************************)
EXTENDS Naturals, Sequences

CONSTANTS
    Threads,
    Names,       \* logical names of connections
    TTL,         \* cache_ttl_seconds
    MaxClock,    \* bound on time.monotonic
    MaxVersion,  \* bound on the versions of a name's metadata and of its secret
    WithVault,   \* the metadata versions that have a vault_path
    NULL

ASSUME ResolverAssumption ==
    /\ TTL \in Nat /\ MaxClock \in Nat /\ MaxVersion \in Nat \ {0}
    /\ WithVault \subseteq Nat
    /\ NULL \notin Nat /\ NULL \notin Names /\ NULL \notin [meta: Nat, secret: Nat]
    /\ NULL \notin [meta: Nat, secret: Nat, expires: Nat]

VARIABLES
    clock,
    meta,    \* [Names -> Seq(Nat)]: meta[n][v] is when version v was replaced
    secret,  \* the same for the credentials of n in Vault
    token,   \* when configure() gave the process its Vault token: <<>> or <<instant>>
    cache,   \* [Names -> entry or NULL]
    pc,      \* "idle", "begun", "missed", "described" (metadata fetched), "complete"
    name,    \* the argument of the thread's resolve()
    now,     \* when that call read the clock
    got,     \* what the call has fetched
    result,  \* what the thread's last call returned, NULL before that and if it raised
    floor,   \* history: the versions current at the last invalidate() of a name
    quiet,   \* history: the same, of invalidations no fetch of n was under way at
    due      \* history: floor and quiet when the thread's call began

code    == <<cache, pc, name, now, got, result>>
history == <<floor, quiet, due>>
world   == <<clock, meta, secret, token>>
vars    == <<world, code, history>>

Current(h, n) == Len(h[n]) + 1
Versions(n)   == [meta |-> Current(meta, n), secret |-> Current(secret, n)]
Nothing       == [meta |-> 0, secret |-> 0]

Value == [meta: 1..MaxVersion, secret: 0..MaxVersion]
Mark  == [meta: 0..MaxVersion, secret: 0..MaxVersion]

TypeOK ==
    /\ clock \in 0..MaxClock
    /\ meta \in [Names -> Seq(0..MaxClock)] /\ secret \in [Names -> Seq(0..MaxClock)]
    /\ token \in Seq(0..MaxClock) /\ Len(token) <= 1
    /\ cache \in [Names -> [meta: 1..MaxVersion, secret: 0..MaxVersion, expires: Nat]
                           \cup {NULL}]
    /\ pc \in [Threads -> {"idle", "begun", "missed", "described", "complete"}]
    /\ name \in [Threads -> Names \cup {NULL}]
    /\ now \in [Threads -> 0..MaxClock]
    /\ got \in [Threads -> Mark \cup {NULL}]
    /\ result \in [Threads -> Value \cup {NULL}]
    /\ floor \in [Names -> Mark] /\ quiet \in [Names -> Mark]
    /\ due \in [Threads -> [floor: Mark, quiet: Mark]]

Init ==
    /\ clock = 0
    /\ meta = [n \in Names |-> <<>>] /\ secret = [n \in Names |-> <<>>]
    /\ token \in {<<>>, <<0>>}
    /\ cache = [n \in Names |-> NULL]
    /\ pc = [t \in Threads |-> "idle"]
    /\ name = [t \in Threads |-> NULL]
    /\ now = [t \in Threads |-> 0]
    /\ got = [t \in Threads |-> NULL]
    /\ result = [t \in Threads |-> NULL]
    /\ floor = [n \in Names |-> Nothing] /\ quiet = [n \in Names |-> Nothing]
    /\ due = [t \in Threads |-> [floor |-> Nothing, quiet |-> Nothing]]

-----------------------------------------------------------------------------
(* The world outside: time, an administrator's PUT, a credential rotation, *)
(* the process's configuration.                                            *)

Tick == /\ clock < MaxClock /\ clock' = clock + 1
        /\ UNCHANGED <<meta, secret, token, code, history>>

ChangeMetadata(n) ==
    /\ Current(meta, n) < MaxVersion
    /\ meta' = [meta EXCEPT ![n] = Append(@, clock)]
    /\ UNCHANGED <<clock, secret, token, code, history>>

RotateSecret(n) ==
    /\ Current(secret, n) < MaxVersion
    /\ secret' = [secret EXCEPT ![n] = Append(@, clock)]
    /\ UNCHANGED <<clock, meta, token, code, history>>

\* configure(vault_token = ...), in a process that started without VAULT_TOKEN.
ConfigureToken ==
    /\ token = <<>>
    /\ token' = <<clock>>
    /\ UNCHANGED <<clock, meta, secret, code, history>>

-----------------------------------------------------------------------------
(* resolve() *)

Begin(t, n) ==
    /\ pc[t] = "idle"
    /\ pc' = [pc EXCEPT ![t] = "begun"]
    /\ name' = [name EXCEPT ![t] = n]
    /\ now' = [now EXCEPT ![t] = clock]
    /\ result' = [result EXCEPT ![t] = NULL]
    /\ due' = [due EXCEPT ![t] = [floor |-> floor[n], quiet |-> quiet[n]]]
    /\ UNCHANGED <<world, cache, got, floor, quiet>>

\* The call ends with v, NULL if it raises.
Return(t, v) ==
    /\ pc' = [pc EXCEPT ![t] = "idle"]
    /\ result' = [result EXCEPT ![t] = v]
    /\ got' = [got EXCEPT ![t] = NULL]
    /\ UNCHANGED <<world, name, now, history>>

Usable(t) == LET entry == cache[name[t]]
             IN  entry # NULL /\ entry.expires > now[t]

Hit(t) ==
    /\ pc[t] = "begun" /\ Usable(t)
    /\ LET entry == cache[name[t]]
       IN  Return(t, [meta |-> entry.meta, secret |-> entry.secret])
    /\ UNCHANGED cache

Miss(t) ==
    /\ pc[t] = "begun" /\ ~Usable(t)
    /\ pc' = [pc EXCEPT ![t] = "missed"]
    /\ UNCHANGED <<world, cache, name, now, got, result, history>>

FetchMetadata(t) ==
    /\ pc[t] = "missed"
    /\ got' = [got EXCEPT ![t] = [meta |-> Current(meta, name[t]), secret |-> 0]]
    /\ pc' = [pc EXCEPT ![t] = "described"]
    /\ UNCHANGED <<world, cache, name, now, result, history>>

\* A bug, for mutation: the credentials are read first, when the call begins.
FetchSecretsFirst(t) ==
    /\ pc[t] = "described"
    /\ got' = [got EXCEPT ![t].secret =
                  IF got[t].meta \in WithVault /\ token # <<>>
                    THEN Len(SelectSeq(secret[name[t]], LAMBDA i : i <= now[t])) + 1 ELSE 0]
    /\ pc' = [pc EXCEPT ![t] = "complete"]
    /\ UNCHANGED <<world, cache, name, now, result, history>>

\* Without a vault_path, or without a token, there are no credentials, and that
\* is no error.
FetchSecrets(t) ==
    /\ pc[t] = "described"
    /\ got' = [got EXCEPT ![t].secret =
                  IF got[t].meta \in WithVault /\ token # <<>>
                    THEN Current(secret, name[t]) ELSE 0]
    /\ pc' = [pc EXCEPT ![t] = "complete"]
    /\ UNCHANGED <<world, cache, name, now, result, history>>

\* A bug, for mutation: a failed fetch is cached as an empty answer.
RaiseCached(t) ==
    /\ pc[t] \in {"missed", "described"}
    /\ Return(t, NULL)
    /\ cache' = [cache EXCEPT ![name[t]] = [meta |-> 0, secret |-> 0, expires |-> now[t] + TTL]]

\* The collector answers 404 or an error, is unreachable, or Vault fails.
Raise(t) ==
    /\ pc[t] \in {"missed", "described"}
    /\ Return(t, NULL)
    /\ UNCHANGED cache

\* A bug, for mutation: the entry lives for a TTL from the end of the fetches.
StoreFromEnd(t) ==
    /\ pc[t] = "complete"
    /\ cache' = [cache EXCEPT ![name[t]] = [meta |-> got[t].meta, secret |-> got[t].secret,
                                            expires |-> clock + TTL]]
    /\ Return(t, got[t])

Store(t) ==
    /\ pc[t] = "complete"
    /\ cache' = [cache EXCEPT ![name[t]] = [meta |-> got[t].meta, secret |-> got[t].secret,
                                            expires |-> now[t] + TTL]]
    /\ Return(t, got[t])

-----------------------------------------------------------------------------
(* invalidate(), of one name or of all *)

Fetching(n) == \E t \in Threads : pc[t] \in {"missed", "described", "complete"} /\ name[t] = n

\* A bug, for mutation: entries that have not expired are kept.
InvalidateExpired(N) ==
    /\ cache' = [n \in Names |-> IF n \in N /\ cache[n] # NULL /\ cache[n].expires <= clock
                                   THEN NULL ELSE cache[n]]
    /\ floor' = [n \in Names |-> IF n \in N THEN Versions(n) ELSE floor[n]]
    /\ quiet' = [n \in Names |-> IF n \in N /\ ~Fetching(n) THEN Versions(n) ELSE quiet[n]]
    /\ UNCHANGED <<world, pc, name, now, got, result, due>>

Invalidate(N) ==
    /\ cache' = [n \in Names |-> IF n \in N THEN NULL ELSE cache[n]]
    /\ floor' = [n \in Names |-> IF n \in N THEN Versions(n) ELSE floor[n]]
    /\ quiet' = [n \in Names |-> IF n \in N /\ ~Fetching(n) THEN Versions(n) ELSE quiet[n]]
    /\ UNCHANGED <<world, pc, name, now, got, result, due>>

Next ==
    \/ Tick
    \/ ConfigureToken
    \/ \E n \in Names : ChangeMetadata(n) \/ RotateSecret(n) \/ Invalidate({n})
    \/ Invalidate(Names)
    \/ \E t \in Threads : \/ \E n \in Names : Begin(t, n)
                          \/ Hit(t) \/ Miss(t) \/ FetchMetadata(t) \/ FetchSecrets(t)
                          \/ Raise(t) \/ Store(t)

Spec == Init /\ [][Next]_vars

-----------------------------------------------------------------------------
(* Correctness. *)

\* Version v of history h was still current less than a TTL before instant s,
\* or at s.
FreshAt(h, v, s) == v > Len(h) \/ h[v] + TTL > s \/ h[v] >= s

\* Whatever the threads fetch and store in which order, a resolve() returns
\* metadata and credentials that were current less than cache_ttl_seconds before
\* the call began: slow fetches do not prolong the life of an entry.  It returns
\* no credentials for a name that has some only if the process had no Vault token
\* less than that before.
BoundedStaleness ==
    \A t \in Threads : pc[t] = "idle" /\ result[t] # NULL =>
        /\ FreshAt(meta[name[t]], result[t].meta, now[t])
        /\ result[t].secret # 0 => FreshAt(secret[name[t]], result[t].secret, now[t])
        /\ result[t].secret = 0 /\ result[t].meta \in WithVault => FreshAt(token, 1, now[t])

\* Metadata and credentials are read at two moments, but in this order: who gets
\* the metadata of a PUT also gets the credentials that were in Vault before it
\* (by the clock: of two changes at one instant it says nothing).
SecretIsNotOlderThanMetadata ==
    \A t \in Threads : pc[t] = "idle" /\ result[t] # NULL /\ result[t].secret # 0 =>
        LET m == result[t].meta
            s == result[t].secret
        IN  \/ m = 1 \/ s > Len(secret[name[t]])
            \/ secret[name[t]][s] >= meta[name[t]][m - 1]

\* r is no older than the versions m.
NotBefore(r, m) == r.meta >= m.meta /\ (r.secret # 0 => r.secret >= m.secret)

\* After an invalidate() of n that no fetch of n was under way at, no later
\* resolve() returns anything older than what was current at that moment.
QuietInvalidateIsFinal ==
    \A t \in Threads : pc[t] = "idle" /\ result[t] # NULL => NotBefore(result[t], due[t].quiet)

\* resolver.py:94 offers invalidate() for credential rotation, and
\* docs/DESIGN.md:280 makes it the procedure: rotate, then invalidate.  So no call
\* that begins after the invalidation should return the credentials of before the
\* rotation; a fetch that was under way at it stores them afterwards.
InvalidateIsFinal ==
    \A t \in Threads : pc[t] = "idle" /\ result[t] # NULL /\ result[t].secret # 0 =>
        result[t].secret >= due[t].floor.secret
=============================================================================
