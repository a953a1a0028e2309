----------------------------- MODULE ResolverProofs -----------------------------
(***************************************************************************)
(* What a resolve() returns, for any threads, names, TTL and changes.      *)
(*                                                                         *)
(* Every value in flight (fetched, cached or returned) goes with an        *)
(* instant since which it has been good: the moment the call that fetched  *)
(* it read the clock.  A cached entry keeps that instant in its expiry,    *)
(* which is why the time the fetches take does not count.                  *)
(***************************************************************************)
EXTENDS Resolver, Integers, TLAPS

\* Version v of history h was current at instant s or later.
Since(h, v, s) == v > Len(h) \/ h[v] >= s

\* What is known of metadata version m of a name with history h, whose last quiet
\* invalidation left q, fetched by a call that began at s.
GoodMeta(h, q, m, s) == m \in 1 .. Len(h) + 1 /\ Since(h, m, s) /\ m >= q.meta

\* The same of credentials x (0: none) that came with it; k is the history of the
\* secret, tok that of the token.
GoodSecret(h, k, tok, q, m, x, s) ==
    /\ x \in 0 .. Len(k) + 1
    /\ x = 0 => (m \in WithVault => Since(tok, 1, s))
    /\ x # 0 => /\ Since(k, x, s) /\ x >= q.secret
                /\ m = 1 \/ x > Len(k) \/ k[x] >= h[m - 1]

Good(h, k, tok, q, m, x, s) == GoodMeta(h, q, m, s) /\ GoodSecret(h, k, tok, q, m, x, s)

NotAfter(a, b) == a.meta <= b.meta /\ a.secret <= b.secret

\* The instants that are on record are past, and the bounds hold.
Clocks ==
    /\ \A t \in Threads : now[t] <= clock
    /\ \A n \in Names : /\ Len(meta[n]) < MaxVersion /\ Len(secret[n]) < MaxVersion
                        /\ \A i \in 1 .. Len(meta[n]) : meta[n][i] <= clock
                        /\ NotAfter(quiet[n], Versions(n))

Calls == \A t \in Threads :
    /\ pc[t] # "idle" => name[t] \in Names /\ NotAfter(due[t].quiet, quiet[name[t]])
    /\ result[t] # NULL => name[t] \in Names

Cached == \A n \in Names : cache[n] # NULL =>
    /\ cache[n].expires >= TTL /\ cache[n].expires - TTL <= clock
    /\ Good(meta[n], secret[n], token, quiet[n], cache[n].meta, cache[n].secret,
            cache[n].expires - TTL)

Fetched == \A t \in Threads :
    /\ pc[t] \in {"described", "complete"} => got[t] # NULL
    /\ pc[t] = "described" => GoodMeta(meta[name[t]], quiet[name[t]], got[t].meta, now[t])
    /\ pc[t] = "complete" => Good(meta[name[t]], secret[name[t]], token, quiet[name[t]],
                                  got[t].meta, got[t].secret, now[t])

\* A returned value has been good since less than a TTL before the call, or since
\* the call.
Returned == \A t \in Threads : result[t] # NULL =>
    \E s \in 0 .. clock :
        /\ s + TTL > now[t] \/ s >= now[t]
        /\ Good(meta[name[t]], secret[name[t]], token, due[t].quiet,
                result[t].meta, result[t].secret, s)

IndInv == TypeOK /\ Clocks /\ Calls /\ Cached /\ Fetched /\ Returned

-----------------------------------------------------------------------------
(* Good is kept when the world moves on. *)

\* The metadata are replaced at instant c.
LEMMA GoodMetaAfterChange ==
    ASSUME NEW h \in Seq(Nat), NEW q, NEW m, NEW s \in Nat, NEW c \in Nat, s <= c,
           GoodMeta(h, q, m, s)
    PROVE  GoodMeta(Append(h, c), q, m, s)
<1>1. m \in Nat \ {0} /\ (m \in 1 .. Len(h) \/ m = Len(h) + 1)
  BY DEF GoodMeta
<1>2. Len(Append(h, c)) = Len(h) + 1
  OBVIOUS
<1>3. CASE m \in 1 .. Len(h)
  BY <1>1, <1>2, <1>3 DEF GoodMeta, Since
<1>4. CASE m = Len(h) + 1
  <2>1. Append(h, c)[m] = c
    BY <1>4
  <2> QED
    BY <1>1, <1>2, <1>4, <2>1 DEF GoodMeta, Since
<1> QED
  BY <1>1, <1>3, <1>4

LEMMA GoodAfterChange ==
    ASSUME NEW h \in Seq(Nat), NEW k, NEW tok, NEW q, NEW m, NEW x, NEW s \in Nat,
           NEW c \in Nat, s <= c, Good(h, k, tok, q, m, x, s)
    PROVE  Good(Append(h, c), k, tok, q, m, x, s)
<1>1. GoodMeta(Append(h, c), q, m, s)
  BY GoodMetaAfterChange DEF Good
<1>2. m # 1 => Append(h, c)[m - 1] = h[m - 1]
  BY DEF Good, GoodMeta
<1> QED
  BY <1>1, <1>2 DEF Good, GoodSecret

\* The secret is rotated at instant c, after all changes of the metadata so far.
LEMMA GoodAfterRotation ==
    ASSUME NEW h \in Seq(Nat), NEW k \in Seq(Nat), NEW tok, NEW q, NEW m, NEW x,
           NEW s \in Nat, NEW c \in Nat, s <= c, \A i \in 1 .. Len(h) : h[i] <= c,
           Good(h, k, tok, q, m, x, s)
    PROVE  Good(h, Append(k, c), tok, q, m, x, s)
<1>1. Len(Append(k, c)) = Len(k) + 1
  OBVIOUS
<1>2. CASE x \in 1 .. Len(k)
  <2>1. Append(k, c)[x] = k[x]
    BY <1>2
  <2> QED
    BY <1>1, <1>2, <2>1 DEF Good, GoodSecret, Since
<1>3. CASE x = Len(k) + 1
  <2>1. Append(k, c)[x] = c
    BY <1>3
  <2>2. m # 1 => h[m - 1] <= c
    BY DEF Good, GoodMeta
  <2>3. m # 1 => h[m - 1] \in Nat
    BY DEF Good, GoodMeta
  <2> QED
    BY <1>1, <1>3, <2>1, <2>2, <2>3 DEF Good, GoodSecret, Since
<1>4. CASE x = 0
  BY <1>1, <1>4 DEF Good, GoodSecret
<1> QED
  BY <1>2, <1>3, <1>4 DEF Good, GoodSecret

\* The token is configured at instant c.
LEMMA GoodAfterToken ==
    ASSUME NEW h, NEW k, NEW q, NEW m, NEW x, NEW s \in Nat, NEW c \in Nat, s <= c,
           Good(h, k, <<>>, q, m, x, s)
    PROVE  Good(h, k, <<c>>, q, m, x, s)
BY DEF Good, GoodSecret, Since

\* An older invalidation asks for less.
LEMMA GoodOfOlder ==
    ASSUME NEW h, NEW k, NEW tok, NEW p \in Mark, NEW q \in Mark, NotAfter(p, q),
           NEW m \in Nat, NEW x \in Nat, NEW s, Good(h, k, tok, q, m, x, s)
    PROVE  Good(h, k, tok, p, m, x, s)
<1> p.meta \in Nat /\ q.meta \in Nat /\ p.secret \in Nat /\ q.secret \in Nat
  BY ResolverAssumption DEF Mark
<1> QED
  BY DEF Good, GoodMeta, GoodSecret, NotAfter

-----------------------------------------------------------------------------
(* The initial states, and the steps of the world outside. *)

LEMMA Types ==
    ASSUME TypeOK
    PROVE  /\ clock \in Nat /\ TTL \in Nat
           /\ \A n \in Names : meta[n] \in Seq(Nat) /\ secret[n] \in Seq(Nat)
           /\ \A t \in Threads : now[t] \in Nat
<1>1. 0 .. MaxClock \subseteq Nat /\ Seq(0 .. MaxClock) \subseteq Seq(Nat)
  BY ResolverAssumption
<1> QED
  BY <1>1, ResolverAssumption DEF TypeOK

LEMMA InitIndInv == Init => IndInv
<1> SUFFICES ASSUME Init PROVE IndInv
  OBVIOUS
<1>1. TypeOK
  <2>1. Nothing \in Mark
    BY ResolverAssumption DEF Nothing, Mark
  <2>2. <<>> \in Seq(0 .. MaxClock) /\ <<0>> \in Seq(0 .. MaxClock)
    BY ResolverAssumption
  <2>3. meta \in [Names -> Seq(0 .. MaxClock)] /\ secret \in [Names -> Seq(0 .. MaxClock)]
    BY <2>2 DEF Init
  <2>4. token \in Seq(0 .. MaxClock) /\ Len(token) <= 1
    <3>1. Len(<<>>) <= 1 /\ Len(<<0>>) <= 1
      OBVIOUS
    <3> QED
      BY <2>2, <3>1, token = <<>> \/ token = <<0>> DEF Init
  <2>5. clock \in 0 .. MaxClock /\ now \in [Threads -> 0 .. MaxClock]
    BY ResolverAssumption DEF Init
  <2> QED
    BY <2>1, <2>3, <2>4, <2>5 DEF Init, TypeOK
<1>2. Clocks
  BY ResolverAssumption DEF Init, Clocks, Nothing, NotAfter, Versions, Current
<1>3. Calls /\ Cached /\ Fetched /\ Returned
  BY DEF Init, Calls, Cached, Fetched, Returned
<1> QED
  BY <1>1, <1>2, <1>3 DEF IndInv

LEMMA TickKeepsInv == ASSUME IndInv, Tick PROVE IndInv'
<1> USE DEF Tick, code, history
<1>1. TypeOK'
  BY ResolverAssumption DEF IndInv, TypeOK
<1>2. clock \in Nat /\ clock' \in Nat /\ clock <= clock' /\ 0 .. clock \subseteq 0 .. clock'
  BY ResolverAssumption DEF IndInv, TypeOK
<1>3. Clocks'
  <2>1. \A n \in Names : \A i \in 1 .. Len(meta[n]) : meta[n][i] \in Nat
    BY Types DEF IndInv
  <2> QED
    BY <1>2, <2>1, Types DEF IndInv, Clocks, Versions, Current, NotAfter
<1>4. Calls' /\ Fetched'
  BY DEF IndInv, Calls, Fetched
<1>5. Cached'
  <2>1. \A n \in Names : cache[n] # NULL => cache[n].expires - TTL \in Int
    BY Types, ResolverAssumption DEF IndInv, TypeOK
  <2> QED
    BY <1>2, <2>1 DEF IndInv, Cached
<1>6. Returned'
  BY <1>2 DEF IndInv, Returned
<1> QED
  BY <1>1, <1>3, <1>4, <1>5, <1>6 DEF IndInv

LEMMA ChangeMetadataKeepsInv ==
    ASSUME IndInv, NEW n \in Names, ChangeMetadata(n) PROVE IndInv'
<1> USE DEF ChangeMetadata, code, history
<1>1. clock \in Nat /\ TTL \in Nat /\ meta[n] \in Seq(Nat) /\ meta[n] \in Seq(0 .. MaxClock)
  BY Types DEF IndInv, TypeOK
<1>2. meta' = [meta EXCEPT ![n] = Append(meta[n], clock)]
  BY DEF IndInv, TypeOK
<1>3. TypeOK'
  BY <1>1, <1>2, ResolverAssumption DEF IndInv, TypeOK
<1>4. meta'[n] = Append(meta[n], clock) /\ \A o \in Names \ {n} : meta'[o] = meta[o]
  BY <1>2 DEF IndInv, TypeOK
<1>5. Len(meta'[n]) = Len(meta[n]) + 1
  BY <1>1, <1>4
<1>6. Clocks'
  <2>1. \A i \in 1 .. Len(meta'[n]) : meta'[n][i] <= clock
    BY <1>1, <1>4, <1>5 DEF IndInv, Clocks
  <2>2. Len(meta'[n]) < MaxVersion
    BY <1>1, <1>5, ResolverAssumption DEF Current
  <2>3. NotAfter(quiet[n], Versions(n))'
    BY <1>1, <1>5 DEF IndInv, TypeOK, Clocks, NotAfter, Versions, Current, Mark
  <2> QED
    BY <1>4, <2>1, <2>2, <2>3 DEF IndInv, Clocks, NotAfter, Versions, Current
<1>7. Calls'
  BY DEF IndInv, Calls
<1>8. Cached'
  <2> SUFFICES ASSUME NEW o \in Names, cache[o] # NULL
               PROVE  Good(meta'[o], secret[o], token, quiet[o], cache[o].meta,
                           cache[o].secret, cache[o].expires - TTL)
    BY DEF IndInv, Cached
  <2>1. /\ cache[o].expires - TTL \in Nat /\ cache[o].expires - TTL <= clock
        /\ Good(meta[o], secret[o], token, quiet[o], cache[o].meta, cache[o].secret,
                cache[o].expires - TTL)
    BY <1>1 DEF IndInv, Cached, TypeOK
  <2> QED
    BY <1>1, <1>4, <2>1, GoodAfterChange
<1>9. Fetched'
  <2> SUFFICES ASSUME NEW t \in Threads
               PROVE  /\ pc[t] = "described" => GoodMeta(meta'[name[t]], quiet[name[t]],
                                                         got[t].meta, now[t])
                      /\ pc[t] = "complete" =>
                           Good(meta'[name[t]], secret[name[t]], token, quiet[name[t]],
                                got[t].meta, got[t].secret, now[t])
    BY DEF IndInv, Fetched
  <2>1. now[t] \in Nat /\ now[t] <= clock /\ (pc[t] # "idle" => name[t] \in Names)
    BY Types DEF IndInv, Clocks, Calls
  <2>2. CASE pc[t] = "described"
    BY <1>1, <1>4, <2>1, <2>2, GoodMetaAfterChange DEF IndInv, Fetched
  <2>3. CASE pc[t] = "complete"
    BY <1>1, <1>4, <2>1, <2>3, GoodAfterChange DEF IndInv, Fetched
  <2> QED
    BY <2>2, <2>3
<1>10. Returned'
  <2> SUFFICES ASSUME NEW t \in Threads, result[t] # NULL
               PROVE  \E s \in 0 .. clock :
                        /\ s + TTL > now[t] \/ s >= now[t]
                        /\ Good(meta'[name[t]], secret[name[t]], token, due[t].quiet,
                                result[t].meta, result[t].secret, s)
    BY DEF Returned
  <2>1. PICK s \in 0 .. clock :
           /\ s + TTL > now[t] \/ s >= now[t]
           /\ Good(meta[name[t]], secret[name[t]], token, due[t].quiet,
                   result[t].meta, result[t].secret, s)
    BY DEF IndInv, Returned
  <2>2. name[t] \in Names /\ s \in Nat /\ s <= clock
    BY <1>1 DEF IndInv, Calls
  <2>3. Good(meta'[name[t]], secret[name[t]], token, due[t].quiet,
             result[t].meta, result[t].secret, s)
    BY <1>1, <1>4, <2>1, <2>2, GoodAfterChange
  <2> QED
    BY <2>1, <2>3
<1> QED
  BY <1>3, <1>6, <1>7, <1>8, <1>9, <1>10 DEF IndInv

LEMMA RotateSecretKeepsInv ==
    ASSUME IndInv, NEW n \in Names, RotateSecret(n) PROVE IndInv'
<1> USE DEF RotateSecret, code, history
<1>1. /\ clock \in Nat /\ TTL \in Nat
      /\ secret[n] \in Seq(Nat) /\ secret[n] \in Seq(0 .. MaxClock)
      /\ \A o \in Names : meta[o] \in Seq(Nat) /\ \A i \in 1 .. Len(meta[o]) : meta[o][i] <= clock
  BY Types DEF IndInv, TypeOK, Clocks
<1>2. secret' = [secret EXCEPT ![n] = Append(secret[n], clock)]
  BY DEF IndInv, TypeOK
<1>3. TypeOK'
  BY <1>1, <1>2, ResolverAssumption DEF IndInv, TypeOK
<1>4. secret'[n] = Append(secret[n], clock) /\ \A o \in Names \ {n} : secret'[o] = secret[o]
  BY <1>2 DEF IndInv, TypeOK
<1>5. Len(secret'[n]) = Len(secret[n]) + 1
  BY <1>1, <1>4
<1>6. ASSUME NEW o \in Names, NEW q, NEW m, NEW x, NEW s \in Nat, s <= clock,
              Good(meta[o], secret[o], token, q, m, x, s)
       PROVE  Good(meta[o], secret'[o], token, q, m, x, s)
  <2>1. CASE o = n
    <3>1. Good(meta[n], Append(secret[n], clock), token, q, m, x, s)
      BY <1>1, <1>6, <2>1, GoodAfterRotation
    <3> QED
      BY <1>4, <2>1, <3>1
  <2>2. CASE o # n
    BY <1>4, <1>6, <2>2
  <2> QED
    BY <2>1, <2>2
<1>7. Clocks'
  <2>1. Len(secret'[n]) < MaxVersion
    BY <1>1, <1>5, ResolverAssumption DEF Current
  <2>2. NotAfter(quiet[n], Versions(n))'
    BY <1>1, <1>5 DEF IndInv, TypeOK, Clocks, NotAfter, Versions, Current, Mark
  <2> QED
    BY <1>4, <2>1, <2>2 DEF IndInv, Clocks, NotAfter, Versions, Current
<1>8. Calls'
  BY DEF IndInv, Calls
<1>9. Cached'
  <2> SUFFICES ASSUME NEW o \in Names, cache[o] # NULL
               PROVE  Good(meta[o], secret'[o], token, quiet[o], cache[o].meta,
                           cache[o].secret, cache[o].expires - TTL)
    BY DEF IndInv, Cached
  <2>1. /\ cache[o].expires - TTL \in Nat /\ cache[o].expires - TTL <= clock
        /\ Good(meta[o], secret[o], token, quiet[o], cache[o].meta, cache[o].secret,
                cache[o].expires - TTL)
    BY <1>1 DEF IndInv, Cached, TypeOK
  <2> QED
    BY <1>1, <2>1, <1>6
<1>10. Fetched'
  <2> SUFFICES ASSUME NEW t \in Threads, pc[t] = "complete"
               PROVE  Good(meta[name[t]], secret'[name[t]], token, quiet[name[t]],
                           got[t].meta, got[t].secret, now[t])
    BY DEF IndInv, Fetched
  <2>1. now[t] \in Nat /\ now[t] <= clock /\ name[t] \in Names
    BY Types DEF IndInv, Clocks, Calls
  <2> QED
    BY <1>1, <1>4, <2>1, <1>6 DEF IndInv, Fetched
<1>11. Returned'
  <2> SUFFICES ASSUME NEW t \in Threads, result[t] # NULL
               PROVE  \E s \in 0 .. clock :
                        /\ s + TTL > now[t] \/ s >= now[t]
                        /\ Good(meta[name[t]], secret'[name[t]], token, due[t].quiet,
                                result[t].meta, result[t].secret, s)
    BY DEF Returned
  <2>1. PICK s \in 0 .. clock :
           /\ s + TTL > now[t] \/ s >= now[t]
           /\ Good(meta[name[t]], secret[name[t]], token, due[t].quiet,
                   result[t].meta, result[t].secret, s)
    BY DEF IndInv, Returned
  <2>2. name[t] \in Names /\ s \in Nat /\ s <= clock
    BY <1>1 DEF IndInv, Calls
  <2>3. Good(meta[name[t]], secret'[name[t]], token, due[t].quiet,
             result[t].meta, result[t].secret, s)
    BY <1>1, <2>1, <2>2, <1>6
  <2> QED
    BY <2>1, <2>3
<1> QED
  BY <1>3, <1>7, <1>8, <1>9, <1>10, <1>11 DEF IndInv

LEMMA ConfigureTokenKeepsInv == ASSUME IndInv, ConfigureToken PROVE IndInv'
<1> USE DEF ConfigureToken, code, history
<1>1. clock \in Nat /\ TTL \in Nat
  BY Types DEF IndInv
<1>2. TypeOK'
  <2>1. token' \in Seq(0 .. MaxClock) /\ Len(token') <= 1
    BY DEF IndInv, TypeOK
  <2> QED
    BY <2>1 DEF IndInv, TypeOK
<1>3. Clocks' /\ Calls'
  BY DEF IndInv, Clocks, Calls, Versions, Current
<1>4. Cached'
  <2> SUFFICES ASSUME NEW o \in Names, cache[o] # NULL
               PROVE  Good(meta[o], secret[o], <<clock>>, quiet[o], cache[o].meta,
                           cache[o].secret, cache[o].expires - TTL)
    BY DEF IndInv, Cached
  <2>1. /\ cache[o].expires - TTL \in Nat /\ cache[o].expires - TTL <= clock
        /\ Good(meta[o], secret[o], <<>>, quiet[o], cache[o].meta, cache[o].secret,
                cache[o].expires - TTL)
    BY <1>1 DEF IndInv, Cached, TypeOK
  <2> QED
    BY <1>1, <2>1, GoodAfterToken
<1>5. Fetched'
  <2> SUFFICES ASSUME NEW t \in Threads, pc[t] = "complete"
               PROVE  Good(meta[name[t]], secret[name[t]], <<clock>>, quiet[name[t]],
                           got[t].meta, got[t].secret, now[t])
    BY DEF IndInv, Fetched
  <2>1. now[t] \in Nat /\ now[t] <= clock
    BY Types DEF IndInv, Clocks
  <2> QED
    BY <1>1, <2>1, GoodAfterToken DEF IndInv, Fetched
<1>6. Returned'
  <2> SUFFICES ASSUME NEW t \in Threads, result[t] # NULL
               PROVE  \E s \in 0 .. clock :
                        /\ s + TTL > now[t] \/ s >= now[t]
                        /\ Good(meta[name[t]], secret[name[t]], <<clock>>, due[t].quiet,
                                result[t].meta, result[t].secret, s)
    BY DEF Returned
  <2>1. PICK s \in 0 .. clock :
           /\ s + TTL > now[t] \/ s >= now[t]
           /\ Good(meta[name[t]], secret[name[t]], <<>>, due[t].quiet,
                   result[t].meta, result[t].secret, s)
    BY DEF IndInv, Returned
  <2>2. Good(meta[name[t]], secret[name[t]], <<clock>>, due[t].quiet,
             result[t].meta, result[t].secret, s)
    BY <1>1, <2>1, GoodAfterToken
  <2> QED
    BY <2>1, <2>2
<1> QED
  BY <1>2, <1>3, <1>4, <1>5, <1>6 DEF IndInv

-----------------------------------------------------------------------------
(* The steps of resolve() and invalidate(). *)

\* The clock is read when the call begins.
LEMMA BeginKeepsInv ==
    ASSUME IndInv, NEW t \in Threads, NEW n \in Names, Begin(t, n) PROVE IndInv'
<1> USE DEF Begin, world
<1>1. TypeOK'
  <2>1. [floor |-> floor[n], quiet |-> quiet[n]] \in [floor: Mark, quiet: Mark]
    BY DEF IndInv, TypeOK
  <2>2. due' \in [Threads -> [floor: Mark, quiet: Mark]]
    BY <2>1 DEF IndInv, TypeOK
  <2> QED
    BY <2>2 DEF IndInv, TypeOK
<1>2. clock <= clock /\ NotAfter(quiet[n], quiet[n])
  BY ResolverAssumption DEF IndInv, TypeOK, Mark, NotAfter
<1>3. Clocks'
  BY <1>2 DEF IndInv, TypeOK, Clocks, Versions, Current
<1>4. Calls'
  BY <1>2 DEF IndInv, TypeOK, Calls
<1>5. Cached' /\ Fetched' /\ Returned'
  BY DEF IndInv, TypeOK, Cached, Fetched, Returned
<1> QED
  BY <1>1, <1>3, <1>4, <1>5 DEF IndInv

\* A call that ends with a good value, or raises.
LEMMA ReturnKeepsInv ==
    ASSUME IndInv, NEW t \in Threads, NEW v \in Value \cup {NULL}, Return(t, v),
           pc[t] # "idle",
           v # NULL => \E s \in 0 .. clock :
               /\ s + TTL > now[t] \/ s >= now[t]
               /\ Good(meta[name[t]], secret[name[t]], token, due[t].quiet, v.meta, v.secret, s)
    PROVE  /\ TypeOK /\ cache' \in [Names -> [meta: 1..MaxVersion, secret: 0..MaxVersion,
                                              expires: Nat] \cup {NULL}] => TypeOK'
           /\ Clocks' /\ Calls' /\ Fetched' /\ Returned'
<1> USE DEF Return, world, history
<1>1. TypeOK /\ cache' \in [Names -> [meta: 1..MaxVersion, secret: 0..MaxVersion,
                                      expires: Nat] \cup {NULL}] => TypeOK'
  BY DEF TypeOK
<1>2. Clocks'
  BY DEF IndInv, Clocks, Versions, Current
<1>3. Calls'
  BY DEF IndInv, TypeOK, Calls
<1>4. Fetched'
  BY DEF IndInv, TypeOK, Fetched
<1>5. Returned'
  BY DEF IndInv, TypeOK, Returned
<1> QED
  BY <1>1, <1>2, <1>3, <1>4, <1>5

\* A value that is good for the last quiet invalidation is good for the one
\* before the call.
LEMMA DueIsOlder ==
    ASSUME IndInv, NEW t \in Threads, pc[t] # "idle", NEW m \in Nat, NEW x \in Nat, NEW s,
           Good(meta[name[t]], secret[name[t]], token, quiet[name[t]], m, x, s)
    PROVE  Good(meta[name[t]], secret[name[t]], token, due[t].quiet, m, x, s)
<1>1. name[t] \in Names /\ NotAfter(due[t].quiet, quiet[name[t]])
  BY DEF IndInv, Calls
<1>2. due[t].quiet \in Mark /\ quiet[name[t]] \in Mark
  BY <1>1 DEF IndInv, TypeOK
<1> QED
  BY <1>1, <1>2, GoodOfOlder

\* A hit returns what has been good since a TTL before the entry expires.
LEMMA HitKeepsInv == ASSUME IndInv, NEW t \in Threads, Hit(t) PROVE IndInv'
<1> DEFINE n == name[t]
           v == [meta |-> cache[n].meta, secret |-> cache[n].secret]
           s == cache[n].expires - TTL
<1>1. /\ n \in Names /\ cache[n] # NULL /\ cache[n].expires > now[t] /\ pc[t] # "idle"
      /\ Return(t, v) /\ UNCHANGED cache
  BY DEF IndInv, Calls, Hit, Usable
<1>2. cache[n] \in [meta: 1..MaxVersion, secret: 0..MaxVersion, expires: Nat]
  BY <1>1 DEF IndInv, TypeOK
<1>3. v \in Value /\ v.meta \in Nat /\ v.secret \in Nat
  BY <1>2, ResolverAssumption DEF Value
<1>4. s \in 0 .. clock /\ s + TTL > now[t]
  BY <1>1, <1>2, Types DEF IndInv, Cached
<1>5. Good(meta[n], secret[n], token, quiet[n], v.meta, v.secret, s)
  BY <1>1 DEF IndInv, Cached
<1>6. Good(meta[n], secret[n], token, due[t].quiet, v.meta, v.secret, s)
  BY <1>1, <1>3, <1>5, DueIsOlder
<1> HIDE DEF n, v, s
<1>7. TypeOK' /\ Clocks' /\ Calls' /\ Fetched' /\ Returned'
  <2>1. cache' \in [Names -> [meta: 1..MaxVersion, secret: 0..MaxVersion, expires: Nat] \cup {NULL}]
    BY <1>1 DEF IndInv, TypeOK
  <2>2. Good(meta[name[t]], secret[name[t]], token, due[t].quiet, v.meta, v.secret, s)
    BY <1>6 DEF n
  <2> QED
    BY <1>1, <1>3, <1>4, <2>1, <2>2, ReturnKeepsInv DEF IndInv
<1>8. Cached'
  BY <1>1 DEF IndInv, Cached, Return, world, history
<1> QED
  BY <1>7, <1>8 DEF IndInv

LEMMA RaiseKeepsInv == ASSUME IndInv, NEW t \in Threads, Raise(t) PROVE IndInv'
<1>1. Return(t, NULL) /\ UNCHANGED cache /\ pc[t] # "idle"
  BY DEF Raise
<1>2. TypeOK' /\ Clocks' /\ Calls' /\ Fetched' /\ Returned'
  <2>1. cache' \in [Names -> [meta: 1..MaxVersion, secret: 0..MaxVersion, expires: Nat] \cup {NULL}]
    BY <1>1 DEF IndInv, TypeOK
  <2> QED
    BY <1>1, <2>1, ReturnKeepsInv DEF IndInv
<1>3. Cached'
  BY <1>1 DEF IndInv, Cached, Return, world, history
<1> QED
  BY <1>2, <1>3 DEF IndInv

LEMMA MissKeepsInv == ASSUME IndInv, NEW t \in Threads, Miss(t) PROVE IndInv'
<1> USE DEF Miss, world, history
<1>1. TypeOK' /\ Clocks' /\ Calls'
  BY DEF IndInv, TypeOK, Clocks, Calls, Versions, Current
<1>2. Cached' /\ Fetched' /\ Returned'
  BY DEF IndInv, TypeOK, Cached, Fetched, Returned
<1> QED
  BY <1>1, <1>2 DEF IndInv

\* What is fetched is current, and no older than what a quiet invalidation left.
LEMMA FetchMetadataKeepsInv == ASSUME IndInv, NEW t \in Threads, FetchMetadata(t) PROVE IndInv'
<1> USE DEF FetchMetadata, world, history
<1> DEFINE n == name[t]
           m == Len(meta[n]) + 1
<1>1. n \in Names /\ meta[n] \in Seq(Nat) /\ Len(meta[n]) \in Nat /\ now[t] \in Nat
  BY Types DEF IndInv, Calls
<1>2. m \in 1 .. MaxVersion
  BY <1>1, ResolverAssumption DEF IndInv, Clocks
<1>3. [meta |-> m, secret |-> 0] \in Mark
  BY <1>2, ResolverAssumption DEF Mark
<1>4. got' = [got EXCEPT ![t] = [meta |-> m, secret |-> 0]]
  BY DEF Current
<1>5. TypeOK'
  <2>1. got' \in [Threads -> Mark \cup {NULL}]
    BY <1>3, <1>4 DEF IndInv, TypeOK
  <2> QED
    BY <2>1 DEF IndInv, TypeOK
<1>6. Clocks' /\ Calls'
  BY DEF IndInv, TypeOK, Clocks, Calls, Versions, Current
<1>7. Cached' /\ Returned'
  BY DEF IndInv, Cached, Returned
<1>8. Fetched'
  <2>1. GoodMeta(meta[n], quiet[n], m, now[t])
    <3>1. m >= quiet[n].meta
      BY <1>1 DEF IndInv, Clocks, NotAfter, Versions, Current, TypeOK, Mark
    <3> QED
      BY <1>1, <3>1 DEF GoodMeta, Since
  <2>2. got'[t].meta = m /\ got'[t] # NULL /\ pc'[t] = "described"
    BY <1>2, <1>4, ResolverAssumption DEF IndInv, TypeOK
  <2>3. \A u \in Threads \ {t} : got'[u] = got[u] /\ pc'[u] = pc[u]
    BY <1>4 DEF IndInv, TypeOK
  <2> QED
    BY <2>1, <2>2, <2>3 DEF IndInv, Fetched
<1> QED
  BY <1>5, <1>6, <1>7, <1>8 DEF IndInv

LEMMA FetchSecretsKeepsInv == ASSUME IndInv, NEW t \in Threads, FetchSecrets(t) PROVE IndInv'
<1> USE DEF FetchSecrets, world, history
<1> DEFINE n == name[t]
           m == got[t].meta
           x == IF m \in WithVault /\ token # <<>> THEN Len(secret[n]) + 1 ELSE 0
<1>1. /\ n \in Names /\ secret[n] \in Seq(Nat) /\ Len(secret[n]) \in Nat /\ now[t] \in Nat
      /\ got[t] # NULL /\ GoodMeta(meta[n], quiet[n], m, now[t])
  BY Types DEF IndInv, Calls, Fetched
<1>2. got[t] \in Mark
  BY <1>1 DEF IndInv, TypeOK
<1>3. x \in 0 .. MaxVersion
  BY <1>1, ResolverAssumption DEF IndInv, Clocks
<1>4. got' = [got EXCEPT ![t] = [got[t] EXCEPT !.secret = x]]
  BY DEF Current, IndInv, TypeOK
<1>5. [got[t] EXCEPT !.secret = x] \in Mark
  BY <1>2, <1>3 DEF Mark
<1>6. TypeOK'
  <2>1. got' \in [Threads -> Mark \cup {NULL}]
    BY <1>4, <1>5 DEF IndInv, TypeOK
  <2> QED
    BY <2>1 DEF IndInv, TypeOK
<1>7. Clocks' /\ Calls'
  BY DEF IndInv, TypeOK, Clocks, Calls, Versions, Current
<1>8. Cached' /\ Returned'
  BY DEF IndInv, Cached, Returned
<1>9. Fetched'
  <2>1. GoodSecret(meta[n], secret[n], token, quiet[n], m, x, now[t])
    <3>1. CASE x = 0
      <4>1. m \in WithVault => token = <<>>
        BY <1>1, <3>1
      <4>2. m \in WithVault => Since(token, 1, now[t])
        BY <4>1 DEF Since
      <4> QED
        BY <1>1, <3>1, <4>2 DEF GoodSecret
    <3>2. CASE x # 0
      <4>1. x = Len(secret[n]) + 1
        BY <3>2
      <4>2. x >= quiet[n].secret
        BY <1>1, <4>1 DEF IndInv, Clocks, NotAfter, Versions, Current, TypeOK, Mark
      <4> HIDE DEF x
      <4> QED
        BY <1>1, <3>2, <4>1, <4>2 DEF GoodSecret, Since
    <3> QED
      BY <3>1, <3>2
  <2>2. got'[t].meta = m /\ got'[t].secret = x /\ got'[t] # NULL /\ pc'[t] = "complete"
    <3>1. got'[t] = [got[t] EXCEPT !.secret = x] /\ pc'[t] = "complete"
      BY <1>4 DEF IndInv, TypeOK
    <3>2. got'[t].meta = m /\ got'[t].secret = x
      BY <1>2, <3>1 DEF Mark
    <3>3. got'[t] \in [meta: Nat, secret: Nat]
      <4>1. Mark \subseteq [meta: Nat, secret: Nat]
        BY ResolverAssumption DEF Mark
      <4> QED
        BY <1>5, <3>1, <4>1
    <3> QED
      BY <3>1, <3>2, <3>3, ResolverAssumption
  <2>3. \A u \in Threads \ {t} : got'[u] = got[u] /\ pc'[u] = pc[u]
    BY <1>4 DEF IndInv, TypeOK
  <2>4. Good(meta[n], secret[n], token, quiet[n], m, x, now[t])
    BY <1>1, <2>1 DEF Good
  <2> HIDE DEF x, m
  <2> QED
    BY <2>2, <2>3, <2>4 DEF IndInv, Fetched
<1> QED
  BY <1>6, <1>7, <1>8, <1>9 DEF IndInv

\* The entry expires a TTL after the clock was read.
LEMMA StoreKeepsInv == ASSUME IndInv, NEW t \in Threads, Store(t) PROVE IndInv'
<1> DEFINE n == name[t]
           e == [meta |-> got[t].meta, secret |-> got[t].secret, expires |-> now[t] + TTL]
<1>1. /\ n \in Names /\ now[t] \in Nat /\ now[t] <= clock /\ TTL \in Nat /\ clock \in Nat
      /\ got[t] # NULL /\ pc[t] # "idle" /\ Return(t, got[t])
      /\ cache' = [cache EXCEPT ![n] = e]
      /\ Good(meta[n], secret[n], token, quiet[n], got[t].meta, got[t].secret, now[t])
  BY Types DEF IndInv, Calls, Clocks, Fetched, Store
<1>2. got[t] \in Mark /\ got[t].meta \in Nat /\ got[t].secret \in Nat
  BY <1>1, ResolverAssumption DEF IndInv, TypeOK, Mark
<1>3. got[t].meta >= 1
  BY <1>1 DEF Good, GoodMeta
<1>4. got[t] \in Value
  BY <1>2, <1>3, ResolverAssumption DEF Value, Mark
<1>5. e \in [meta: 1..MaxVersion, secret: 0..MaxVersion, expires: Nat]
  BY <1>1, <1>4 DEF Value
<1>6. TypeOK' /\ Clocks' /\ Calls' /\ Fetched' /\ Returned'
  <2>1. cache' \in [Names -> [meta: 1..MaxVersion, secret: 0..MaxVersion, expires: Nat] \cup {NULL}]
    BY <1>1, <1>5 DEF IndInv, TypeOK
  <2>2. Good(meta[name[t]], secret[name[t]], token, due[t].quiet, got[t].meta, got[t].secret, now[t])
    BY <1>1, <1>2, DueIsOlder
  <2>3. now[t] \in 0 .. clock /\ now[t] >= now[t]
    BY <1>1
  <2> QED
    BY <1>1, <1>4, <2>1, <2>2, <2>3, ReturnKeepsInv DEF IndInv
<1>7. Cached'
  <2>1. e.expires - TTL = now[t] /\ e.expires >= TTL
    BY <1>1
  <2>2. cache'[n] = e /\ \A o \in Names \ {n} : cache'[o] = cache[o]
    BY <1>1 DEF IndInv, TypeOK
  <2>3. UNCHANGED <<clock, meta, secret, token, quiet>>
    BY <1>1 DEF Return, world, history
  <2>4. e.meta = got[t].meta /\ e.secret = got[t].secret
    OBVIOUS
  <2> HIDE DEF e, n
  <2> QED
    BY <1>1, <2>1, <2>2, <2>3, <2>4 DEF IndInv, Cached
<1> QED
  BY <1>6, <1>7 DEF IndInv

\* Without a fetch under way, nothing that is left is older than the versions of
\* the moment; what callers hold was due before.
LEMMA InvalidateKeepsInv == ASSUME IndInv, NEW N \in SUBSET Names, Invalidate(N) PROVE IndInv'
<1> USE DEF Invalidate, world
<1>1. \A n \in Names : /\ Versions(n) \in Mark
                       /\ NotAfter(quiet[n], Versions(n)) /\ NotAfter(Versions(n), Versions(n))
  <2> SUFFICES ASSUME NEW n \in Names
               PROVE  /\ Versions(n) \in Mark
                      /\ NotAfter(quiet[n], Versions(n)) /\ NotAfter(Versions(n), Versions(n))
    OBVIOUS
  <2>1. /\ Len(meta[n]) \in Nat /\ Len(secret[n]) \in Nat
        /\ Len(meta[n]) < MaxVersion /\ Len(secret[n]) < MaxVersion
    BY Types DEF IndInv, Clocks
  <2> QED
    BY <2>1, ResolverAssumption DEF IndInv, Clocks, Versions, Current, Mark, NotAfter
<1>2. \A n \in Names : /\ quiet'[n] = quiet[n] \/ (quiet'[n] = Versions(n) /\ ~Fetching(n))
                       /\ cache'[n] = NULL \/ (cache'[n] = cache[n] /\ quiet'[n] = quiet[n])
  BY DEF IndInv, TypeOK
<1>3. TypeOK'
  BY <1>1 DEF IndInv, TypeOK
<1>4. Clocks'
  BY <1>1, <1>2 DEF IndInv, Clocks, Versions, Current
<1>5. Calls'
  <2> SUFFICES ASSUME NEW t \in Threads, pc[t] # "idle"
               PROVE  NotAfter(due[t].quiet, quiet'[name[t]])
    BY DEF IndInv, Calls
  <2>1. name[t] \in Names /\ NotAfter(due[t].quiet, quiet[name[t]])
    BY DEF IndInv, Calls
  <2>2. due[t].quiet \in Mark /\ quiet[name[t]] \in Mark /\ Versions(name[t]) \in Mark
    BY <1>1, <2>1 DEF IndInv, TypeOK
  <2>3. NotAfter(due[t].quiet, Versions(name[t]))
    BY <1>1, <2>1, <2>2, ResolverAssumption DEF NotAfter, Mark
  <2> QED
    BY <1>2, <2>1, <2>3
<1>6. Cached'
  BY <1>2 DEF IndInv, Cached
<1>7. Fetched'
  <2> SUFFICES ASSUME NEW t \in Threads, pc[t] \in {"described", "complete"}
               PROVE  quiet'[name[t]] = quiet[name[t]]
    BY DEF IndInv, Fetched
  <2> QED
    BY <1>2 DEF IndInv, Calls, Fetching
<1>8. Returned'
  BY DEF IndInv, Returned
<1> QED
  BY <1>3, <1>4, <1>5, <1>6, <1>7, <1>8 DEF IndInv

LEMMA StepKeepsInv == ASSUME IndInv, [Next]_vars PROVE IndInv'
<1>1. CASE Tick
  BY <1>1, TickKeepsInv
<1>2. CASE ConfigureToken
  BY <1>2, ConfigureTokenKeepsInv
<1>3. ASSUME NEW n \in Names, ChangeMetadata(n) \/ RotateSecret(n) PROVE IndInv'
  BY <1>3, ChangeMetadataKeepsInv, RotateSecretKeepsInv
<1>4. ASSUME NEW N \in SUBSET Names, Invalidate(N) PROVE IndInv'
  BY <1>4, InvalidateKeepsInv
<1>5. ASSUME NEW t \in Threads,
             \/ \E n \in Names : Begin(t, n)
             \/ Hit(t) \/ Miss(t) \/ FetchMetadata(t) \/ FetchSecrets(t)
             \/ Raise(t) \/ Store(t)
      PROVE  IndInv'
  BY <1>5, BeginKeepsInv, HitKeepsInv, MissKeepsInv, FetchMetadataKeepsInv,
     FetchSecretsKeepsInv, RaiseKeepsInv, StoreKeepsInv
<1>6. CASE UNCHANGED vars
  BY <1>6 DEF IndInv, TypeOK, Clocks, Calls, Cached, Fetched, Returned, Versions, Current,
              vars, world, code, history
<1>7. \A n \in Names : {n} \in SUBSET Names
  OBVIOUS
<1> QED
  BY <1>1, <1>2, <1>3, <1>4, <1>5, <1>6, <1>7 DEF Next

-----------------------------------------------------------------------------
(* What the invariant says of the returned values. *)

\* A version that was current since s was current less than a TTL before the call
\* if s is.
LEMMA SinceIsFresh ==
    ASSUME NEW h \in Seq(Nat), NEW v \in 1 .. Len(h) + 1, NEW s \in Nat, NEW c \in Nat,
           TTL \in Nat, Since(h, v, s), s + TTL > c \/ s >= c
    PROVE  FreshAt(h, v, c)
<1>1. CASE v > Len(h)
  BY <1>1 DEF FreshAt
<1>2. CASE v \in 1 .. Len(h)
  <2>1. h[v] \in Nat /\ h[v] >= s
    BY <1>2 DEF Since
  <2> QED
    BY <2>1 DEF FreshAt
<1> QED
  BY <1>1, <1>2

LEMMA InvIsBounded == ASSUME IndInv PROVE BoundedStaleness
<1> SUFFICES ASSUME NEW t \in Threads, result[t] # NULL
             PROVE  /\ FreshAt(meta[name[t]], result[t].meta, now[t])
                    /\ result[t].secret # 0 => FreshAt(secret[name[t]], result[t].secret, now[t])
                    /\ result[t].secret = 0 /\ result[t].meta \in WithVault
                         => FreshAt(token, 1, now[t])
  BY DEF BoundedStaleness
<1> DEFINE n == name[t]
           m == result[t].meta
           x == result[t].secret
<1>1. /\ n \in Names /\ now[t] \in Nat /\ TTL \in Nat /\ clock \in Nat
      /\ meta[n] \in Seq(Nat) /\ secret[n] \in Seq(Nat)
  BY Types DEF IndInv, Calls
<1>2. PICK s \in 0 .. clock :
         /\ s + TTL > now[t] \/ s >= now[t]
         /\ Good(meta[n], secret[n], token, due[t].quiet, m, x, s)
  BY DEF IndInv, Returned
<1>3. s \in Nat
  BY <1>1
<1>4. FreshAt(meta[n], m, now[t])
  BY <1>1, <1>2, <1>3, SinceIsFresh DEF Good, GoodMeta
<1>5. x # 0 => FreshAt(secret[n], x, now[t])
  BY <1>1, <1>2, <1>3, SinceIsFresh DEF Good, GoodSecret
<1>6. x = 0 /\ m \in WithVault => FreshAt(token, 1, now[t])
  <2>1. token \in Seq(Nat) /\ 1 \in 1 .. Len(token) + 1
    <3>1. token \in Seq(0 .. MaxClock)
      BY DEF IndInv, TypeOK
    <3>2. 0 .. MaxClock \subseteq Nat /\ Seq(0 .. MaxClock) \subseteq Seq(Nat)
      BY ResolverAssumption
    <3>3. Len(token) \in Nat
      BY <3>1
    <3> QED
      BY <3>1, <3>2, <3>3
  <2> QED
    BY <1>1, <1>2, <1>3, <2>1, SinceIsFresh DEF Good, GoodSecret
<1> QED
  BY <1>4, <1>5, <1>6

LEMMA InvIsOrdered == ASSUME IndInv PROVE SecretIsNotOlderThanMetadata
<1> SUFFICES ASSUME NEW t \in Threads, result[t] # NULL, result[t].secret # 0
             PROVE  \/ result[t].meta = 1 \/ result[t].secret > Len(secret[name[t]])
                    \/ secret[name[t]][result[t].secret] >= meta[name[t]][result[t].meta - 1]
  BY DEF SecretIsNotOlderThanMetadata
<1>1. \E s \in 0 .. clock : Good(meta[name[t]], secret[name[t]], token, due[t].quiet,
                                 result[t].meta, result[t].secret, s)
  BY DEF IndInv, Returned
<1> QED
  BY <1>1 DEF Good, GoodSecret

LEMMA InvIsFinal == ASSUME IndInv PROVE QuietInvalidateIsFinal
<1> SUFFICES ASSUME NEW t \in Threads, result[t] # NULL
             PROVE  NotBefore(result[t], due[t].quiet)
  BY DEF QuietInvalidateIsFinal
<1>1. \E s \in 0 .. clock : Good(meta[name[t]], secret[name[t]], token, due[t].quiet,
                                 result[t].meta, result[t].secret, s)
  BY DEF IndInv, Returned
<1> QED
  BY <1>1 DEF Good, GoodMeta, GoodSecret, NotBefore

LEMMA InductiveInvariant == Spec => []IndInv
<1>1. IndInv /\ [Next]_vars => IndInv'
  BY StepKeepsInv
<1> QED
  BY InitIndInv, <1>1, PTL DEF Spec

\* Every cache entry, call and answer has its form, with versions that exist.
THEOREM TypeCorrect == Spec => []TypeOK
<1>1. IndInv => TypeOK
  BY DEF IndInv
<1> QED
  BY <1>1, InductiveInvariant, PTL

\* However long fetches take and however calls overlap, a resolve() is never more
\* than a TTL behind.
THEOREM StalenessIsBounded == Spec => []BoundedStaleness
<1>1. IndInv => BoundedStaleness
  BY InvIsBounded
<1> QED
  BY <1>1, InductiveInvariant, PTL

\* Rotating first and registering the new vault_path afterwards is safe: nobody
\* gets the new metadata with the credentials from before the rotation.
THEOREM SecretsAreInOrder == Spec => []SecretIsNotOlderThanMetadata
<1>1. IndInv => SecretIsNotOlderThanMetadata
  BY InvIsOrdered
<1> QED
  BY <1>1, InductiveInvariant, PTL

\* An invalidation in a quiet moment is final.
THEOREM QuietInvalidations == Spec => []QuietInvalidateIsFinal
<1>1. IndInv => QuietInvalidateIsFinal
  BY InvIsFinal
<1> QED
  BY <1>1, InductiveInvariant, PTL
=============================================================================
