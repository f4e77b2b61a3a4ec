-------------------------------- MODULE AuthCache --------------------------------
(***************************************************************************)
(* Whom the server takes a signed-in user for: the role in the User row, the *)
(* two-level cache that authenticate reads (middleware/auth.ts,              *)
(* lib/auth-cache.ts), and the switch of role at POST /auth/session.         *)
(* One user with one bearer token at a time.  An entry lives in ticks; the awaits of a *)
(* request take less than one.                                               *)
(***************************************************************************)
EXTENDS InFlight

CONSTANTS
  Instances,   \* server processes, each with its memory
  Roles,       \* the app surfaces: consumer, supplier
  MemTtl,      \* TTL_MS of auth-cache.ts, in ticks
  RedisTtl     \* REDIS_TTL_SEC, in ticks

ASSUME AuthCacheAssumption == MemTtl \in Nat \ {0} /\ RedisTtl \in Nat \ {0}

\* tok: the hash of the bearer; sub: the Supabase id in its claims.
Keys == {"tok", "sub"}
NoRole == "none"
Empty == [role |-> NoRole, left |-> 0]

\* An entry of redis refills memory at its last tick, the sub entry then binds the
\* token at its last: a role can outlive its switch by twice the two lifetimes.
StaleBound == 2 * (MemTtl + RedisTtl)

VARIABLES
  role,     \* User.role
  memory,   \* the Map of each process
  redis,    \* auth:u: keys
  since     \* ticks since the role last changed, up to StaleBound + 1

authVars == <<role, memory, redis, since>>

Entry(r, ttl) == [role |-> r, left |-> ttl]
\* An entry is good until its last tick and on it.
Aged(e) == IF e.left = 0 THEN Empty ELSE [e EXCEPT !.left = @ - 1]

AuthHandlers ==
  [at : {"authRefill"}, inst : Instances, key : Keys, role : Roles]
  \cup [at : {"authFill", "authRead"}, inst : Instances, role : Roles]
  \cup [at : {"authPublish"}, keys : SUBSET Keys, role : Roles]
  \cup [at : {"sessionRead", "sessionUpdate"}, inst : Instances, role : Roles, alias : BOOLEAN]
  \cup [at : {"sessionCache"}, inst : Instances, role : Roles, alias : BOOLEAN]
  \cup [at : {"sessionPublish"}, inst : Instances, role : Roles]

AuthCacheTypeOK ==
  /\ role \in Roles
  /\ memory \in [Instances -> [Keys -> [role : Roles \cup {NoRole}, left : 0..MemTtl]]]
  /\ redis \in [Keys -> [role : Roles \cup {NoRole}, left : 0..RedisTtl]]
  /\ since \in 0..(StaleBound + 1)

AuthCacheInit ==
  /\ role \in Roles
  /\ memory = [i \in Instances |-> [k \in Keys |-> Empty]]
  /\ redis = [k \in Keys |-> Empty]
  /\ since = StaleBound + 1

Remember(i, keys, r) ==
  memory' = [memory EXCEPT ![i] = [k \in Keys |-> IF k \in keys THEN Entry(r, MemTtl) ELSE @[k]]]

\* The object a session handler took from memory is no longer the one kept there.
Replaced(i, p, step) ==
  h' = [q \in Procs |->
          IF q = p THEN step
          ELSE IF h[q].at \in {"sessionUpdate", "sessionCache"} /\ h[q].inst = i
               THEN [h[q] EXCEPT !.alias = FALSE] ELSE h[q]]

Known(i, k) == memory[i][k] # Empty

(***************************************************************************)
(* authenticate: the token, then the subject, in memory, then in redis, then *)
(* the User row.                                                           *)
(***************************************************************************)

\* getCachedAuthUser answers from redis: memory is filled when the answer arrives.
AuthMiss(p, i, k) ==
  /\ ~Known(i, "tok") /\ ~Known(i, k)
  /\ k = "sub" => redis["tok"] = Empty
  /\ redis[k] # Empty
  /\ Start(p, [at |-> "authRefill", inst |-> i, key |-> k, role |-> redis[k].role])
  /\ UNCHANGED authVars

\* The keys a cached answer is written to beyond its own: a subject binds the token.
Bound(k) == {"tok"}

AuthRefill(p) ==
  LET binds == IF h[p].key = "sub" THEN Bound(h[p].key) ELSE {}
  IN  /\ h[p].at = "authRefill"
      /\ Remember(h[p].inst, {h[p].key} \cup binds, h[p].role)
      /\ Replaced(h[p].inst, p,
           IF binds = {} THEN Idle
           ELSE [at |-> "authPublish", keys |-> binds, role |-> h[p].role])
      /\ UNCHANGED <<role, redis, since>>

AuthBySub(p, i) ==
  /\ ~Known(i, "tok") /\ Known(i, "sub")
  /\ redis["tok"] = Empty
  /\ h[p] = Idle /\ MayStart
  /\ LET r == memory[i]["sub"].role
     IN  /\ Remember(i, Bound("sub"), r)
         /\ Replaced(i, p, [at |-> "authPublish", keys |-> Bound("sub"), role |-> r])
  /\ UNCHANGED <<role, redis, since>>

AuthByRow(p, i) ==
  /\ \A k \in Keys : ~Known(i, k) /\ redis[k] = Empty
  /\ Start(p, [at |-> "authFill", inst |-> i, role |-> role])
  /\ UNCHANGED authVars

AuthFill(p) ==
  /\ h[p].at = "authFill"
  /\ Remember(h[p].inst, Keys, h[p].role)
  /\ Replaced(h[p].inst, p, [at |-> "authPublish", keys |-> Keys, role |-> h[p].role])
  /\ UNCHANGED <<role, redis, since>>

\* redisSet, not awaited.
AuthPublish(p) ==
  /\ h[p].at = "authPublish"
  /\ redis' = [k \in Keys |-> IF k \in h[p].keys THEN Entry(h[p].role, RedisTtl) ELSE redis[k]]
  /\ End(p)
  /\ UNCHANGED <<role, memory, since>>

(***************************************************************************)
(* POST /auth/session of a caller whose token is in memory: h[p].alias while *)
(* the object the handler will write is the one memory holds.                *)
(***************************************************************************)
SessionRead(p, i, intended) ==
  /\ Known(i, "tok")
  /\ Start(p, [at |-> IF role = intended THEN "sessionCache" ELSE "sessionUpdate",
               inst |-> i, role |-> intended, alias |-> TRUE])
  /\ UNCHANGED authVars

SessionUpdate(p) ==
  /\ h[p].at = "sessionUpdate"
  /\ role' = h[p].role
  /\ since' = IF role = h[p].role THEN since ELSE 0
  /\ Goto(p, [h[p] EXCEPT !.at = "sessionCache"])
  /\ UNCHANGED <<memory, redis>>

\* Mutant: the role is switched in the object in hand, not in the entry of the subject.
SessionCacheTokenOnly(p) ==
  /\ h[p].at = "sessionCache"
  /\ memory' = IF h[p].alias /\ Known(h[p].inst, "tok")
               THEN [memory EXCEPT ![h[p].inst]["tok"].role = h[p].role] ELSE memory
  /\ Goto(p, [at |-> "sessionPublish", inst |-> h[p].inst, role |-> h[p].role])
  /\ UNCHANGED <<role, redis, since>>

SessionCache(p) ==
  LET i == h[p].inst
      kept == IF h[p].alias /\ Known(i, "tok")
              THEN [memory[i]["tok"] EXCEPT !.role = h[p].role] ELSE memory[i]["tok"]
  IN  /\ h[p].at = "sessionCache"
      /\ memory' = [memory EXCEPT ![i] =
                      [k \in Keys |-> IF k = "sub" THEN Entry(h[p].role, MemTtl) ELSE kept]]
      /\ Goto(p, [at |-> "sessionPublish", inst |-> i, role |-> h[p].role])
      /\ UNCHANGED <<role, redis, since>>

SessionPublish(p) ==
  /\ h[p].at = "sessionPublish"
  /\ redis' = [redis EXCEPT !["sub"] = Entry(h[p].role, RedisTtl)]
  /\ End(p)
  /\ UNCHANGED <<role, memory, since>>

\* A query or a redis command fails, or the process restarts with an empty memory.
AuthStop(p) == Stop(p) /\ UNCHANGED authVars

InstanceRestarts(i) ==
  /\ MayFail /\ Quiet
  /\ memory' = [memory EXCEPT ![i] = [k \in Keys |-> Empty]]
  /\ UNCHANGED <<role, redis, since, regime, h>>

\* The client refreshes its token: no entry is keyed by the new one.
TokenRefreshed ==
  /\ Quiet
  /\ memory' = [i \in Instances |-> [memory[i] EXCEPT !["tok"] = Empty]]
  /\ redis' = [redis EXCEPT !["tok"] = Empty]
  /\ UNCHANGED <<role, since, regime, h>>

AuthTimePasses ==
  /\ Quiet
  /\ memory' = [i \in Instances |-> [k \in Keys |-> Aged(memory[i][k])]]
  /\ redis' = [k \in Keys |-> Aged(redis[k])]
  /\ since' = IF since <= StaleBound THEN since + 1 ELSE since
  /\ UNCHANGED <<role, regime, h>>

AuthCacheStep(p) ==
  \/ \E i \in Instances, k \in Keys : AuthMiss(p, i, k)
  \/ AuthRefill(p)
  \/ \E i \in Instances : AuthBySub(p, i)
  \/ \E i \in Instances : AuthByRow(p, i)
  \/ AuthFill(p)
  \/ AuthPublish(p)
  \/ \E i \in Instances, r \in Roles : SessionRead(p, i, r)
  \/ SessionUpdate(p)
  \/ SessionCache(p)
  \/ SessionPublish(p)
  \/ AuthStop(p)

AuthCacheNext ==
  \/ AuthTimePasses
  \/ TokenRefreshed
  \/ \E i \in Instances : InstanceRestarts(i)
  \/ \E p \in Procs : AuthCacheStep(p) /\ UNCHANGED regime

(***************************************************************************)
(* Properties.                                                             *)
(***************************************************************************)

\* A switched role is not seen for ever: whatever requests refill, rebind or
\* overlap, no cache knows the old role beyond StaleBound ticks; and where no
\* handler overlaps, the switch holds at once on the instance that made it.
StaleRoleExpires ==
  /\ since > StaleBound =>
       /\ \A k \in Keys : redis[k].role \in {role, NoRole}
       /\ \A i \in Instances, k \in Keys : memory[i][k].role \in {role, NoRole}
  /\ regime # "overlapping" =>
       \A p \in Procs : h[p].at = "sessionPublish" =>
         \A k \in Keys : memory[h[p].inst][k].role \in {h[p].role, NoRole}
=============================================================================
