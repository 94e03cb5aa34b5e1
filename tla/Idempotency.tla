---------------------------- MODULE Idempotency ----------------------------
(***************************************************************************)
(* Duplicate-request locks in Redis: common/idempotency.                   *)
(*                                                                         *)
(* The guard takes a lock with SET NX EX before the handler runs.  The     *)
(* interceptor that would mark the lock done, or release it after an       *)
(* error, is provided by rate-limit.module.ts and applied to no route, so  *)
(* a lock stays "processing" until Redis expires it: that is the program   *)
(* modelled.  A lock named by the client's Idempotency-Key is in Keyed;    *)
(* the others are named by method and path.                                *)
(***************************************************************************)
EXTENDS Integers, FiniteSets

CONSTANTS
    Keys,           \* lock keys in Redis
    Keyed,          \* those made of a client's Idempotency-Key
    Requests,       \* requests of one user
    MayFail         \* whether Redis commands can fail

ASSUME KeyedAssumption == Keyed \subseteq Keys
ASSUME MayFailAssumption == MayFail \in BOOLEAN

VARIABLES
    lock,       \* lock[k]: what Redis holds under k
    request,    \* request[r]: where the request stands
    succeeded,  \* succeeded[k]: requests that succeeded since k was last free
    exposed     \* history: keys whose lock vanished under a request, or that
                \* the guard let through because Redis failed

vars == <<lock, request, succeeded, exposed>>

Free == [value |-> "free"]
Idle == [pc |-> "new"]

TypeOK ==
    /\ lock \in [Keys -> {Free} \cup [value : {"processing"}, ttl : BOOLEAN]]
    /\ request \in [Requests -> {Idle}
           \cup [pc : {"get", "conflict", "repeated", "refused", "failed", "finished"}, k : Keys]
           \cup [pc : {"running"}, k : Keys, owner : BOOLEAN]]
    /\ succeeded \in [Keys -> SUBSET Requests]
    /\ exposed \subseteq Keys

Init ==
    /\ lock = [k \in Keys |-> Free]
    /\ request = [r \in Requests |-> Idle]
    /\ succeeded = [k \in Keys |-> {}]
    /\ exposed = {}

At(r, pc) == request[r].pc = pc
On(r, k) == ~At(r, "new") /\ request[r].k = k
Goto(r, record) == request' = [request EXCEPT ![r] = record]
Inside(k) == {r \in Requests : On(r, k) /\ request[r].pc \in {"get", "running"}}

\* Fault: the lock is taken without an expiry.
AcquireForever(r, k) ==
    /\ At(r, "new")
    /\ IF lock[k] = Free
       THEN /\ lock' = [lock EXCEPT ![k] = [value |-> "processing", ttl |-> FALSE]]
            /\ Goto(r, [pc |-> "running", k |-> k, owner |-> TRUE])
       ELSE lock' = lock /\ Goto(r, [pc |-> "get", k |-> k])
    /\ UNCHANGED <<succeeded, exposed>>

\* Fault: SET without NX.
AcquireAlways(r, k) ==
    /\ At(r, "new")
    /\ lock' = [lock EXCEPT ![k] = [value |-> "processing", ttl |-> TRUE]]
    /\ Goto(r, [pc |-> "running", k |-> k, owner |-> TRUE])
    /\ UNCHANGED <<succeeded, exposed>>

\* Fault: the lock is not noted on the request.
AcquireAnonymous(r, k) ==
    /\ At(r, "new")
    /\ lock[k] = Free
    /\ lock' = [lock EXCEPT ![k] = [value |-> "processing", ttl |-> TRUE]]
    /\ Goto(r, [pc |-> "running", k |-> k])
    /\ UNCHANGED <<succeeded, exposed>>

\* SET key processing EX ttl NX
Acquire(r, k) ==
    /\ At(r, "new")
    /\ IF lock[k] = Free
       THEN /\ lock' = [lock EXCEPT ![k] = [value |-> "processing", ttl |-> TRUE]]
            /\ Goto(r, [pc |-> "running", k |-> k, owner |-> TRUE])
       ELSE lock' = lock /\ Goto(r, [pc |-> "get", k |-> k])
    /\ UNCHANGED <<succeeded, exposed>>

\* GET: anything but "processing", a lock gone since included, refuses a client's
\* key as already processed and lets a request without a key through unlocked.
Inspect(r) ==
    LET k == request[r].k IN
    /\ At(r, "get")
    /\ Goto(r, IF lock[k].value = "processing" THEN [pc |-> "conflict", k |-> k]
               ELSE IF k \in Keyed THEN [pc |-> "repeated", k |-> k]
               ELSE [pc |-> "running", k |-> k, owner |-> FALSE])
    /\ UNCHANGED <<lock, succeeded, exposed>>

\* SET or GET fails: the guard lets the request through unlocked.
FailOpen(r, k) ==
    /\ MayFail
    /\ At(r, "new") \/ (At(r, "get") /\ request[r].k = k)
    /\ Goto(r, [pc |-> "running", k |-> k, owner |-> FALSE])
    /\ exposed' = exposed \cup {k}
    /\ UNCHANGED <<lock, succeeded>>

\* A guard after this one refuses the request.
Refuse(r) ==
    /\ At(r, "running")
    /\ Goto(r, [pc |-> "refused", k |-> request[r].k])
    /\ UNCHANGED <<lock, succeeded, exposed>>

\* Fault: the lock is deleted after a success.
SucceedReleases(r) ==
    /\ At(r, "running")
    /\ succeeded' = [succeeded EXCEPT ![request[r].k] = @ \cup {r}]
    /\ lock' = [lock EXCEPT ![request[r].k] = Free]
    /\ Goto(r, [pc |-> "finished", k |-> request[r].k])
    /\ UNCHANGED exposed

Succeed(r) ==
    /\ At(r, "running")
    /\ succeeded' = [succeeded EXCEPT ![request[r].k] = @ \cup {r}]
    /\ Goto(r, [pc |-> "finished", k |-> request[r].k])
    /\ UNCHANGED <<lock, exposed>>

Fail(r) ==
    /\ At(r, "running")
    /\ Goto(r, [pc |-> "failed", k |-> request[r].k])
    /\ UNCHANGED <<lock, succeeded, exposed>>

Expire(k) ==
    /\ lock[k] # Free
    /\ lock[k].ttl
    /\ lock' = [lock EXCEPT ![k] = Free]
    /\ succeeded' = [succeeded EXCEPT ![k] = {}]
    /\ exposed' = IF Inside(k) = {} THEN exposed ELSE exposed \cup {k}
    /\ UNCHANGED request

Next ==
    \/ \E r \in Requests, k \in Keys : Acquire(r, k) \/ FailOpen(r, k)
    \/ \E r \in Requests : Inspect(r) \/ Refuse(r) \/ Succeed(r) \/ Fail(r)
    \/ \E k \in Keys : Expire(k)

Spec == Init /\ [][Next]_vars

\* Redis expires keys.
Fairness == \A k \in Keys : WF_vars(Expire(k))

FairSpec == Spec /\ Fairness

(***************************************************************************)
(* Properties.                                                             *)
(***************************************************************************)

\* Double submissions never run together (canActivate): of the requests with
\* one lock key at most one is in its handler, unless the lock vanished while
\* a request was between the guard and its answer, or Redis failed.
OneAtATime ==
    \A k \in Keys \ exposed :
        Cardinality({r \in Requests : At(r, "running") /\ On(r, k)}) <= 1

\* ... and at most one of them succeeds before the key is free again.
OncePerWindow ==
    \A k \in Keys \ exposed : Cardinality(succeeded[k]) <= 1

\* The guard holds duplicates back: both of the above.
DuplicatesHeldBack == OneAtATime /\ OncePerWindow

\* No key is locked for ever: the lock of a request that died, failed or was
\* refused by a later guard goes away.
KeyComesFree == \A k \in Keys : lock[k] # Free ~> lock[k] = Free

\* What IdempotencyInterceptor documents: on an error the lock is released, so
\* that the client can retry.
FailureReleasesLock ==
    [][\A r \in Requests :
        ( /\ At(r, "running")
          /\ request[r].owner
          /\ request'[r].pc = "failed" ) => lock'[request[r].k] = Free]_vars
=============================================================================
