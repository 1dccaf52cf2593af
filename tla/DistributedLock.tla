-------------------------- MODULE DistributedLock --------------------------
(***************************************************************************)
(* DistributedLockService.withLock (apps/api/src/redis), which the         *)
(* scheduled sweeps of billing, patrols, parcels, polls and visitors call  *)
(* on every API instance.  One key: the sweeps use one each.               *)
(*                                                                         *)
(* A call is a firing of one instance's interval timer.  Time is the       *)
(* lock's remaining TTL, counted down by Tick.  The code puts no bound on  *)
(* fn: MaxHold is an assumption of each instance, on the ticks between     *)
(* Redis applying a SET and the end of the fn it allowed.                  *)
(***************************************************************************)
EXTENDS Integers

CONSTANTS
  Caller,     \* timers that can fire, over all API instances
  Token,      \* what randomUUID returns
  NoToken,    \* no token
  TTL,        \* the ttlSeconds of the sweep, in ticks
  MaxHold,    \* bound: ticks from the SET being applied to the end of fn
  MayEvict    \* whether Redis may evict the key (maxmemory-policy allkeys-lru)

ASSUME LockAssumption ==
  /\ NoToken \notin Token
  /\ TTL \in Nat \ {0}
  /\ MaxHold \in Nat
  /\ MayEvict \in BOOLEAN

VARIABLES
  lock,   \* the key in Redis: its value and the ticks until it expires
  up,     \* whether the instances can reach Redis
  call    \* the calls of withLock

vars == <<lock, up, call>>

Free == [token |-> NoToken, left |-> 0]
Done == [pc |-> "idle", token |-> NoToken, held |-> 0, key |-> "kept"]
Sent(t) == [pc |-> "setting", token |-> t, held |-> 0, key |-> "kept"]
Locks == {Free} \cup [token : Token, left : 1 .. TTL]
Calls == [pc : {"idle", "setting", "granted", "running", "releasing"},
          token : Token \cup {NoToken}, held : Nat, key : {"kept", "evicted"}]

(* randomUUID: a token no call and no key has.                             *)
Unused == Token \ ({lock.token} \cup {call[c].token : c \in Caller})

(* The calls that hold what they believe is the lock.  A call's held is    *)
(* the time it has; its key is history: whether Redis evicted it.          *)
Holding(c) == call[c].pc \in {"granted", "running"}

-----------------------------------------------------------------------------
(* The timer fires and withLock sends its SET.                             *)
Fire(c, t) ==
  /\ call[c].pc = "idle"
  /\ t \in Unused
  /\ call' = [call EXCEPT ![c] = Sent(t)]
  /\ UNCHANGED <<lock, up>>

Granted(t) == [token |-> t, left |-> TTL]

AbsentOrNot == TRUE                              \* mutated: SET without NX
Absent == lock = Free

(* Redis applies SET NX EX: the call will read OK, or null and return.     *)
Set(c) ==
  /\ up
  /\ call[c].pc = "setting"
  /\ IF Absent
     THEN /\ lock' = Granted(call[c].token)
          /\ call' = [call EXCEPT ![c].pc = "granted"]
     ELSE /\ call' = [call EXCEPT ![c] = Done]
          /\ UNCHANGED lock
  /\ UNCHANGED up

(* The connection drops before the reply; the client sends the SET again.  *)
ReplyLost(c) ==
  /\ call[c].pc = "granted"
  /\ call' = [call EXCEPT ![c] = Sent(@.token)]
  /\ UNCHANGED <<lock, up>>

Run(c) ==
  /\ call[c].pc = "granted"
  /\ call' = [call EXCEPT ![c].pc = "running"]
  /\ UNCHANGED <<lock, up>>

(* fn returned, or threw: the finally block runs in both cases.            *)
RunEnds(c) ==
  /\ call[c].pc = "running"
  /\ call' = [call EXCEPT ![c].pc = "releasing"]
  /\ UNCHANGED <<lock, up>>

(* The release script: delete the key if it still holds this token.        *)
DeletesAny(c) == TRUE                            \* mutated: DEL alone
Deletes(c) == lock.token = call[c].token

Release(c) ==
  /\ up
  /\ call[c].pc = "releasing"
  /\ lock' = IF Deletes(c) THEN Free ELSE lock
  /\ call' = [call EXCEPT ![c] = Done]
  /\ UNCHANGED up

(* A command is rejected: a SET's call returns null without running fn, a  *)
(* release is given up and the key left to expire.                         *)
Rejected(c) ==
  /\ call[c].pc \in {"setting", "releasing"}
  /\ call' = [call EXCEPT ![c] = Done]
  /\ UNCHANGED <<lock, up>>

(* The instance dies; what it set stays in Redis.                          *)
Crash(c) ==
  /\ call[c].pc # "idle"
  /\ call' = [call EXCEPT ![c] = Done]
  /\ UNCHANGED <<lock, up>>

-----------------------------------------------------------------------------
(* Redis.                                                                  *)

AgedNever(l) == l                                \* mutated: SET without EX
AgedKept(l) == [l EXCEPT !.left = @ - 1]         \* mutated: kept at zero
Aged(l) == IF l.left > 1 THEN [l EXCEPT !.left = @ - 1] ELSE Free

Tick ==
  /\ \A c \in Caller : Holding(c) => call[c].held < MaxHold
  /\ lock' = Aged(lock)
  /\ call' = [c \in Caller |-> IF Holding(c) THEN [call[c] EXCEPT !.held = @ + 1] ELSE call[c]]
  /\ UNCHANGED up

Evict ==
  /\ MayEvict
  /\ lock' = Free
  /\ call' = [c \in Caller |-> IF Holding(c) /\ call[c].token = lock.token
                               THEN [call[c] EXCEPT !.key = "evicted"] ELSE call[c]]
  /\ UNCHANGED up

Reach == up' = ~up /\ UNCHANGED <<lock, call>>

-----------------------------------------------------------------------------
Init == lock = Free /\ up = TRUE /\ call = [c \in Caller |-> Done]

Proceed(c) == Set(c) \/ Run(c) \/ RunEnds(c) \/ Release(c)

Next ==
  \/ \E c \in Caller :
       \/ \E t \in Token : Fire(c, t)
       \/ Proceed(c) \/ ReplyLost(c) \/ Rejected(c) \/ Crash(c)
  \/ Tick \/ Evict \/ Reach

Spec == Init /\ [][Next]_vars

(* Time passes, timers keep firing, and what a call waits for, commands    *)
(* that Redis can receive and the sweep itself, comes to an end.           *)
FairSpec ==
  /\ Spec
  /\ WF_vars(Tick)
  /\ \A c \in Caller : WF_vars(Proceed(c)) /\ WF_vars(\E t \in Token : Fire(c, t))

-----------------------------------------------------------------------------
TypeOK == lock \in Locks /\ up \in BOOLEAN /\ call \in [Caller -> Calls]

(* "scheduled sweeps run on one API instance at a time": two calls run     *)
(* their sweep at once only when one of them has outlived its TTL or lost  *)
(* its key to eviction, whatever is resent, rejected or dies.              *)
InTime(c) == call[c].held < TTL /\ call[c].key = "kept"
OneAtATime ==
  \A c, d \in Caller :
    call[c].pc = "running" /\ call[d].pc = "running" /\ InTime(c) /\ InTime(d) => c = d

(* And while its call is in time a sweep keeps its key for the rest of the *)
(* TTL: the late release of the call before it (the script compares the    *)
(* tokens), a SET of another (NX) and one that is sent again leave it be.  *)
KeyIsKept ==
  \A c \in Caller :
    call[c].pc = "running" /\ InTime(c)
      => lock.token = call[c].token /\ lock.left = TTL - call[c].held

(* The sweep an instance died in does not stop the others for good: its    *)
(* key goes, whether or not the release ran.                               *)
LockIsFreed == [](lock # Free => <>(lock = Free))
=============================================================================
