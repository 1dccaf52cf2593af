----------------------- MODULE DistributedLockProofs -----------------------
(***************************************************************************)
(* Two sweeps overlap only when one of them outlived its TTL or lost its   *)
(* key to eviction, for any number of instances, tokens and TTL.           *)
(*                                                                         *)
(* The inductive invariant ties the key in Redis to the call it was        *)
(* granted to: as long as that call is in time, the key carries its token  *)
(* and has TTL - held ticks left.  Two such calls would then carry one     *)
(* token, and tokens in use are distinct.                                  *)
(***************************************************************************)
EXTENDS DistributedLock, TLAPS

(* The key belongs to whoever holds it in time.                            *)
KeyIsHeld ==
  \A c \in Caller :
    /\ Holding(c) /\ InTime(c) =>
         lock.token = call[c].token /\ lock.left = TTL - call[c].held
    /\ call[c].pc = "setting" => call[c].held = 0 /\ call[c].key = "kept"

(* Calls under way have a token each.                                      *)
TokensDistinct ==
  /\ \A c \in Caller : call[c].pc # "idle" => call[c].token \in Token
  /\ \A c, d \in Caller :
       call[c].pc # "idle" /\ call[d].pc # "idle" /\ c # d => call[c].token # call[d].token

TInv == TypeOK /\ TokensDistinct
IInv == TInv /\ KeyIsHeld

-----------------------------------------------------------------------------
(* What withLock does to a call keeps it a call.                           *)
LEMMA CallTypes ==
  /\ Done \in Calls
  /\ \A t \in Token : /\ Sent(t) \in Calls /\ Sent(t).token = t /\ Sent(t).pc = "setting"
                       /\ Sent(t).held = 0 /\ Sent(t).key = "kept"
  /\ \A r \in Calls :
       /\ \A pc \in {"granted", "running", "releasing"} : [r EXCEPT !.pc = pc] \in Calls
       /\ [r EXCEPT !.held = @ + 1] \in Calls
       /\ [r EXCEPT !.key = "evicted"] \in Calls
<1>1. Done \in Calls
  BY DEF Calls, Done
<1>2. ASSUME NEW t \in Token
      PROVE  /\ Sent(t) \in Calls /\ Sent(t).token = t /\ Sent(t).pc = "setting"
             /\ Sent(t).held = 0 /\ Sent(t).key = "kept"
  BY DEF Sent, Calls
<1>3. ASSUME NEW r \in Calls
      PROVE  /\ \A pc \in {"granted", "running", "releasing"} : [r EXCEPT !.pc = pc] \in Calls
             /\ [r EXCEPT !.held = @ + 1] \in Calls
             /\ [r EXCEPT !.key = "evicted"] \in Calls
  BY DEF Calls
<1> QED BY <1>1, <1>2, <1>3

(* Every action keeps the key, the reachability and the calls of the kinds *)
(* withLock writes: what Set writes into Redis is a call's own token.      *)
LEMMA TypeStep ==
  ASSUME TInv, [Next]_vars
  PROVE  TypeOK'
<1> USE LockAssumption, CallTypes DEF TypeOK
<1>0. TypeOK
  BY DEF TInv
<1>1. ASSUME NEW c \in Caller, NEW t \in Token, Fire(c, t)
      PROVE  TypeOK'
  BY <1>0, <1>1 DEF Fire
<1>2. ASSUME NEW c \in Caller, Set(c)
      PROVE  TypeOK'
  <2>1. call[c].pc = "setting" /\ call[c] \in Calls /\ call[c].token \in Token
    BY <1>0, <1>2 DEF Set, Absent, TInv, TokensDistinct
  <2>2. CASE lock = Free
    <3>1. Granted(call[c].token) \in Locks
      BY <2>1 DEF Granted, Locks
    <3> QED BY <1>0, <1>2, <2>1, <2>2, <3>1 DEF Set, Absent
  <2>3. CASE lock # Free
    BY <1>0, <1>2, <2>3 DEF Set, Absent
  <2> QED BY <2>2, <2>3
<1>3. ASSUME NEW c \in Caller, Run(c) \/ RunEnds(c) \/ Release(c)
      PROVE  TypeOK'
  <2>1. lock' \in {lock, Free} /\ up' = up
    BY <1>3 DEF Run, RunEnds, Release
  <2>2. call' \in [Caller -> Calls]
    <3>1. CASE Run(c)
      BY <1>0, <3>1 DEF Run
    <3>2. CASE RunEnds(c)
      BY <1>0, <3>2 DEF RunEnds
    <3>3. CASE Release(c)
      BY <1>0, <3>3 DEF Release
    <3> QED BY <1>3, <3>1, <3>2, <3>3
  <2> QED BY <1>0, <2>1, <2>2 DEF Locks
<1>4. ASSUME NEW c \in Caller, ReplyLost(c) \/ Rejected(c) \/ Crash(c)
      PROVE  TypeOK'
  <2>1. ReplyLost(c) => call[c].token \in Token
    BY DEF ReplyLost, TInv, TokensDistinct
  <2> QED BY <1>0, <1>4, <2>1 DEF ReplyLost, Rejected, Crash
<1>5. CASE Tick
  <2>1. lock' = lock \/ lock' = Free \/ (lock.left > 1 /\ lock' = [lock EXCEPT !.left = @ - 1])
    BY <1>5 DEF Tick, Aged
  <2>2. lock' \in Locks
    BY <1>0, <2>1 DEF Locks, Free
  <2>3. call' \in [Caller -> Calls]
    BY <1>0, <1>5 DEF Tick
  <2> QED BY <1>0, <1>5, <2>2, <2>3 DEF Tick
<1>6. CASE Evict \/ Reach
  <2>1. CASE Evict
    <3>1. call' \in [Caller -> Calls]
      BY <1>0, <2>1 DEF Evict
    <3> QED BY <1>0, <2>1, <3>1 DEF Evict, Locks
  <2>2. CASE Reach
    BY <1>0, <2>2 DEF Reach
  <2> QED BY <1>6, <2>1, <2>2
<1>7. CASE UNCHANGED vars
  BY <1>0, <1>7 DEF vars
<1> QED
  BY <1>1, <1>2, <1>3, <1>4, <1>5, <1>6, <1>7 DEF Next, Proceed

(* Fire picks a token no call has; no other action changes one.            *)
LEMMA TokenStep ==
  ASSUME TInv, [Next]_vars
  PROVE  TokensDistinct'
<1> USE LockAssumption DEF TypeOK, Calls, Done, TokensDistinct
<1>0. TypeOK /\ TokensDistinct
  BY DEF TInv
<1>1. ASSUME NEW c \in Caller, NEW t \in Token, Fire(c, t)
      PROVE  TokensDistinct'
  <2>1. t \in Token /\ \A d \in Caller : call[d].token # t
    BY <1>1 DEF Fire, Unused
  <2>2. call'[c].token = t /\ \A d \in Caller : d # c => call'[d] = call[d]
    BY <1>0, <1>1, <2>1, CallTypes DEF Fire
  <2> HIDE DEF Calls
  <2> QED BY <1>0, <2>1, <2>2
<1>2. ASSUME NEW c \in Caller, Proceed(c) \/ ReplyLost(c) \/ Rejected(c) \/ Crash(c)
      PROVE  TokensDistinct'
  <2>1. call'[c].pc = "idle" \/ (call'[c].token = call[c].token /\ call[c].pc # "idle")
    <3>1. CASE ReplyLost(c)
      <4>1. call[c].token \in Token /\ call[c].pc # "idle"
        BY <1>0, <3>1 DEF ReplyLost
      <4> QED BY <1>0, <3>1, <4>1, CallTypes DEF ReplyLost
    <3>2. CASE Proceed(c) \/ Rejected(c) \/ Crash(c)
      BY <1>0, <3>2 DEF Proceed, Set, Absent, Run, RunEnds, Release, Rejected, Crash
    <3> QED BY <1>2, <3>1, <3>2
  <2>2. \A d \in Caller : d # c => call'[d] = call[d]
    BY <1>0, <1>2 DEF Proceed, Set, Absent, Run, RunEnds, Release, ReplyLost, Rejected, Crash
  <2> QED BY <1>0, <2>1, <2>2
<1>3. CASE Tick \/ Evict \/ Reach
  <2>1. \A d \in Caller : call'[d].pc = call[d].pc /\ call'[d].token = call[d].token
    BY <1>0, <1>3 DEF Tick, Evict, Reach
  <2> QED BY <1>0, <2>1
<1>4. CASE UNCHANGED vars
  BY <1>0, <1>4 DEF vars
<1> QED
  BY <1>1, <1>2, <1>3, <1>4 DEF Next

(* The key changes under a holder in time neither by another call's SET,   *)
(* which needs the key absent, nor by another call's release, which needs  *)
(* the key to carry the other's token, nor by time.                        *)
LEMMA HoldStep ==
  ASSUME IInv, [Next]_vars
  PROVE  KeyIsHeld'
<1> USE LockAssumption DEF TypeOK, Calls, Locks, Done, Free, KeyIsHeld, Holding, InTime
<1>0. TypeOK /\ TokensDistinct /\ KeyIsHeld
  BY DEF IInv, TInv
<1>1. ASSUME NEW c \in Caller, NEW t \in Token, Fire(c, t)
      PROVE  KeyIsHeld'
  BY <1>0, <1>1, CallTypes DEF Fire
<1>2. ASSUME NEW c \in Caller, Set(c)
      PROVE  KeyIsHeld'
  <2>1. CASE lock = Free
    <3>1. \A d \in Caller : ~(Holding(d) /\ InTime(d))
      BY <1>0, <2>1 DEF TokensDistinct
    <3>2. call[c].held = 0 /\ call[c].pc = "setting"
      BY <1>0, <1>2 DEF Set, Absent
    <3>3. lock' = Granted(call[c].token) /\ call' = [call EXCEPT ![c].pc = "granted"]
      BY <1>2, <2>1 DEF Set, Absent
    <3> QED BY <1>0, <3>1, <3>2, <3>3 DEF Granted
  <2>2. CASE lock # Free
    BY <1>0, <1>2, <2>2 DEF Set, Absent
  <2> QED BY <2>1, <2>2
<1>3. ASSUME NEW c \in Caller, Run(c) \/ RunEnds(c)
      PROVE  KeyIsHeld'
  BY <1>0, <1>3 DEF Run, RunEnds
<1>4. ASSUME NEW c \in Caller, Release(c)
      PROVE  KeyIsHeld'
  <2>1. \A d \in Caller : Holding(d) => d # c /\ call[d].token # call[c].token
    BY <1>0, <1>4 DEF Release, TokensDistinct
  <2>2. \A d \in Caller : Holding(d) /\ InTime(d) => ~Deletes(c)
    BY <1>0, <2>1 DEF Deletes
  <2> QED BY <1>0, <1>4, <2>1, <2>2 DEF Release
<1>5. ASSUME NEW c \in Caller, ReplyLost(c) \/ Rejected(c) \/ Crash(c)
      PROVE  KeyIsHeld'
  <2>1. ReplyLost(c) => call[c].token \in Token
    BY <1>0 DEF ReplyLost, TokensDistinct
  <2>2. \A d \in Caller : d # c => call'[d] = call[d]
    BY <1>0, <1>5 DEF ReplyLost, Rejected, Crash
  <2>3. /\ lock' = lock
        /\ \/ call'[c].pc = "idle"
           \/ call'[c] = Sent(call[c].token) /\ call[c].token \in Token
    <3>1. CASE ReplyLost(c)
      <4>1. lock' = lock /\ call' = [call EXCEPT ![c] = Sent(call[c].token)]
        BY <3>1 DEF ReplyLost
      <4>2. DOMAIN call = Caller
        BY <1>0
      <4> HIDE DEF Calls
      <4> QED BY <2>1, <3>1, <4>1, <4>2
    <3>2. CASE Rejected(c) \/ Crash(c)
      <4>1. lock' = lock /\ call' = [call EXCEPT ![c] = Done]
        BY <3>2 DEF Rejected, Crash
      <4>2. DOMAIN call = Caller
        BY <1>0
      <4>3. Done.pc = "idle"
        BY DEF Done
      <4> HIDE DEF Calls
      <4> QED BY <4>1, <4>2, <4>3
    <3> QED BY <1>5, <3>1, <3>2
  <2>4. call'[c].pc \notin {"granted", "running"}
        /\ (call'[c].pc = "setting" => call'[c].held = 0 /\ call'[c].key = "kept")
    BY <2>3, CallTypes
  <2> QED BY <1>0, <2>2, <2>3, <2>4
<1>6. CASE Tick
  <2>0. \A d \in Caller : call'[d].pc = "setting" => call'[d].held = 0 /\ call'[d].key = "kept"
    BY <1>0, <1>6 DEF Tick
  <2> SUFFICES ASSUME NEW d \in Caller, Holding(d)', InTime(d)'
               PROVE  lock'.token = call'[d].token /\ lock'.left = TTL - call'[d].held
    BY <2>0
  <2>1. Holding(d) /\ call'[d] = [call[d] EXCEPT !.held = @ + 1]
    BY <1>0, <1>6 DEF Tick
  <2>2. call[d].held + 1 < TTL /\ call[d].key = "kept" /\ call'[d].held = call[d].held + 1
    BY <1>0, <2>1
  <2>3. lock.token = call[d].token /\ lock.left = TTL - call[d].held /\ lock.left > 1
    BY <1>0, <2>1, <2>2
  <2>4. lock' = [lock EXCEPT !.left = @ - 1]
    BY <1>6, <2>3 DEF Tick, Aged
  <2> QED BY <1>0, <2>1, <2>2, <2>3, <2>4
<1>7. CASE Evict
  <2> SUFFICES ASSUME NEW d \in Caller
               PROVE  /\ ~(Holding(d)' /\ InTime(d)')
                      /\ call'[d].pc = "setting" => call'[d].held = 0 /\ call'[d].key = "kept"
    BY DEF KeyIsHeld
  <2>1. CASE Holding(d) /\ call[d].token = lock.token
    <3>1. call'[d] = [call[d] EXCEPT !.key = "evicted"]
      BY <1>7, <2>1 DEF Evict
    <3> QED BY <1>0, <2>1, <3>1
  <2>2. CASE ~(Holding(d) /\ call[d].token = lock.token)
    <3>1. call'[d] = call[d]
      BY <1>7, <2>2 DEF Evict
    <3> QED BY <1>0, <2>2, <3>1
  <2> QED BY <2>1, <2>2
<1>8. CASE Reach \/ UNCHANGED vars
  BY <1>0, <1>8 DEF Reach, vars
<1> QED
  BY <1>1, <1>2, <1>3, <1>4, <1>5, <1>6, <1>7, <1>8 DEF Next, Proceed

(* Before the first timer fires no call holds anything.                    *)
LEMMA InitHolds == Init => IInv
BY LockAssumption
DEF Init, IInv, TInv, TypeOK, TokensDistinct, KeyIsHeld, Holding, InTime, Locks, Calls, Free, Done

-----------------------------------------------------------------------------
(* Whatever expires, is evicted, rejected, resent or dies, the key and the *)
(* calls of withLock stay of their kinds.                                  *)
THEOREM LockTypeCorrect == Spec => []TypeOK
<1>1. Init => TInv
  BY InitHolds DEF IInv
<1>2. TInv /\ [Next]_vars => TInv'
  BY TypeStep, TokenStep DEF TInv
<1>3. TInv => TypeOK
  BY DEF TInv
<1> QED BY <1>1, <1>2, <1>3, PTL DEF Spec

(* No two API instances run the sweep of one key at once while both are    *)
(* within its TTL and Redis has kept the key of each (OneAtATime).         *)
THEOREM SweepsExclude == Spec => []OneAtATime
<1>1. IInv /\ [Next]_vars => IInv'
  BY TypeStep, TokenStep, HoldStep DEF IInv, TInv
<1>2. IInv => OneAtATime
  BY DEF IInv, TInv, KeyIsHeld, TokensDistinct, Holding, OneAtATime
<1> QED BY <1>1, <1>2, InitHolds, PTL DEF Spec

(* A sweep within its TTL keeps its key for the rest of it: no release of  *)
(* another call, however late, and no SET of another or sent again takes   *)
(* the key or its time away, unless Redis evicts it.                       *)
THEOREM SweepKeepsKey == Spec => []KeyIsKept
<1>1. IInv /\ [Next]_vars => IInv'
  BY TypeStep, TokenStep, HoldStep DEF IInv, TInv
<1>2. IInv => KeyIsKept
  BY DEF IInv, KeyIsHeld, Holding, KeyIsKept
<1> QED BY <1>1, <1>2, InitHolds, PTL DEF Spec
=============================================================================
