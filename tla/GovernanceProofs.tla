-------------------------- MODULE GovernanceProofs --------------------------
(***************************************************************************)
(* Proofs about Governance, for any polls, units, resolutions, requests    *)
(* and instants: one ballot per unit, and results that stay what they are. *)
(***************************************************************************)
EXTENDS Governance, TLAPS

(* Ballots and requests are about polls that exist; a poll has one ballot  *)
(* of a unit; a closing is of the resolution its poll was opened for.      *)
RowsKnow == \A p \in Poll : ~Exists(p) => poll[p].of = NoOne

BallotsKnow ==
  /\ \A b \in ballots : Exists(b.poll)
  /\ \A b, c \in ballots : b.poll = c.poll /\ b.unit = c.unit => b = c

Knows(r) ==
  /\ \A p \in PollOf(r) : Exists(p)
  /\ r.kind = "closing" => poll[r.poll].of = r.res

RequestsKnow == \A h \in Handler : Knows(req[h])

(* A resolution and its poll name each other; without a second opening it  *)
(* is the only poll that names the resolution.                             *)
Linked ==
  \A r \in Resolution :
    /\ resolution[r].poll # NoPoll => poll[resolution[r].poll].of = r
    /\ resolution[r].results.of # NoPoll => poll[resolution[r].results.of].of = r
    /\ r \notin doubled => \A p \in Poll : poll[p].of = r => resolution[r].poll = p

Opens(h, r) == req[h].kind = "opening" /\ req[h].res = r

OpenedOnce ==
  \A r \in Resolution \ doubled : \A h \in Handler :
    Opens(h, r) => /\ resolution[r].poll = NoPoll
                   /\ \A g \in Handler : Opens(g, r) => g = h

(* A closing that met nobody is alone on its poll and has counted what     *)
(* there is.                                                               *)
ClosesAlone(h, p) ==
  /\ \A g \in Handler : p \in PollOf(req[g]) => g = h
  /\ req[h].tally = Voted(p)
  /\ req[h].pc = "counted" => req[h].quorum = Voted(p)

ClosingsAlone ==
  \A h \in Handler, p \in Poll \ raced :
    req[h].kind = "closing" /\ req[h].poll = p => ClosesAlone(h, p)

(* Once there are results, only requests that leave the poll closed and    *)
(* its ballots alone still work on it.                                     *)
Harmless(r) == r.kind = "patch" /\ r.status = "CLOSED" /\ ~r.options

Stands(s) ==
  /\ poll[s.of].status = "CLOSED"
  /\ s.tally = Voted(s.of)
  /\ s.quorum = Voted(s.of)
  /\ \A h \in Handler : s.of \in PollOf(req[h]) => Harmless(req[h])

ResultsStand ==
  \A r \in Resolution :
    LET s == resolution[r].results
    IN s.of # NoPoll /\ s.of \notin raced => Stands(s)

IInv ==
  /\ TypeOK
  /\ RowsKnow /\ BallotsKnow /\ RequestsKnow
  /\ Linked /\ OpenedOnce
  /\ ClosingsAlone /\ ResultsStand

-----------------------------------------------------------------------------
(* The kinds of request.                                                   *)
LEMMA Kinds ==
  ASSUME NEW r \in Request
  PROVE  /\ r.kind = "vote" => r \in Vote
         /\ r.kind = "autoClose" => r \in AutoClose
         /\ r.kind = "patch" => r \in Patch
         /\ r.kind = "closing" => r \in Closings
         /\ r.kind = "opening" => r \in Opening
         /\ r.kind = "meeting" => r \in MeetingPatch
  BY DEF Request, PollRequest, Vote, AutoClose, Patch, Closings, Opening, MeetingPatch, Idle

LEMMA RequestPolls ==
  ASSUME NEW r \in Request
  PROVE  /\ PollOf(r) \subseteq Poll
         /\ \A p : p \in PollOf(r) <=>
                     r.kind \in {"vote", "autoClose", "patch", "closing"} /\ p = r.poll
<1>1. r.kind \in {"vote", "autoClose", "patch", "closing"} => r.poll \in Poll
  <2>1. r \in Vote => r.poll \in Poll
    BY DEF Vote
  <2>2. r \in AutoClose => r.poll \in Poll
    BY DEF AutoClose
  <2>3. r \in Patch => r.poll \in Poll
    BY DEF Patch
  <2>4. r \in Closings => r.poll \in Poll
    BY DEF Closings
  <2> QED  BY <2>1, <2>2, <2>3, <2>4, Kinds
<1> QED  BY <1>1 DEF PollOf

LEMMA IdleWorksOnNothing == Idle \in Request /\ Idle.kind = "idle" /\ PollOf(Idle) = {}
  BY DEF Idle, Request, PollRequest, PollOf

(* A request that works on no poll and opens none.                         *)
LEMMA AsideKeeps ==
  ASSUME IInv, NEW h \in Handler, NEW r \in Request, PollOf(r) = {},
         r.kind # "opening", r.kind # "closing",
         req' = [req EXCEPT ![h] = r],
         UNCHANGED <<now, poll, ballots, raced, resolution, doubled>>,
         meeting' \in MeetingStatus, proxy' \subseteq Unit
  PROVE  IInv'
<1> USE DEF IInv
<1>1. \A g \in Handler : req'[g] = IF g = h THEN r ELSE req[g]
  BY DEF TypeOK
<1>2. TypeOK'
  BY DEF TypeOK
<1>3. RowsKnow' /\ BallotsKnow' /\ Linked'
  BY DEF RowsKnow, BallotsKnow, Linked, Exists
<1>4. RequestsKnow'
  BY <1>1 DEF RequestsKnow, Knows, Exists
<1>5. OpenedOnce'
  BY <1>1 DEF OpenedOnce, Opens
<1>6. ClosingsAlone'
  BY <1>1 DEF ClosingsAlone, ClosesAlone, Voted, BallotsOf
<1>7. ResultsStand'
  BY <1>1 DEF ResultsStand, Stands, Voted, BallotsOf
<1> QED  BY <1>2, <1>3, <1>4, <1>5, <1>6, <1>7

(* A request that starts to work on a poll.                                *)
LEMMA BeginOnPollKeeps ==
  ASSUME IInv, NEW h \in Handler, NEW r \in Request, BeginOnPoll(h, r),
         r.kind \in {"vote", "autoClose", "patch"}, Exists(r.poll),
         poll[r.poll].status = "CLOSED" => Harmless(r),
         UNCHANGED <<now, poll, ballots, meeting, resolution, proxy, doubled>>
  PROVE  IInv'
<1> USE DEF IInv
<1>1. \A g \in Handler : req'[g] = IF g = h THEN r ELSE req[g]
  BY DEF TypeOK, BeginOnPoll
<1>2. r.poll \in Poll /\ PollOf(r) = {r.poll} /\ req[h] = Idle /\ PollOf(req[h]) = {}
  BY RequestPolls, IdleWorksOnNothing DEF BeginOnPoll, PollOf
<1>3. raced \subseteq raced' /\ raced' \subseteq Poll
  BY <1>2 DEF BeginOnPoll, TypeOK
<1>4. \A g \in Handler : req[g].kind = "closing" /\ req[g].poll = r.poll => r.poll \in raced'
  BY DEF BeginOnPoll, MeetsClosing, AtWork, PollOf
<1>5. TypeOK'
  BY <1>3 DEF TypeOK, BeginOnPoll
<1>6. RowsKnow' /\ BallotsKnow' /\ Linked'
  BY DEF RowsKnow, BallotsKnow, Linked, Exists
<1>7. RequestsKnow'
  BY <1>1, <1>2 DEF RequestsKnow, Knows, Exists
<1>8. OpenedOnce'
  BY <1>1 DEF OpenedOnce, Opens
<1>9. ClosingsAlone'
  <2> SUFFICES ASSUME NEW g \in Handler, NEW p \in Poll \ raced',
                      req'[g].kind = "closing", req'[g].poll = p
               PROVE  ClosesAlone(g, p)'
    BY DEF ClosingsAlone
  <2>1. req'[g] = req[g] /\ p \notin raced /\ p # r.poll /\ g # h
    BY <1>1, <1>3, <1>4
  <2>2. ClosesAlone(g, p) /\ Voted(p)' = Voted(p)
    BY <2>1 DEF ClosingsAlone, Voted, BallotsOf
  <2> QED  BY <2>1, <2>2, <1>1, <1>2 DEF ClosesAlone
<1>10. ResultsStand'
  BY <1>1, <1>2, <1>3 DEF ResultsStand, Stands, Voted, BallotsOf
<1> QED  BY <1>5, <1>6, <1>7, <1>8, <1>9, <1>10

LEMMA TallyKeeps ==
  ASSUME IInv, NEW h \in Handler, NEW r \in Resolution, Tally(h, r)
  PROVE  IInv'
<1> USE DEF IInv
<1>0. PICK p : p = resolution[r].poll
  OBVIOUS
<1>1. p \in Poll /\ poll[p].of = r /\ poll[p].status # "CLOSED"
  BY <1>0 DEF Tally, MayClose, Linked, TypeOK, ResolutionRow
<1>2. Exists(p)
  BY <1>1, PollAssumption DEF RowsKnow
<1>3. PICK c : /\ c \in Closings /\ BeginOnPoll(h, c)
               /\ c.kind = "closing" /\ c.res = r /\ c.poll = p /\ c.pc = "tallied" /\ c.tally = Voted(p)
  <2> DEFINE d == [kind |-> "closing", res |-> r, poll |-> p, pc |-> "tallied",
                   tally |-> Voted(p), quorum |-> {}]
  <2>1. Voted(p) \in SUBSET Unit
    BY DEF Voted, BallotsOf, TypeOK, Ballot
  <2>2. d \in Closings
    BY <2>1, <1>1 DEF Closings
  <2>3. BeginOnPoll(h, d)
    BY <1>0 DEF Tally
  <2> QED  BY <2>2, <2>3
<1>4. UNCHANGED <<now, poll, ballots, meeting, resolution, proxy, doubled>>
  BY DEF Tally, meetingVars
<1>5. \A g \in Handler : req'[g] = IF g = h THEN c ELSE req[g]
  BY <1>3 DEF TypeOK, BeginOnPoll
<1>6. PollOf(c) = {p} /\ req[h] = Idle /\ PollOf(req[h]) = {}
  BY <1>3, IdleWorksOnNothing DEF BeginOnPoll, PollOf
<1>7. raced \subseteq raced' /\ raced' \subseteq Poll
  BY <1>1, <1>3 DEF BeginOnPoll, TypeOK
<1>8. \A g \in Handler : p \in PollOf(req[g]) => p \in raced'
  BY <1>3 DEF BeginOnPoll, MeetsClosing, AtWork
<1>9. TypeOK'
  BY <1>3, <1>4, <1>5, <1>7 DEF TypeOK, BeginOnPoll, Request
<1>10. RowsKnow' /\ BallotsKnow' /\ Linked'
  BY <1>4 DEF RowsKnow, BallotsKnow, Linked, Exists
<1>11. RequestsKnow'
  BY <1>1, <1>2, <1>3, <1>4, <1>5, <1>6 DEF RequestsKnow, Knows, Exists
<1>12. OpenedOnce'
  BY <1>3, <1>4, <1>5 DEF OpenedOnce, Opens
<1>13. ClosingsAlone'
  <2> SUFFICES ASSUME NEW g \in Handler, NEW q \in Poll \ raced',
                      req'[g].kind = "closing", req'[g].poll = q
               PROVE  ClosesAlone(g, q)'
    BY DEF ClosingsAlone
  <2>1. Voted(q)' = Voted(q)
    BY <1>4 DEF Voted, BallotsOf
  <2>2. CASE g = h
    <3>1. q = p
      BY <2>2, <1>3, <1>5
    <3> QED  BY <2>1, <2>2, <3>1, <1>3, <1>5, <1>8 DEF ClosesAlone
  <2>3. CASE g # h
    <3>1. req'[g] = req[g] /\ q \in PollOf(req[g])
      BY <1>5, <2>3 DEF PollOf
    <3>2. q \notin raced /\ q # p /\ ClosesAlone(g, q)
      BY <3>1, <1>7, <1>8 DEF ClosingsAlone
    <3> QED  BY <2>1, <2>3, <3>1, <3>2, <1>5, <1>6 DEF ClosesAlone
  <2> QED  BY <2>2, <2>3
<1>14. ResultsStand'
  BY <1>1, <1>4, <1>5, <1>6, <1>7 DEF ResultsStand, Stands, Voted, BallotsOf
<1> QED  BY <1>9, <1>10, <1>11, <1>12, <1>13, <1>14

-----------------------------------------------------------------------------
(* What the steps of the polls have in common: polls come without a        *)
(* resolution and stay; requests go on, or end; and whatever is written to *)
(* a poll is written by one that no closing and no result has to fear.     *)
PollsStay ==
  \A p \in Poll :
    /\ Exists(p) => poll'[p].status # "none" /\ poll'[p].of = poll[p].of
    /\ ~Exists(p) => poll'[p].of = NoOne

RequestsGoOn ==
  \A g \in Handler :
    \/ req'[g] = req[g]
    \/ req'[g] = Idle
    \/ req[g].kind = "vote" /\ req'[g].kind = "vote" /\ req'[g].poll = req[g].poll

Untouched(p) ==
  /\ Voted(p)' = Voted(p)
  /\ poll[p].status = "CLOSED" => poll'[p].status = "CLOSED"

NoResultsOf(p) ==
  /\ \A g \in Handler : req[g].kind = "closing" /\ req[g].poll = p => p \in raced
  /\ \A r \in Resolution : resolution[r].results.of = p => p \in raced

LEMMA WorkKeeps ==
  ASSUME IInv, TypeOK', BallotsKnow', PollsStay, RequestsGoOn,
         \A p \in Poll : Untouched(p) \/ NoResultsOf(p),
         UNCHANGED <<raced, doubled>>,
         \A r \in Resolution : /\ resolution'[r].poll = resolution[r].poll
                               /\ resolution'[r].results = resolution[r].results
  PROVE  IInv'
<1> USE DEF IInv
<1>1. ASSUME NEW g \in Handler
      PROVE  /\ PollOf(req'[g]) \subseteq PollOf(req[g])
             /\ req'[g].kind \in {"closing", "opening", "patch"} => req'[g] = req[g]
             /\ req'[g] = req[g] \/ req'[g].kind \in {"idle", "vote"}
  BY IdleWorksOnNothing DEF RequestsGoOn, PollOf
<1>2. \A p \in Poll : poll[p].of \in Resolution => Exists(p)
  BY PollAssumption DEF RowsKnow
<1>3. RowsKnow'
  BY DEF RowsKnow, PollsStay, Exists
<1>4. RequestsKnow'
  <2> SUFFICES ASSUME NEW g \in Handler  PROVE Knows(req[g])'
    BY DEF RequestsKnow
  <2>1. Knows(req[g]) /\ req[g] \in Request /\ req'[g] \in Request
    BY DEF RequestsKnow, TypeOK
  <2>2. \A p \in PollOf(req'[g]) : p \in Poll /\ Exists(p)'
    BY <2>1, <1>1, RequestPolls DEF Knows, PollsStay, Exists
  <2>3. req'[g].kind = "closing" => poll'[req'[g].poll].of = req'[g].res
    <3> SUFFICES ASSUME req'[g].kind = "closing"  PROVE poll'[req[g].poll].of = req[g].res
      BY <1>1
    <3>1. req[g].kind = "closing" /\ req[g].poll \in PollOf(req[g])
      BY <1>1 DEF PollOf
    <3> QED  BY <3>1, <2>1, RequestPolls DEF Knows, PollsStay
  <2> QED  BY <2>2, <2>3 DEF Knows
<1>5. Linked'
  <2> SUFFICES ASSUME NEW r \in Resolution
               PROVE  /\ resolution[r].poll # NoPoll => poll'[resolution[r].poll].of = r
                      /\ resolution[r].results.of # NoPoll => poll'[resolution[r].results.of].of = r
                      /\ r \notin doubled =>
                           \A p \in Poll : poll'[p].of = r => resolution[r].poll = p
    BY DEF Linked
  <2>1. \A p \in Poll : poll'[p].of = r <=> poll[p].of = r
    BY <1>2, PollAssumption DEF PollsStay
  <2>2. resolution[r].poll \in Poll \cup {NoPoll} /\ resolution[r].results.of \in Poll \cup {NoPoll}
    BY DEF TypeOK, ResolutionRow, Snapshot
  <2> QED  BY <2>1, <2>2 DEF Linked
<1>6. OpenedOnce'
  BY <1>1 DEF OpenedOnce, Opens
<1>7. ClosingsAlone'
  <2> SUFFICES ASSUME NEW g \in Handler, NEW p \in Poll \ raced,
                      req'[g].kind = "closing", req'[g].poll = p
               PROVE  ClosesAlone(g, p)'
    BY DEF ClosingsAlone
  <2>1. req'[g] = req[g] /\ ClosesAlone(g, p)
    BY <1>1 DEF ClosingsAlone
  <2>2. Voted(p)' = Voted(p)
    BY <2>1 DEF NoResultsOf, Untouched
  <2> QED  BY <2>1, <2>2, <1>1 DEF ClosesAlone
<1>8. ResultsStand'
  <2> SUFFICES ASSUME NEW r \in Resolution, NEW q, q = resolution[r].results.of,
                      q # NoPoll, q \notin raced
               PROVE  /\ poll'[q].status = "CLOSED"
                      /\ resolution[r].results.tally = Voted(q)'
                      /\ resolution[r].results.quorum = Voted(q)'
                      /\ \A g \in Handler : q \in PollOf(req'[g]) => Harmless(req'[g])
    BY DEF ResultsStand, Stands
  <2>1. q \in Poll /\ Stands(resolution[r].results)
    BY DEF ResultsStand, TypeOK, ResolutionRow, Snapshot
  <2>2. Untouched(q)
    BY <2>1 DEF NoResultsOf
  <2>3. ASSUME NEW g \in Handler, q \in PollOf(req'[g])  PROVE Harmless(req'[g])
    <3>1. Harmless(req[g]) /\ req[g].kind = "patch"
      BY <1>1, <2>1, <2>3 DEF Stands, Harmless
    <3>2. req'[g] = req[g]
      BY <3>1, <2>3, IdleWorksOnNothing DEF RequestsGoOn
    <3> QED  BY <3>1, <3>2
  <2> QED  BY <2>1, <2>2, <2>3 DEF Stands, Untouched
<1> QED  BY <1>3, <1>4, <1>5, <1>6, <1>7, <1>8

(* A request at work on a poll, other than a closing and a harmless PATCH, *)
(* has no results to fear.                                                 *)
LEMMA WorkersMeetNothing ==
  ASSUME IInv, NEW h \in Handler, req[h].kind # "closing", ~Harmless(req[h]),
         NEW p \in PollOf(req[h])
  PROVE  p \in Poll /\ NoResultsOf(p)
<1> USE DEF IInv
<1>1. p \in Poll
  BY RequestPolls DEF TypeOK
<1>2. \A g \in Handler : req[g].kind = "closing" /\ req[g].poll = p => p \in raced
  BY <1>1 DEF ClosingsAlone, ClosesAlone
<1>3. \A r \in Resolution : resolution[r].results.of = p => p \in raced
  BY <1>1, GovernanceAssumption DEF ResultsStand, Stands
<1> QED  BY <1>1, <1>2, <1>3 DEF NoResultsOf

-----------------------------------------------------------------------------
(* The rows after an update, field by field.                               *)
LEMMA CountedFields ==
  ASSUME NEW r \in Closings, NEW q \in SUBSET Unit
  PROVE  /\ Counted(r, q) \in Closings
         /\ Counted(r, q).kind = "closing" /\ Counted(r, q).pc = "counted"
         /\ Counted(r, q).quorum = q /\ Counted(r, q).tally = r.tally
         /\ Counted(r, q).poll = r.poll /\ Counted(r, q).res = r.res
  BY DEF Closings, Counted

LEMMA ShutFields ==
  ASSUME NEW row \in PollRow
  PROVE  /\ Shut(row) \in PollRow
         /\ Shut(row).status = "CLOSED" /\ Shut(row).of = row.of
  BY DEF PollRow, Shut, PollStatus

LEMMA PatchedFields ==
  ASSUME NEW row \in PollRow, NEW r \in Patch
  PROVE  /\ Patched(row, r) \in PollRow
         /\ Patched(row, r).status = IF r.status = "none" THEN row.status ELSE r.status
         /\ Patched(row, r).of = row.of
<1>1. PICK s, c : /\ s = IF r.status = "none" THEN row.status ELSE r.status
                  /\ c = IF r.closesAt = Kept THEN row.closesAt ELSE r.closesAt
  OBVIOUS
<1>2. s \in PollStatus /\ c \in Closing
  BY <1>1 DEF PollRow, Patch
<1>3. Patched(row, r) = [row EXCEPT !.status = s, !.closesAt = c]
  BY <1>1 DEF Patched
<1>4. PICK new : new = [row EXCEPT !.status = s, !.closesAt = c]
  OBVIOUS
<1>5. new \in PollRow /\ new.status = s /\ new.of = row.of
  BY <1>2, <1>4 DEF PollRow
<1> QED  BY <1>1, <1>3, <1>4, <1>5

LEMMA DeletedFields ==
  ASSUME NEW v \in Vote
  PROVE  [v EXCEPT !.option = "deleted"] \in Vote
  BY DEF Vote

LEMMA DraftFields ==
  ASSUME NEW o \in Instants, NEW c \in Closing
  PROVE  LET row == [NoPollRow EXCEPT !.status = "DRAFT", !.opensAt = o, !.closesAt = c]
         IN row \in PollRow /\ row.status = "DRAFT" /\ row.of = NoOne
  BY DEF NoPollRow, PollRow, PollStatus

-----------------------------------------------------------------------------
(* The requests and the sweep of the polls.                                *)
LEMMA ReadForVoteKeeps ==
  ASSUME IInv, NEW h \in Handler, NEW p \in Poll, NEW u \in Unit,
         NEW by \in {"owner", "holder"}, ReadForVote(h, p, u, by), UNCHANGED meetingVars
  PROVE  IInv'
<1>1. PICK v : /\ v = [kind |-> "vote", poll |-> p, unit |-> u, by |-> by, option |-> "there"]
               /\ BeginOnPoll(h, v)
  BY DEF ReadForVote
<1>2. v.kind = "vote" /\ v.poll = p /\ v \in Request
  BY <1>1 DEF Vote, Request, PollRequest
<1>3. poll[p].status = "OPEN"
  BY DEF ReadForVote, OpenForVotes, EffectiveStatus
<1>4. UNCHANGED <<now, poll, ballots, meeting, resolution, proxy, doubled>>
  BY DEF ReadForVote, meetingVars
<1> QED  BY <1>1, <1>2, <1>3, <1>4, BeginOnPollKeeps DEF Exists

LEMMA LookAtExpiredKeeps ==
  ASSUME IInv, NEW h \in Handler, NEW p \in Poll, LookAtExpired(h, p), UNCHANGED meetingVars
  PROVE  IInv'
<1>1. PICK c : /\ c = [kind |-> "autoClose", poll |-> p]
               /\ BeginOnPoll(h, c)
  BY DEF LookAtExpired
<1>2. c.kind = "autoClose" /\ c.poll = p /\ c \in Request
  BY <1>1 DEF AutoClose, Request, PollRequest
<1>3. poll[p].status = "OPEN"
  BY DEF LookAtExpired, Expired
<1>4. UNCHANGED <<now, poll, ballots, meeting, resolution, proxy, doubled>>
  BY DEF LookAtExpired, meetingVars
<1> QED  BY <1>1, <1>2, <1>3, <1>4, BeginOnPollKeeps DEF Exists

LEMMA ReadForPatchKeeps ==
  ASSUME IInv, NEW h \in Handler, NEW p \in Poll, NEW status \in PollStatus,
         NEW closesAt \in {Kept} \cup Moves, NEW options \in BOOLEAN,
         ReadForPatch(h, p, status, closesAt, options), UNCHANGED meetingVars
  PROVE  IInv'
<1>1. PICK c : /\ c = [kind |-> "patch", poll |-> p, status |-> status,
                       closesAt |-> closesAt, options |-> options]
               /\ BeginOnPoll(h, c)
  BY DEF ReadForPatch
<1>2. closesAt \in {Kept} \cup Closing
  BY PollAssumption DEF Closing, Never
<1>3. /\ c.kind = "patch" /\ c.poll = p /\ c \in Request
      /\ c.status = status /\ c.options = options
  BY <1>1, <1>2 DEF Patch, Request, PollRequest
<1>4. poll[p].status = "CLOSED" => Harmless(c)
  BY <1>3 DEF ReadForPatch, MayPatch, EffectiveStatus, Expired, Harmless
<1>5. Exists(p) /\ UNCHANGED <<now, poll, ballots, meeting, resolution, proxy, doubled>>
  BY DEF ReadForPatch, meetingVars
<1> QED  BY <1>1, <1>3, <1>4, <1>5, BeginOnPollKeeps

(* A ballot more on the poll the vote is for.                              *)
LEMMA RecordVoteKeeps ==
  ASSUME IInv, NEW h \in Handler, RecordVote(h), UNCHANGED meetingVars
  PROVE  IInv'
<1>1. PICK v : v = req[h]
  OBVIOUS
<1>2. /\ v.kind = "vote" /\ v \in Vote
      /\ v.poll \in Poll /\ Exists(v.poll) /\ NoResultsOf(v.poll)
  <2>1. v.kind = "vote" /\ v \in Request
    BY <1>1 DEF RecordVote, IInv, TypeOK
  <2>2. v.poll \in PollOf(req[h]) /\ ~Harmless(req[h])
    BY <1>1, <2>1 DEF PollOf, Harmless
  <2> QED  BY <1>1, <2>1, <2>2, Kinds, WorkersMeetNothing DEF IInv, RequestsKnow, Knows
<1>3. PICK b : b = [poll |-> v.poll, unit |-> v.unit, by |-> v.by]
  OBVIOUS
<1>4. /\ b \in Ballot /\ b.poll = v.poll /\ b.unit = v.unit
      /\ ballots' = IF Inserts(v) THEN ballots \cup {b} ELSE ballots
  BY <1>1, <1>2, <1>3 DEF RecordVote, Vote, Ballot
<1>5. /\ req' = [req EXCEPT ![h] = Idle]
      /\ UNCHANGED <<now, poll, raced, meeting, resolution, proxy, doubled>>
  BY DEF RecordVote, Answer, meetingVars
<1>6. TypeOK'
  BY <1>4, <1>5, IdleWorksOnNothing DEF IInv, TypeOK
<1>7. BallotsKnow'
  <2>1. Inserts(v) => \A c \in ballots : c.poll = b.poll => c.unit # b.unit
    BY <1>4 DEF Inserts, Voted, BallotsOf
  <2>2. \A c \in ballots' : c \in ballots \/ (c = b /\ Inserts(v))
    BY <1>4
  <2>3. \A c \in ballots' : Exists(c.poll)'
    BY <2>2, <1>2, <1>4, <1>5 DEF IInv, BallotsKnow, Exists
  <2>4. \A c, d \in ballots' : c.poll = d.poll /\ c.unit = d.unit => c = d
    BY <2>1, <2>2 DEF IInv, BallotsKnow
  <2> QED  BY <2>3, <2>4 DEF BallotsKnow
<1>8. PollsStay
  BY <1>5 DEF PollsStay, Exists, IInv, RowsKnow
<1>9. RequestsGoOn
  BY <1>5 DEF RequestsGoOn, IInv, TypeOK
<1>10. ASSUME NEW p \in Poll, p # v.poll  PROVE Untouched(p)
  BY <1>4, <1>5, <1>10 DEF Untouched, Voted, BallotsOf
<1>11. \A p \in Poll : Untouched(p) \/ NoResultsOf(p)
  BY <1>2, <1>10
<1> QED  BY <1>5, <1>6, <1>7, <1>8, <1>9, <1>11, WorkKeeps

LEMMA MaybeAutoCloseKeeps ==
  ASSUME IInv, NEW h \in Handler, MaybeAutoClose(h), UNCHANGED meetingVars
  PROVE  IInv'
<1>1. PICK p : p = req[h].poll
  OBVIOUS
<1>2. /\ p \in Poll /\ Exists(p)
      /\ poll' = [poll EXCEPT ![p].status = "CLOSED"] /\ req' = [req EXCEPT ![h] = Idle]
      /\ UNCHANGED <<now, ballots, raced, meeting, resolution, proxy, doubled>>
  <2>1. req[h].kind = "autoClose" /\ p \in PollOf(req[h])
    BY <1>1 DEF MaybeAutoClose, PollOf
  <2>2. p \in Poll
    BY <2>1, RequestPolls DEF IInv, TypeOK
  <2> QED  BY <1>1, <2>1, <2>2 DEF MaybeAutoClose, Answer, meetingVars, IInv, RequestsKnow, Knows
<1>3. \A q \in Poll : /\ poll'[q].status = IF q = p THEN "CLOSED" ELSE poll[q].status
                      /\ poll'[q].of = poll[q].of
                      /\ poll'[q] \in PollRow
  BY <1>2 DEF IInv, TypeOK, PollRow, PollStatus
<1>4. TypeOK'
  BY <1>2, <1>3, IdleWorksOnNothing DEF IInv, TypeOK
<1>5. BallotsKnow'
  BY <1>2, <1>3 DEF IInv, TypeOK, Ballot, BallotsKnow, Exists
<1>6. PollsStay
  BY <1>2, <1>3 DEF PollsStay, Exists, IInv, RowsKnow
<1>7. RequestsGoOn
  BY <1>2 DEF RequestsGoOn, IInv, TypeOK
<1>8. \A q \in Poll : Untouched(q)
  BY <1>2, <1>3 DEF Untouched, Voted, BallotsOf
<1> QED  BY <1>2, <1>4, <1>5, <1>6, <1>7, <1>8, WorkKeeps

LEMMA WritePatchKeeps ==
  ASSUME IInv, NEW h \in Handler, WritePatch(h), UNCHANGED meetingVars
  PROVE  IInv'
<1>1. PICK r : r = req[h]
  OBVIOUS
<1>2. PICK p : p = r.poll
  OBVIOUS
<1>3. r.kind = "patch" /\ r \in Patch /\ p \in PollOf(req[h]) /\ p \in Poll /\ Exists(p)
  <2>1. r.kind = "patch" /\ p \in PollOf(req[h])
    BY <1>1, <1>2 DEF WritePatch, PollOf
  <2> QED  BY <1>1, <2>1, RequestPolls, Kinds DEF IInv, TypeOK, RequestsKnow, Knows
<1>4. /\ poll' = [poll EXCEPT ![p] = Patched(poll[p], r)]
      /\ ballots' = IF r.options THEN ballots \ BallotsOf(p) ELSE ballots
      /\ req' = [(IF r.options THEN OptionsDeleted(p) ELSE req) EXCEPT ![h] = Idle]
      /\ UNCHANGED <<now, raced, meeting, resolution, proxy, doubled>>
  BY <1>1, <1>2 DEF WritePatch, meetingVars
<1>5. \A q \in Poll : /\ poll'[q] \in PollRow /\ poll'[q].of = poll[q].of
                      /\ q # p => poll'[q] = poll[q]
                      /\ Exists(q) => poll'[q].status # "none"
  <2>1. /\ Patched(poll[p], r) \in PollRow /\ Patched(poll[p], r).of = poll[p].of
        /\ Patched(poll[p], r).status # "none"
    BY <1>3, PatchedFields DEF IInv, TypeOK, Exists
  <2> QED  BY <1>3, <1>4, <2>1 DEF IInv, TypeOK, Exists
<1>6. \A g \in Handler :
        \/ req'[g] = req[g]
        \/ req'[g] = Idle
        \/ /\ req[g].kind = "vote"
           /\ req'[g] \in Vote /\ req'[g].kind = "vote" /\ req'[g].poll = req[g].poll
  <2> SUFFICES ASSUME NEW g \in Handler, g # h, r.options, req[g].kind = "vote", req[g].poll = p
               PROVE  /\ req'[g] \in Vote /\ req'[g].kind = "vote"
                      /\ req'[g].poll = req[g].poll
    BY <1>4 DEF OptionsDeleted, IInv, TypeOK
  <2>1. req[g] \in Vote
    BY Kinds DEF IInv, TypeOK
  <2>2. req'[g] = [req[g] EXCEPT !.option = "deleted"]
    BY <1>4 DEF OptionsDeleted
  <2> QED  BY <2>1, <2>2, DeletedFields DEF Vote
<1>7. TypeOK'
  <2>1. req' \in [Handler -> Request]
    <3>1. \A g \in Handler : req'[g] \in Request
      BY <1>6, IdleWorksOnNothing DEF IInv, TypeOK, Request, PollRequest
    <3> QED  BY <3>1, <1>4 DEF OptionsDeleted, IInv, TypeOK
  <2>2. poll' \in [Poll -> PollRow]
    BY <1>4, <1>5 DEF IInv, TypeOK
  <2> QED  BY <2>1, <2>2, <1>4 DEF IInv, TypeOK
<1>8. BallotsKnow'
  BY <1>4, <1>5 DEF IInv, TypeOK, Ballot, BallotsKnow, Exists
<1>9. PollsStay
  BY <1>5 DEF PollsStay, IInv, RowsKnow
<1>10. RequestsGoOn
  BY <1>6 DEF RequestsGoOn
<1>11. \A q \in Poll : q # p => Untouched(q)
  BY <1>4, <1>5 DEF Untouched, Voted, BallotsOf
<1>12. Harmless(r) => Untouched(p)
  <2> SUFFICES ASSUME Harmless(r)  PROVE Untouched(p)
    OBVIOUS
  <2>1. Patched(poll[p], r).status = "CLOSED" /\ ballots' = ballots
    BY <1>3, <1>4, PatchedFields DEF Harmless, IInv, TypeOK
  <2>2. poll'[p].status = "CLOSED"
    BY <2>1, <1>3, <1>4 DEF IInv, TypeOK
  <2> QED  BY <2>1, <2>2 DEF Untouched, Voted, BallotsOf
<1>13. ~Harmless(r) => NoResultsOf(p)
  BY <1>1, <1>3, WorkersMeetNothing
<1>14. \A q \in Poll : Untouched(q) \/ NoResultsOf(q)
  BY <1>11, <1>12, <1>13
<1> QED  BY <1>4, <1>7, <1>8, <1>9, <1>10, <1>14, WorkKeeps

LEMMA CreateKeeps ==
  ASSUME IInv, NEW p \in Poll, NEW o \in Starts, NEW c \in Ends, Create(p, o, c),
         UNCHANGED meetingVars
  PROVE  IInv'
<1>1. PICK row : row = [NoPollRow EXCEPT !.status = "DRAFT", !.opensAt = o, !.closesAt = c]
  OBVIOUS
<1>2. row \in PollRow /\ row.status = "DRAFT" /\ row.of = NoOne
  <2>1. o \in Instants /\ c \in Closing
    BY PollAssumption DEF Instants, Closing, Never
  <2> QED  BY <1>1, <2>1, DraftFields
<1>3. /\ ~Exists(p) /\ poll' = [poll EXCEPT ![p] = row]
      /\ UNCHANGED <<now, ballots, req, raced, meeting, resolution, proxy, doubled>>
  BY <1>1 DEF Create, meetingVars
<1>4. \A q \in Poll : poll'[q] = IF q = p THEN row ELSE poll[q]
  BY <1>3 DEF IInv, TypeOK
<1>5. TypeOK'
  BY <1>2, <1>3, <1>4 DEF IInv, TypeOK
<1>6. BallotsKnow'
  BY <1>2, <1>3, <1>4 DEF IInv, TypeOK, Ballot, BallotsKnow, Exists
<1>7. PollsStay
  BY <1>2, <1>3, <1>4 DEF PollsStay, Exists, IInv, RowsKnow
<1>8. RequestsGoOn
  BY <1>3 DEF RequestsGoOn
<1>9. \A q \in Poll : Untouched(q)
  BY <1>3, <1>4 DEF Untouched, Voted, BallotsOf, Exists
<1> QED  BY <1>3, <1>5, <1>6, <1>7, <1>8, <1>9, WorkKeeps

LEMMA CloseExpiredPollsKeeps ==
  ASSUME IInv, CloseExpiredPolls, UNCHANGED meetingVars
  PROVE  IInv'
<1>1. UNCHANGED <<now, ballots, req, raced, meeting, resolution, proxy, doubled>>
  BY DEF CloseExpiredPolls, meetingVars
<1>2. ASSUME NEW p \in Poll
      PROVE  /\ poll'[p] \in PollRow /\ poll'[p].of = poll[p].of
             /\ poll'[p].status = IF Expired(p) THEN "CLOSED" ELSE poll[p].status
  <2>1. poll'[p] = IF Expired(p) THEN [poll[p] EXCEPT !.status = "CLOSED"] ELSE poll[p]
    BY DEF CloseExpiredPolls
  <2>2. poll[p] \in PollRow
    BY DEF IInv, TypeOK
  <2> QED  BY <2>1, <2>2 DEF PollRow, PollStatus
<1>3. TypeOK'
  BY <1>1, <1>2 DEF IInv, TypeOK, CloseExpiredPolls
<1>4. BallotsKnow'
  BY <1>1, <1>2 DEF IInv, TypeOK, Ballot, BallotsKnow, Exists
<1>5. PollsStay
  BY <1>2 DEF PollsStay, Exists, Expired, IInv, RowsKnow
<1>6. RequestsGoOn
  BY <1>1 DEF RequestsGoOn
<1>7. \A p \in Poll : Untouched(p)
  BY <1>1, <1>2 DEF Untouched, Voted, BallotsOf
<1> QED  BY <1>1, <1>3, <1>4, <1>5, <1>6, <1>7, WorkKeeps

(* Steps that leave the polls, the ballots and the requests as they are.   *)
LEMMA ElsewhereKeeps ==
  ASSUME IInv, TypeOK', UNCHANGED <<poll, ballots, req, raced, doubled>>,
         \A r \in Resolution : /\ resolution'[r].poll = resolution[r].poll
                               /\ resolution'[r].results = resolution[r].results
  PROVE  IInv'
<1>1. BallotsKnow'
  BY DEF IInv, BallotsKnow, Exists
<1>2. PollsStay /\ RequestsGoOn
  BY DEF PollsStay, RequestsGoOn, Exists, IInv, RowsKnow
<1>3. \A p \in Poll : Untouched(p)
  BY DEF Untouched, Voted, BallotsOf
<1> QED  BY <1>1, <1>2, <1>3, WorkKeeps

LEMMA TickKeeps ==
  ASSUME IInv, Tick, UNCHANGED meetingVars
  PROVE  IInv'
<1>1. TypeOK'
  BY PollAssumption DEF IInv, TypeOK, Tick, meetingVars, Instants
<1> QED  BY <1>1, ElsewhereKeeps DEF Tick, meetingVars

LEMMA AddResolutionKeeps ==
  ASSUME IInv, NEW r \in Resolution, AddResolution(r)
  PROVE  IInv'
<1>1. \A s \in Resolution : /\ resolution'[s] \in ResolutionRow
                            /\ resolution'[s].poll = resolution[s].poll
                            /\ resolution'[s].results = resolution[s].results
  BY DEF AddResolution, IInv, TypeOK, ResolutionRow
<1>2. TypeOK'
  BY <1>1 DEF AddResolution, IInv, TypeOK, pollVars
<1> QED  BY <1>1, <1>2, ElsewhereKeeps DEF AddResolution, pollVars

LEMMA SubmitProxyKeeps ==
  ASSUME IInv, NEW u \in Unit, SubmitProxy(u)
  PROVE  IInv'
<1>1. TypeOK'
  BY DEF SubmitProxy, IInv, TypeOK, pollVars
<1> QED  BY <1>1, ElsewhereKeeps DEF SubmitProxy, pollVars

-----------------------------------------------------------------------------
(* The meeting's own requests.                                             *)
LEMMA BeginMeetingKeeps ==
  ASSUME IInv, NEW h \in Handler, NEW status \in MeetingStatus,
         Begin(h, [kind |-> "meeting", status |-> status]),
         UNCHANGED <<now, poll, ballots, raced, meetingVars>>
  PROVE  IInv'
<1>1. PICK c : c = [kind |-> "meeting", status |-> status]
  OBVIOUS
<1>2. c.kind = "meeting" /\ c \in Request
  BY <1>1 DEF MeetingPatch, Request
<1>3. PollOf(c) = {}
  BY <1>2 DEF PollOf
<1>4. req' = [req EXCEPT ![h] = c]
  BY <1>1 DEF Begin
<1>5. meeting' \in MeetingStatus /\ proxy' \subseteq Unit
  BY DEF meetingVars, IInv, TypeOK
<1> QED  BY <1>2, <1>3, <1>4, <1>5, AsideKeeps DEF meetingVars

LEMMA WriteMeetingKeeps ==
  ASSUME IInv, NEW h \in Handler, WriteMeeting(h)
  PROVE  IInv'
<1>1. req[h] \in MeetingPatch
  BY Kinds DEF WriteMeeting, IInv, TypeOK
<1>2. meeting' \in MeetingStatus /\ proxy' \subseteq Unit
  BY <1>1 DEF WriteMeeting, MeetingPatch, IInv, TypeOK
<1> QED  BY <1>2, IdleWorksOnNothing, AsideKeeps DEF WriteMeeting, Answer

LEMMA ReadForOpeningKeeps ==
  ASSUME IInv, NEW h \in Handler, NEW r \in Resolution, ReadForOpening(h, r)
  PROVE  IInv'
<1> USE DEF IInv
<1>1. PICK c : /\ c \in Opening /\ c.kind = "opening" /\ c.res = r
               /\ req' = [req EXCEPT ![h] = c] /\ req[h] = Idle
  <2> DEFINE d == [kind |-> "opening", res |-> r, first |-> meeting = "NOTICE_PUBLISHED"]
  <2>1. d \in Opening
    BY DEF Opening
  <2>2. req' = [req EXCEPT ![h] = d] /\ req[h] = Idle
    BY DEF ReadForOpening, Begin
  <2> QED  BY <2>1, <2>2
<1>2. \A g \in Handler : req'[g] = IF g = h THEN c ELSE req[g]
  BY <1>1 DEF TypeOK
<1>3. /\ UNCHANGED <<now, poll, ballots, raced, meeting, resolution, proxy>>
      /\ doubled \subseteq doubled' /\ doubled' \subseteq Resolution
      /\ OpeningOf(r) # {} => r \in doubled'
  BY DEF ReadForOpening, TypeOK
<1>4. PollOf(c) = {}
  BY <1>1 DEF PollOf
<1>5. TypeOK'
  BY <1>1, <1>3 DEF TypeOK, Request
<1>6. RowsKnow' /\ BallotsKnow' /\ Linked'
  BY <1>3 DEF RowsKnow, BallotsKnow, Linked, Exists
<1>7. RequestsKnow'
  BY <1>1, <1>2, <1>3, <1>4 DEF RequestsKnow, Knows, Exists
<1>8. OpenedOnce'
  <2> SUFFICES ASSUME NEW s \in Resolution \ doubled', NEW g \in Handler, Opens(g, s)'
               PROVE  /\ resolution[s].poll = NoPoll
                      /\ \A k \in Handler : Opens(k, s)' => k = g
    BY <1>3 DEF OpenedOnce
  <2>1. CASE s = r
    <3>1. \A k \in Handler : ~Opens(k, r)
      BY <2>1, <1>3 DEF OpeningOf, Opens
    <3> QED  BY <2>1, <3>1, <1>2 DEF Opens, ReadForOpening, MayOpen
  <2>2. CASE s # r
    BY <2>2, <1>1, <1>2, <1>3 DEF Opens, OpenedOnce
  <2> QED  BY <2>1, <2>2
<1>9. ClosingsAlone'
  BY <1>1, <1>2, <1>3, <1>4 DEF ClosingsAlone, ClosesAlone, Voted, BallotsOf
<1>10. ResultsStand'
  BY <1>2, <1>3, <1>4 DEF ResultsStand, Stands, Voted, BallotsOf
<1> QED  BY <1>5, <1>6, <1>7, <1>8, <1>9, <1>10

-----------------------------------------------------------------------------
(* A resolution's poll is new: nobody knows it yet.                        *)
LEMMA OpenResolutionVotingKeeps ==
  ASSUME IInv, NEW h \in Handler, NEW p \in Poll, NEW o \in Starts, NEW c \in Ends,
         OpenResolutionVoting(h, p, o, c)
  PROVE  IInv'
<1> USE DEF IInv
<1>1. PICK r : r = req[h].res
  OBVIOUS
<1>2. r \in Resolution /\ Opens(h, r) /\ req[h].kind = "opening"
  BY <1>1, Kinds DEF OpenResolutionVoting, TypeOK, Opening, Opens
<1>3. PICK row : /\ row = [status |-> "OPEN", opensAt |-> o, closesAt |-> c, of |-> r]
                 /\ poll' = [poll EXCEPT ![p] = row]
  BY <1>1 DEF OpenResolutionVoting
<1>4. row \in PollRow /\ row.status = "OPEN" /\ row.of = r
  <2>1. o \in Instants /\ c \in Closing
    BY PollAssumption DEF Instants, Closing, Never
  <2> QED  BY <2>1, <1>2, <1>3 DEF PollRow, PollStatus
<1>5. /\ ~Exists(p) /\ req' = [req EXCEPT ![h] = Idle]
      /\ resolution' = [resolution EXCEPT ![r].poll = p]
      /\ meeting' = IF req[h].first THEN "IN_PROGRESS" ELSE meeting
      /\ UNCHANGED <<now, ballots, raced, proxy, doubled>>
  BY <1>1 DEF OpenResolutionVoting, Answer
<1>6. \A q \in Poll : poll'[q] = IF q = p THEN row ELSE poll[q]
  BY <1>3 DEF TypeOK
<1>7. \A g \in Handler : req'[g] = IF g = h THEN Idle ELSE req[g]
  BY <1>5 DEF TypeOK
<1>8. \A s \in Resolution : /\ resolution'[s] \in ResolutionRow
                            /\ resolution'[s].poll = IF s = r THEN p ELSE resolution[s].poll
                            /\ resolution'[s].results = resolution[s].results
  BY <1>5 DEF TypeOK, ResolutionRow
<1>9. \A q \in Poll : Voted(q)' = Voted(q)
  BY <1>5 DEF Voted, BallotsOf
<1>10. \A s \in Resolution : resolution[s].poll # p /\ resolution[s].results.of # p
  BY <1>5, PollAssumption, GovernanceAssumption DEF RowsKnow, Linked
<1>11. \A g \in Handler : p \notin PollOf(req[g])
  BY <1>5 DEF RequestsKnow, Knows
<1>12. TypeOK'
  <2>1. poll' \in [Poll -> PollRow] /\ req' \in [Handler -> Request]
    BY <1>3, <1>4, <1>5, IdleWorksOnNothing DEF TypeOK
  <2>2. resolution' \in [Resolution -> ResolutionRow] /\ meeting' \in MeetingStatus
    BY <1>5, <1>8 DEF TypeOK, MeetingStatus
  <2> QED  BY <2>1, <2>2, <1>5 DEF TypeOK
<1>13. RowsKnow'
  BY <1>4, <1>6 DEF RowsKnow, Exists
<1>14. BallotsKnow'
  BY <1>4, <1>5, <1>6 DEF BallotsKnow, Exists, TypeOK, Ballot
<1>15. RequestsKnow'
  <2> SUFFICES ASSUME NEW g \in Handler  PROVE Knows(req[g])'
    BY DEF RequestsKnow
  <2>1. CASE g = h
    BY <2>1, <1>7, IdleWorksOnNothing DEF Knows
  <2>2. CASE g # h
    <3>1. req'[g] = req[g] /\ Knows(req[g]) /\ p \notin PollOf(req[g])
      BY <2>2, <1>7, <1>11 DEF RequestsKnow
    <3>2. \A q \in PollOf(req[g]) : q \in Poll /\ poll'[q] = poll[q]
      BY <3>1, <1>6, RequestPolls DEF TypeOK
    <3>3. req[g].kind = "closing" => req[g].poll \in PollOf(req[g])
      BY DEF PollOf
    <3> QED  BY <3>1, <3>2, <3>3 DEF Knows, Exists
  <2> QED  BY <2>1, <2>2
<1>16. Linked'
  <2> SUFFICES ASSUME NEW s \in Resolution
               PROVE  /\ resolution'[s].poll # NoPoll => poll'[resolution'[s].poll].of = s
                      /\ resolution'[s].results.of # NoPoll =>
                           poll'[resolution'[s].results.of].of = s
                      /\ s \notin doubled => \A q \in Poll : poll'[q].of = s => resolution'[s].poll = q
    BY <1>5 DEF Linked
  <2>1. resolution[s].poll \in Poll \cup {NoPoll} /\ resolution[s].results.of \in Poll \cup {NoPoll}
    BY DEF TypeOK, ResolutionRow, Snapshot
  <2>2. resolution'[s].results.of # NoPoll => poll'[resolution'[s].results.of].of = s
    BY <2>1, <1>6, <1>8, <1>10 DEF Linked
  <2>3. CASE s = r
    <3>1. s \notin doubled => resolution[s].poll = NoPoll
      BY <2>3, <1>2 DEF OpenedOnce
    <3>2. s \notin doubled => \A q \in Poll : q # p => poll'[q].of # s
      BY <3>1, <1>6, GovernanceAssumption DEF Linked
    <3> QED  BY <2>2, <2>3, <3>2, <1>4, <1>6, <1>8
  <2>4. CASE s # r
    BY <2>1, <2>2, <2>4, <1>4, <1>6, <1>8, <1>10 DEF Linked
  <2> QED  BY <2>3, <2>4
<1>17. OpenedOnce'
  <2> SUFFICES ASSUME NEW s \in Resolution \ doubled, NEW g \in Handler, Opens(g, s)'
               PROVE  /\ resolution'[s].poll = NoPoll
                      /\ \A k \in Handler : Opens(k, s)' => k = g
    BY <1>5 DEF OpenedOnce
  <2>1. \A k \in Handler : Opens(k, s)' => k # h /\ Opens(k, s)
    BY <1>7, IdleWorksOnNothing DEF Opens
  <2>2. s # r
    BY <2>1, <1>2 DEF OpenedOnce
  <2> QED  BY <2>1, <2>2, <1>8 DEF OpenedOnce
<1>18. ClosingsAlone'
  <2> SUFFICES ASSUME NEW g \in Handler, NEW q \in Poll \ raced,
                      req'[g].kind = "closing", req'[g].poll = q
               PROVE  ClosesAlone(g, q)'
    BY <1>5 DEF ClosingsAlone
  <2>1. req'[g] = req[g] /\ ClosesAlone(g, q)
    BY <1>7, IdleWorksOnNothing DEF ClosingsAlone
  <2> QED  BY <2>1, <1>7, <1>9, IdleWorksOnNothing DEF ClosesAlone
<1>19. ResultsStand'
  <2> SUFFICES ASSUME NEW s \in Resolution, NEW q, q = resolution[s].results.of,
                      q # NoPoll, q \notin raced
               PROVE  /\ poll'[q].status = "CLOSED"
                      /\ resolution[s].results.tally = Voted(q)'
                      /\ resolution[s].results.quorum = Voted(q)'
                      /\ \A g \in Handler : q \in PollOf(req'[g]) => Harmless(req'[g])
    BY <1>5, <1>8 DEF ResultsStand, Stands
  <2>1. q \in Poll /\ q # p /\ Stands(resolution[s].results)
    BY <1>10 DEF ResultsStand, TypeOK, ResolutionRow, Snapshot
  <2> QED  BY <2>1, <1>6, <1>7, <1>9, IdleWorksOnNothing DEF Stands
<1> QED  BY <1>12, <1>13, <1>14, <1>15, <1>16, <1>17, <1>18, <1>19

LEMMA CountQuorumKeeps ==
  ASSUME IInv, NEW h \in Handler, CountQuorum(h)
  PROVE  IInv'
<1> USE DEF IInv
<1>1. PICK p : p = req[h].poll
  OBVIOUS
<1>2. /\ req[h].kind = "closing" /\ req[h] \in Closings
      /\ UNCHANGED <<now, poll, ballots, raced, meeting, resolution, proxy, doubled>>
  BY Kinds DEF CountQuorum, TypeOK, meetingVars
<1>3. PICK c : /\ c \in Closings /\ req' = [req EXCEPT ![h] = c]
               /\ c.kind = "closing" /\ c.pc = "counted" /\ c.quorum = Voted(p)
               /\ c.tally = req[h].tally /\ c.poll = p /\ c.res = req[h].res
  <2>1. Voted(p) \in SUBSET Unit
    BY DEF Voted, BallotsOf, TypeOK, Ballot
  <2>2. req' = [req EXCEPT ![h] = Counted(req[h], Voted(p))]
    BY <1>1 DEF CountQuorum
  <2>3. PICK c : c = Counted(req[h], Voted(p))
    OBVIOUS
  <2>4. c \in Closings /\ c.kind = "closing" /\ c.pc = "counted" /\ c.quorum = Voted(p)
    BY <1>2, <2>1, <2>3, CountedFields
  <2>5. c.tally = req[h].tally /\ c.poll = p /\ c.res = req[h].res
    BY <1>1, <1>2, <2>1, <2>3, CountedFields
  <2>6. req' = [req EXCEPT ![h] = c]
    BY <2>2, <2>3
  <2> QED  BY <2>4, <2>5, <2>6
<1>4. \A g \in Handler : req'[g] = IF g = h THEN c ELSE req[g]
  BY <1>3 DEF TypeOK
<1>5. PollOf(c) = {p} /\ PollOf(req[h]) = {p}
  BY <1>1, <1>2, <1>3 DEF PollOf
<1>6. TypeOK'
  BY <1>2, <1>3 DEF TypeOK, Request
<1>7. RowsKnow' /\ BallotsKnow' /\ Linked'
  BY <1>2 DEF RowsKnow, BallotsKnow, Linked, Exists
<1>8. RequestsKnow'
  <2> SUFFICES ASSUME NEW g \in Handler  PROVE Knows(req[g])'
    BY DEF RequestsKnow
  <2>1. Knows(req[g]) /\ Knows(req[h])
    BY DEF RequestsKnow
  <2> QED  BY <2>1, <1>1, <1>2, <1>3, <1>4, <1>5 DEF Knows, Exists
<1>9. OpenedOnce'
  BY <1>2, <1>3, <1>4 DEF OpenedOnce, Opens
<1>10. ASSUME NEW g \in Handler  PROVE PollOf(req'[g]) = PollOf(req[g])
  BY <1>4, <1>5
<1>11. ClosingsAlone'
  <2> SUFFICES ASSUME NEW g \in Handler, NEW q \in Poll \ raced,
                      req'[g].kind = "closing", req'[g].poll = q
               PROVE  ClosesAlone(g, q)'
    BY <1>2 DEF ClosingsAlone
  <2>1. Voted(q)' = Voted(q)
    BY <1>2 DEF Voted, BallotsOf
  <2>2. ClosesAlone(g, q)
    BY <1>1, <1>2, <1>3, <1>4 DEF ClosingsAlone
  <2> QED  BY <2>1, <2>2, <1>3, <1>4, <1>10 DEF ClosesAlone
<1>12. ResultsStand'
  <2> SUFFICES ASSUME NEW s \in Resolution, NEW q, q = resolution[s].results.of,
                      q # NoPoll, q \notin raced
               PROVE  /\ poll[q].status = "CLOSED"
                      /\ resolution[s].results.tally = Voted(q)'
                      /\ resolution[s].results.quorum = Voted(q)'
                      /\ \A g \in Handler : q \in PollOf(req'[g]) => Harmless(req'[g])
    BY <1>2 DEF ResultsStand, Stands
  <2>1. Stands(resolution[s].results) /\ Voted(q)' = Voted(q)
    BY <1>2 DEF ResultsStand, Voted, BallotsOf
  <2>2. q \notin PollOf(req[h])
    BY <2>1, <1>2 DEF Stands, Harmless
  <2> QED  BY <2>1, <2>2, <1>4, <1>10 DEF Stands
<1> QED  BY <1>6, <1>7, <1>8, <1>9, <1>11, <1>12

(* The results of a closing that met nobody: it was the last at work.      *)
LEMMA CloseResolutionVotingKeeps ==
  ASSUME IInv, NEW h \in Handler, CloseResolutionVoting(h)
  PROVE  IInv'
<1> USE DEF IInv
<1>1. PICK c : c = req[h]
  OBVIOUS
<1>2. PICK p, r : p = c.poll /\ r = c.res
  OBVIOUS
<1>3. /\ c.kind = "closing" /\ c.pc = "counted" /\ c \in Closings
      /\ p \in PollOf(req[h]) /\ p \in Poll /\ r \in Resolution
      /\ Exists(p) /\ poll[p].of = r
  <2>1. c.kind = "closing" /\ c.pc = "counted" /\ c \in Closings
    BY <1>1, Kinds DEF CloseResolutionVoting, TypeOK
  <2>2. p \in PollOf(req[h]) /\ p \in Poll /\ r \in Resolution
    BY <2>1, <1>1, <1>2 DEF Closings, PollOf
  <2> QED  BY <2>1, <2>2, <1>1, <1>2 DEF RequestsKnow, Knows
<1>4. PICK s : /\ s = [of |-> p, tally |-> c.tally, quorum |-> c.quorum]
               /\ resolution' = [resolution EXCEPT ![r].results = s]
  BY <1>1, <1>2 DEF CloseResolutionVoting
<1>5. s \in Snapshot /\ s.of = p /\ s.tally = c.tally /\ s.quorum = c.quorum
  BY <1>3, <1>4 DEF Closings, Snapshot
<1>6. /\ poll' = [poll EXCEPT ![p] = Shut(poll[p])] /\ req' = [req EXCEPT ![h] = Idle]
      /\ UNCHANGED <<now, ballots, raced, meeting, proxy, doubled>>
  BY <1>1, <1>2 DEF CloseResolutionVoting, Answer
<1>7. \A q \in Poll : /\ poll'[q] \in PollRow /\ poll'[q].of = poll[q].of
                      /\ poll'[q].status = IF q = p THEN "CLOSED" ELSE poll[q].status
  BY <1>6, ShutFields DEF TypeOK
<1>8. \A g \in Handler : req'[g] = IF g = h THEN Idle ELSE req[g]
  BY <1>6 DEF TypeOK
<1>9. \A t \in Resolution : /\ resolution'[t] \in ResolutionRow
                            /\ resolution'[t].poll = resolution[t].poll
                            /\ resolution'[t].results = IF t = r THEN s ELSE resolution[t].results
  BY <1>4, <1>5 DEF TypeOK, ResolutionRow
<1>10. \A q \in Poll : Voted(q)' = Voted(q)
  BY <1>6 DEF Voted, BallotsOf
<1>11. TypeOK'
  <2>1. poll' \in [Poll -> PollRow] /\ resolution' \in [Resolution -> ResolutionRow]
    BY <1>4, <1>6, <1>7, <1>9 DEF TypeOK
  <2> QED  BY <2>1, <1>6, IdleWorksOnNothing DEF TypeOK
<1>12. RowsKnow' /\ BallotsKnow'
  BY <1>6, <1>7 DEF RowsKnow, BallotsKnow, Exists, TypeOK, Ballot
<1>13. RequestsKnow'
  <2> SUFFICES ASSUME NEW g \in Handler  PROVE Knows(req[g])'
    BY DEF RequestsKnow
  <2>1. CASE g = h
    BY <2>1, <1>8, IdleWorksOnNothing DEF Knows
  <2>2. CASE g # h
    <3>1. req'[g] = req[g] /\ Knows(req[g])
      BY <2>2, <1>8 DEF RequestsKnow
    <3>2. PollOf(req[g]) \subseteq Poll
      BY RequestPolls DEF TypeOK
    <3>3. req[g].kind = "closing" => req[g].poll \in PollOf(req[g])
      BY DEF PollOf
    <3> QED  BY <3>1, <3>2, <3>3, <1>7 DEF Knows, Exists
  <2> QED  BY <2>1, <2>2
<1>14. Linked'
  <2> SUFFICES ASSUME NEW t \in Resolution
               PROVE  /\ resolution'[t].poll # NoPoll => poll'[resolution'[t].poll].of = t
                      /\ resolution'[t].results.of # NoPoll =>
                           poll'[resolution'[t].results.of].of = t
                      /\ t \notin doubled => \A q \in Poll : poll'[q].of = t => resolution'[t].poll = q
    BY <1>6 DEF Linked
  <2>1. resolution[t].poll \in Poll \cup {NoPoll} /\ resolution[t].results.of \in Poll \cup {NoPoll}
    BY DEF TypeOK, ResolutionRow, Snapshot
  <2> QED  BY <2>1, <1>3, <1>5, <1>7, <1>9 DEF Linked
<1>15. OpenedOnce'
  BY <1>6, <1>8, <1>9, IdleWorksOnNothing DEF OpenedOnce, Opens
<1>16. ClosingsAlone'
  <2> SUFFICES ASSUME NEW g \in Handler, NEW q \in Poll \ raced,
                      req'[g].kind = "closing", req'[g].poll = q
               PROVE  ClosesAlone(g, q)'
    BY <1>6 DEF ClosingsAlone
  <2>1. req'[g] = req[g] /\ ClosesAlone(g, q)
    BY <1>8, IdleWorksOnNothing DEF ClosingsAlone
  <2> QED  BY <2>1, <1>8, <1>10, IdleWorksOnNothing DEF ClosesAlone
<1>17. ResultsStand'
  <2> SUFFICES ASSUME NEW t \in Resolution, NEW z, z = resolution'[t].results,
                      z.of # NoPoll, z.of \notin raced
               PROVE  /\ poll'[z.of].status = "CLOSED"
                      /\ z.tally = Voted(z.of)'
                      /\ z.quorum = Voted(z.of)'
                      /\ \A g \in Handler : z.of \in PollOf(req'[g]) => Harmless(req'[g])
    BY <1>6 DEF ResultsStand, Stands
  <2>1. CASE t = r
    <3>1. z = s /\ ClosesAlone(h, p)
      BY <2>1, <1>1, <1>2, <1>3, <1>5, <1>9 DEF ClosingsAlone
    <3>2. \A g \in Handler : p \notin PollOf(req'[g])
      BY <3>1, <1>8, IdleWorksOnNothing DEF ClosesAlone
    <3> QED  BY <3>1, <3>2, <1>1, <1>3, <1>5, <1>7, <1>10 DEF ClosesAlone
  <2>2. CASE t # r
    <3>1. z = resolution[t].results /\ Stands(z) /\ z.of \in Poll
      BY <2>2, <1>9 DEF ResultsStand, TypeOK, ResolutionRow, Snapshot
    <3> QED  BY <3>1, <1>7, <1>8, <1>10, IdleWorksOnNothing DEF Stands
  <2> QED  BY <2>1, <2>2
<1> QED  BY <1>11, <1>12, <1>13, <1>14, <1>15, <1>16, <1>17

-----------------------------------------------------------------------------
LEMMA InitHolds == Init => IInv
<1> SUFFICES ASSUME Init  PROVE IInv
  OBVIOUS
<1>1. /\ now = 0 /\ poll = [p \in Poll |-> NoPollRow] /\ ballots = {}
      /\ req = [h \in Handler |-> Idle] /\ raced = {} /\ meeting = "DRAFT"
      /\ proxy = {} /\ doubled = {}
      /\ resolution = [r \in Resolution |-> [added |-> FALSE, poll |-> NoPoll, results |-> NoSnapshot]]
  BY DEF Init, PollInit
<1>2. NoPollRow \in PollRow /\ NoPollRow.status = "none" /\ NoPollRow.of = NoOne
  BY PollAssumption DEF NoPollRow, PollRow, PollStatus, Instants, Closing, Never
<1>3. \A r \in Resolution : /\ resolution[r] \in ResolutionRow /\ resolution[r].poll = NoPoll
                            /\ resolution[r].results.of = NoPoll
  BY <1>1 DEF ResolutionRow, Snapshot, NoSnapshot
<1>4. TypeOK
  <2>1. now \in Instants /\ meeting \in MeetingStatus
    BY <1>1, PollAssumption DEF Instants, MeetingStatus
  <2>2. poll \in [Poll -> PollRow] /\ req \in [Handler -> Request]
    BY <1>1, <1>2, IdleWorksOnNothing
  <2>3. resolution \in [Resolution -> ResolutionRow]
    BY <1>1, <1>3
  <2> QED  BY <2>1, <2>2, <2>3, <1>1 DEF TypeOK
<1>5. RowsKnow /\ BallotsKnow /\ RequestsKnow
  BY <1>1, <1>2, IdleWorksOnNothing DEF RowsKnow, BallotsKnow, RequestsKnow, Knows
<1>6. Linked
  BY <1>1, <1>2, <1>3, PollAssumption DEF Linked
<1>7. OpenedOnce /\ ClosingsAlone
  BY <1>1, IdleWorksOnNothing DEF OpenedOnce, Opens, ClosingsAlone
<1>8. ResultsStand
  BY <1>3 DEF ResultsStand
<1> QED  BY <1>4, <1>5, <1>6, <1>7, <1>8 DEF IInv

LEMMA PollsKeep ==
  ASSUME IInv, PollNext, UNCHANGED meetingVars
  PROVE  IInv'
<1>1. ASSUME NEW p \in Poll, NEW o \in Starts, NEW c \in Ends, Create(p, o, c)  PROVE IInv'
  BY <1>1, CreateKeeps
<1>2. ASSUME NEW h \in Handler, NEW p \in Poll, NEW u \in Unit, CastVote(h, p, u)  PROVE IInv'
  BY <1>2, ReadForVoteKeeps DEF CastVote
<1>3. ASSUME NEW h \in Handler, NEW p \in Poll, LookAtExpired(h, p)  PROVE IInv'
  BY <1>3, LookAtExpiredKeeps
<1>4. ASSUME NEW h \in Handler, NEW p \in Poll, NEW s \in PollStatus, NEW c \in {Kept} \cup Moves,
             NEW o \in BOOLEAN, ReadForPatch(h, p, s, c, o)
      PROVE  IInv'
  BY <1>4, ReadForPatchKeeps
<1>5. ASSUME NEW h \in Handler, RecordVote(h) \/ MaybeAutoClose(h) \/ WritePatch(h)  PROVE IInv'
  BY <1>5, RecordVoteKeeps, MaybeAutoCloseKeeps, WritePatchKeeps
<1>6. CloseExpiredPolls \/ Tick => IInv'
  BY CloseExpiredPollsKeeps, TickKeeps
<1> QED  BY <1>1, <1>2, <1>3, <1>4, <1>5, <1>6 DEF PollNext

LEMMA MeetingsKeep ==
  ASSUME IInv, MeetingNext
  PROVE  IInv'
<1>1. ASSUME NEW h \in Handler, NEW s \in MeetingStatus, ReadForMeeting(h, s)  PROVE IInv'
  BY <1>1, BeginMeetingKeeps DEF ReadForMeeting
<1>2. ASSUME NEW h \in Handler, WriteMeeting(h)  PROVE IInv'
  BY <1>2, WriteMeetingKeeps
<1>3. ASSUME NEW h \in Handler, ReadForNotice(h)  PROVE IInv'
  <2>1. "NOTICE_PUBLISHED" \in MeetingStatus
    BY DEF MeetingStatus
  <2> QED  BY <1>3, <2>1, BeginMeetingKeeps DEF ReadForNotice
<1>4. ASSUME NEW r \in Resolution, AddResolution(r)  PROVE IInv'
  BY <1>4, AddResolutionKeeps
<1>5. ASSUME NEW u \in Unit, SubmitProxy(u)  PROVE IInv'
  BY <1>5, SubmitProxyKeeps
<1> QED  BY <1>1, <1>2, <1>3, <1>4, <1>5 DEF MeetingNext

LEMMA VotingKeeps ==
  ASSUME IInv, VotingNext
  PROVE  IInv'
<1>1. ASSUME NEW h \in Handler, NEW r \in Resolution, ReadForOpening(h, r) \/ Tally(h, r)
      PROVE  IInv'
  BY <1>1, ReadForOpeningKeeps, TallyKeeps
<1>2. ASSUME NEW h \in Handler, NEW r \in Resolution, NEW u \in Unit, CastResolutionVote(h, r, u)
      PROVE  IInv'
  <2>1. resolution[r].poll \in Poll /\ Voter(u) \in {"owner", "holder"}
    BY <1>2 DEF CastResolutionVote, Voter, IInv, TypeOK, ResolutionRow
  <2> QED  BY <1>2, <2>1, ReadForVoteKeeps DEF CastResolutionVote
<1>3. ASSUME NEW h \in Handler, NEW p \in Poll, NEW o \in Starts, NEW c \in Ends,
             OpenResolutionVoting(h, p, o, c)
      PROVE  IInv'
  BY <1>3, OpenResolutionVotingKeeps
<1>4. ASSUME NEW h \in Handler, CountQuorum(h) \/ CloseResolutionVoting(h)  PROVE IInv'
  BY <1>4, CountQuorumKeeps, CloseResolutionVotingKeeps
<1> QED  BY <1>1, <1>2, <1>3, <1>4 DEF VotingNext

LEMMA StutterKeeps ==
  ASSUME IInv, UNCHANGED vars
  PROVE  IInv'
<1>1. TypeOK'
  BY DEF IInv, TypeOK, vars, pollVars, meetingVars
<1> QED  BY <1>1, ElsewhereKeeps DEF vars, pollVars, meetingVars

LEMMA NextKeeps == IInv /\ [Next]_vars => IInv'
  BY PollsKeep, MeetingsKeep, VotingKeeps, StutterKeeps DEF Next

-----------------------------------------------------------------------------
(* What holds of the rows and the requests in every state: who works on    *)
(* what, and which poll is a resolution's.                                 *)
THEOREM GovernanceInvariance == Spec => []IInv
  BY InitHolds, NextKeeps, PTL DEF Spec

THEOREM GovernanceTypeCorrect == Spec => []TypeOK
<1>1. IInv => TypeOK
  BY DEF IInv
<1> QED  BY <1>1, GovernanceInvariance, PTL

(* recordVote and openResolutionVoting: over all the polls ever opened for *)
(* a resolution, one ballot of a unit, unless two openings overlapped.     *)
THEOREM OneBallotAlways == Spec => []OneBallotPerUnit
<1>1. IInv => OneBallotPerUnit
  <2> SUFFICES ASSUME IInv, NEW r \in Resolution \ doubled, NEW b \in ballots, NEW c \in ballots,
                      poll[b.poll].of = r, poll[c.poll].of = r, b.unit = c.unit
               PROVE  b = c
    BY DEF OneBallotPerUnit
  <2>1. b.poll = c.poll
    BY DEF IInv, TypeOK, Ballot, Linked
  <2> QED  BY <2>1 DEF IInv, BallotsKnow
<1> QED  BY <1>1, GovernanceInvariance, PTL

(* closeResolutionVoting: its snapshot stays the tally of a closed poll.   *)
THEOREM ResultsStayFinal == Spec => []ResultsAreFinal
<1>1. IInv => ResultsAreFinal
  <2> SUFFICES ASSUME IInv, NEW r \in Resolution \ doubled, NEW s, s = resolution[r].results,
                      s.of # NoPoll, s.of \notin raced
               PROVE  /\ s.of = resolution[r].poll
                      /\ poll[s.of].status = "CLOSED"
                      /\ s.tally = Voted(s.of)
                      /\ s.quorum = Voted(s.of)
    BY DEF ResultsAreFinal
  <2>1. s.of \in Poll
    BY DEF IInv, TypeOK, ResolutionRow, Snapshot
  <2> QED  BY <2>1 DEF IInv, Linked, ResultsStand, Stands
<1> QED  BY <1>1, GovernanceInvariance, PTL
=============================================================================
