------------------------------- MODULE Polls -------------------------------
(***************************************************************************)
(* Owner polls (apps/api/src/polls): their rows and ballots, the requests  *)
(* that vote, edit and look, and the sweep that closes what has expired.   *)
(*                                                                         *)
(* A request reads the poll, checks what it read, and later writes by id.  *)
(* Everyone is an owner and every unit is in the audience.  A poll's       *)
(* options are not told apart: an edit deletes them all and makes new ones *)
(* and what a vote knows is whether the option it names is still there. A  *)
(* PATCH leaves opensAt alone here.                                        *)
(***************************************************************************)
EXTENDS Integers, FiniteSets

CONSTANTS
  Poll,       \* rows of the polls table
  Unit,       \* units, each with one owner
  Resolution, \* meeting resolutions, which have polls of their own
  NoOne,      \* no resolution
  Handler,    \* requests the server runs at once
  MaxNow,     \* bound: the last instant of the clock
  MaxEdits,   \* bound: PATCHes of polls and of the meeting
  Starts,     \* the opensAt a poll can be given
  Moves,      \* the closesAt a PATCH can name
  Ends        \* the closesAt a poll can be given, MaxNow + 1 for none

ASSUME PollAssumption ==
  /\ NoOne \notin Resolution
  /\ MaxNow \in Nat
  /\ MaxEdits \in Nat
  /\ Starts \subseteq 0 .. MaxNow
  /\ Moves \subseteq 1 .. MaxNow + 1
  /\ Ends \subseteq 1 .. MaxNow + 1

VARIABLES
  now,       \* the clock
  poll,      \* the rows; of is the resolution a poll was opened for
  ballots,   \* rows of poll_votes
  req,       \* the requests being served
  edits,     \* bound: PATCHes still to come
  raced      \* history: the polls a request met the closing of

pollVars == <<now, poll, ballots, req, raced, edits>>

Never == MaxNow + 1              \* a closesAt that is not set
Kept == 0                        \* a closesAt the PATCH leaves
Instants == 0 .. MaxNow
Closing == 1 .. Never
PollStatus == {"none", "DRAFT", "OPEN", "CLOSED"}
PollRow == [status : PollStatus, opensAt : Instants, closesAt : Closing,
            of : Resolution \cup {NoOne}]
NoPollRow == [status |-> "none", opensAt |-> 0, closesAt |-> Never, of |-> NoOne]
Ballot == [poll : Poll, unit : Unit, by : {"owner", "holder"}]

Vote == [kind : {"vote"}, poll : Poll, unit : Unit, by : {"owner", "holder"},
         option : {"there", "deleted"}]
AutoClose == [kind : {"autoClose"}, poll : Poll]
Patch == [kind : {"patch"}, poll : Poll, status : PollStatus, closesAt : {Kept} \cup Closing,
          options : BOOLEAN]     \* a PATCH that leaves the status: "none"
Idle == [kind |-> "idle"]
PollRequest == {Idle} \cup Vote \cup AutoClose \cup Patch

BallotsOf(p) == {b \in ballots : b.poll = p}
Voted(p) == {b.unit : b \in BallotsOf(p)}

(* Who works on a poll.                                                    *)
Exists(p) == poll[p].status # "none"
PollOf(r) == IF r.kind \in {"vote", "autoClose", "patch", "closing"} THEN {r.poll} ELSE {}
AtWork(p) == {h \in Handler : p \in PollOf(req[h])}
MeetsClosing(r) ==
  \E h \in AtWork(r.poll) : r.kind = "closing" \/ req[h].kind = "closing"

(* A request starts with what it read.                                     *)
BeginOnPoll(h, r) ==
  /\ req[h] = Idle
  /\ req' = [req EXCEPT ![h] = r]
  /\ raced' = IF MeetsClosing(r) THEN raced \cup {r.poll} ELSE raced

Answer(h) == req' = [req EXCEPT ![h] = Idle]

-----------------------------------------------------------------------------
(* effectivePollStatus: an open poll whose closesAt has come is closed.    *)
Expired(p) == poll[p].status = "OPEN" /\ poll[p].closesAt <= now

EffectiveStatus(p) == IF Expired(p) THEN "CLOSED" ELSE poll[p].status

Create(p, opensAt, closesAt) ==
  /\ ~Exists(p)
  /\ opensAt < closesAt
  /\ poll' = [poll EXCEPT ![p] = [NoPollRow EXCEPT !.status = "DRAFT", !.opensAt = opensAt,
                                                   !.closesAt = closesAt]]
  /\ UNCHANGED <<now, ballots, req, raced, edits>>

(* castVote and castVoteWithOwnership up to recordVote.                    *)
OpenForVotes(p) ==
  EffectiveStatus(p) = "OPEN" /\ poll[p].opensAt <= now

ReadForVote(h, p, u, by) ==
  /\ OpenForVotes(p)
  /\ BeginOnPoll(h, [kind |-> "vote", poll |-> p, unit |-> u, by |-> by,
                     option |-> "there"])
  /\ UNCHANGED <<now, poll, ballots, edits>>

(* POST /polls/:id/vote: the owner of a unit votes, in any poll.           *)
CastVote(h, p, u) == ReadForVote(h, p, u, "owner")

(* recordVote: one ballot per poll and unit, for an option that exists.    *)
InsertsAny(v) == v.option = "there"                \* mutated: no unique index
Inserts(v) == v.unit \notin Voted(v.poll) /\ v.option = "there"

RecordVote(h) ==
  LET v == req[h]
  IN /\ v.kind = "vote"
     /\ ballots' = IF Inserts(v)
                   THEN ballots \cup {[poll |-> v.poll, unit |-> v.unit, by |-> v.by]}
                   ELSE ballots
     /\ Answer(h)
     /\ UNCHANGED <<now, poll, raced, edits>>

(* maybeAutoClose, in whatever looks at an expired poll (a vote included): *)
(* it has read the poll and closes it by id.                               *)
LookAtExpired(h, p) ==
  /\ Expired(p)
  /\ BeginOnPoll(h, [kind |-> "autoClose", poll |-> p])
  /\ UNCHANGED <<now, poll, ballots, edits>>

MaybeAutoClose(h) ==
  /\ req[h].kind = "autoClose"
  /\ poll' = [poll EXCEPT ![req[h].poll].status = "CLOSED"]
  /\ Answer(h)
  /\ UNCHANGED <<now, ballots, raced, edits>>

(* closeExpiredPolls, the sweep: one conditional update of all rows.       *)
CloseExpiredPolls ==
  /\ \E p \in Poll : Expired(p)
  /\ poll' = [p \in Poll |-> IF Expired(p) THEN [poll[p] EXCEPT !.status = "CLOSED"] ELSE poll[p]]
  /\ UNCHANGED <<now, ballots, req, raced, edits>>

-----------------------------------------------------------------------------
(* update: the checks against the poll as read ...                         *)
MayPatchAlways(p, status, options) ==              \* mutated: closed polls too
  options => EffectiveStatus(p) = "DRAFT"
MayPatch(p, status, options) ==
  /\ options => EffectiveStatus(p) = "DRAFT"
  /\ EffectiveStatus(p) = "CLOSED" => status = "CLOSED"

ReadForPatch(h, p, status, closesAt, options) ==
  /\ Exists(p)
  /\ status # "none" \/ closesAt # Kept \/ options
  /\ MayPatch(p, status, options)
  /\ closesAt = Kept \/ closesAt > poll[p].opensAt
  /\ BeginOnPoll(h, [kind |-> "patch", poll |-> p, status |-> status,
                     closesAt |-> closesAt, options |-> options])
  /\ edits > 0
  /\ edits' = edits - 1
  /\ UNCHANGED <<now, poll, ballots>>

(* ... and its transaction: the options' ballots go with them, and what the *)
(* request names is written over whatever the row has now.                 *)
Patched(row, r) ==
  [row EXCEPT !.status = IF r.status = "none" THEN @ ELSE r.status,
              !.closesAt = IF r.closesAt = Kept THEN @ ELSE r.closesAt]

OptionsDeleted(p) ==
  [h \in Handler |-> IF req[h].kind = "vote" /\ req[h].poll = p
                     THEN [req[h] EXCEPT !.option = "deleted"] ELSE req[h]]

WritePatch(h) ==
  LET r == req[h]
  IN /\ r.kind = "patch"
     /\ poll' = [poll EXCEPT ![r.poll] = Patched(@, r)]
     /\ ballots' = IF r.options THEN ballots \ BallotsOf(r.poll) ELSE ballots
     /\ req' = [(IF r.options THEN OptionsDeleted(r.poll) ELSE req) EXCEPT ![h] = Idle]
     /\ UNCHANGED <<now, raced, edits>>

Tick ==
  /\ now < MaxNow
  /\ now' = now + 1
  /\ UNCHANGED <<poll, ballots, req, raced, edits>>

PollInit ==
  /\ now = 0
  /\ poll = [p \in Poll |-> NoPollRow]
  /\ ballots = {}
  /\ req = [h \in Handler |-> Idle]
  /\ raced = {}
  /\ edits = MaxEdits

PollNext ==
  \/ \E p \in Poll, o \in Starts, c \in Ends : Create(p, o, c)
  \/ \E h \in Handler :
       \/ \E p \in Poll, u \in Unit : CastVote(h, p, u)
       \/ \E p \in Poll : LookAtExpired(h, p)
       \/ \E p \in Poll, s \in PollStatus, c \in {Kept} \cup Moves, o \in BOOLEAN :
            ReadForPatch(h, p, s, c, o)
       \/ RecordVote(h) \/ MaybeAutoClose(h) \/ WritePatch(h)
  \/ CloseExpiredPolls
  \/ Tick
=============================================================================
