---------------------------- MODULE Governance ----------------------------
(***************************************************************************)
(* One general meeting (apps/api/src/governance/governance.service.ts),    *)
(* its resolutions, each voted on in a poll of its own, and the proxies    *)
(* owners give for it.  Polls has the polls, whose own endpoints, look-ups *)
(* and sweep reach a resolution's poll like any other.                     *)
(*                                                                         *)
(* Every handler checks what it read and writes by id afterwards.  Shares  *)
(* are equal, so a weight is a number of ballots.                          *)
(***************************************************************************)
EXTENDS Polls

CONSTANT NoPoll                              \* a resolution without a poll

ASSUME GovernanceAssumption == NoPoll \notin Poll

VARIABLES
  meeting,     \* the meeting's status (its minutes are not modelled)
  resolution,  \* its resolutions: their poll and results snapshot
  proxy,       \* the units that have a row in meeting_proxies
  doubled      \* history: resolutions that two requests opened at once

meetingVars == <<meeting, resolution, proxy, doubled>>
vars == <<pollVars, meetingVars>>

MeetingStatus == {"DRAFT", "NOTICE_PUBLISHED", "IN_PROGRESS", "CLOSED"}

(* A results snapshot: the units whose ballots the tally found, and those  *)
(* the quorum, computed after it, found.                                   *)
Snapshot == [of : Poll \cup {NoPoll}, tally : SUBSET Unit, quorum : SUBSET Unit]
NoSnapshot == [of |-> NoPoll, tally |-> {}, quorum |-> {}]
ResolutionRow == [added : BOOLEAN, poll : Poll \cup {NoPoll}, results : Snapshot]

MeetingPatch == [kind : {"meeting"}, status : MeetingStatus]
Opening == [kind : {"opening"}, res : Resolution, first : BOOLEAN]
Closings == [kind : {"closing"}, res : Resolution, poll : Poll,
             pc : {"tallied", "counted"}, tally : SUBSET Unit, quorum : SUBSET Unit]
Request == PollRequest \cup MeetingPatch \cup Opening \cup Closings

(* The meeting takes votes and proxies, and resolutions can be opened.     *)
Convened == meeting \in {"NOTICE_PUBLISHED", "IN_PROGRESS"}

Begin(h, r) ==
  /\ req[h] = Idle
  /\ req' = [req EXCEPT ![h] = r]

-----------------------------------------------------------------------------
(* update of the meeting's status.                                         *)
ReadForMeeting(h, status) ==
  /\ meeting = "CLOSED" => status = "CLOSED"
  /\ edits > 0
  /\ edits' = edits - 1
  /\ Begin(h, [kind |-> "meeting", status |-> status])
  /\ UNCHANGED <<now, poll, ballots, raced, meetingVars>>

WriteMeeting(h) ==
  /\ req[h].kind = "meeting"
  /\ meeting' = req[h].status
  /\ Answer(h)
  /\ UNCHANGED <<now, poll, ballots, raced, edits, resolution, proxy, doubled>>

(* publishNotice: it writes the status as update does.                     *)
ReadForNotice(h) ==
  /\ meeting = "DRAFT"
  /\ Begin(h, [kind |-> "meeting", status |-> "NOTICE_PUBLISHED"])
  /\ UNCHANGED <<now, poll, ballots, raced, edits, meetingVars>>

(* addResolution: only the meeting's status can change between its read    *)
(* and its insert, and nothing depends on that.                            *)
AddResolution(r) ==
  /\ ~resolution[r].added
  /\ meeting # "CLOSED"
  /\ resolution' = [resolution EXCEPT ![r].added = TRUE]
  /\ UNCHANGED <<pollVars, meeting, proxy, doubled>>

-----------------------------------------------------------------------------
(* openResolutionVoting: it reads the resolution and its meeting ...       *)
MayOpen(r) ==
  /\ resolution[r].added
  /\ resolution[r].poll = NoPoll
  /\ Convened

OpeningOf(r) == {h \in Handler : req[h].kind = "opening" /\ req[h].res = r}

ReadForOpening(h, r) ==
  /\ MayOpen(r)
  /\ Begin(h, [kind |-> "opening", res |-> r, first |-> meeting = "NOTICE_PUBLISHED"])
  /\ doubled' = IF OpeningOf(r) = {} THEN doubled ELSE doubled \cup {r}
  /\ UNCHANGED <<now, poll, ballots, raced, edits, meeting, resolution, proxy>>

(* ... and makes its poll, over the one it may have got meanwhile.         *)
OpenResolutionVoting(h, p, opensAt, closesAt) ==
  LET r == req[h]
  IN /\ r.kind = "opening"
     /\ ~Exists(p)
     /\ opensAt < closesAt
     /\ poll' = [poll EXCEPT ![p] = [status |-> "OPEN", opensAt |-> opensAt,
                                     closesAt |-> closesAt, of |-> r.res]]
     /\ resolution' = [resolution EXCEPT ![r.res].poll = p]
     /\ meeting' = IF r.first THEN "IN_PROGRESS" ELSE meeting
     /\ Answer(h)
     /\ UNCHANGED <<now, ballots, raced, edits, proxy, doubled>>

(* closeResolutionVoting: a poll whose row is not CLOSED is tallied ...    *)
MayClose(r) ==
  /\ resolution[r].poll # NoPoll
  /\ poll[resolution[r].poll].status # "CLOSED"

Tally(h, r) ==
  LET p == resolution[r].poll
  IN /\ MayClose(r)
     /\ BeginOnPoll(h, [kind |-> "closing", res |-> r, poll |-> p, pc |-> "tallied",
                        tally |-> Voted(p), quorum |-> {}])
     /\ UNCHANGED <<now, poll, ballots, edits, meetingVars>>

(* ... its quorum is computed from the ballots there are by then ...       *)
Counted(r, units) == [r EXCEPT !.pc = "counted", !.quorum = units]

CountQuorum(h) ==
  /\ req[h].kind = "closing"
  /\ req[h].pc = "tallied"
  /\ req' = [req EXCEPT ![h] = Counted(@, Voted(@.poll))]
  /\ UNCHANGED <<now, poll, ballots, raced, edits, meetingVars>>

(* ... and one transaction closes the poll and writes the snapshot.        *)
Shut(row) == [row EXCEPT !.status = "CLOSED"]

CloseResolutionVoting(h) ==
  LET r == req[h]
  IN /\ r.kind = "closing"
     /\ r.pc = "counted"
     /\ poll' = [poll EXCEPT ![r.poll] = Shut(@)]
     /\ resolution' = [resolution EXCEPT ![r.res].results =
                         [of |-> r.poll, tally |-> r.tally, quorum |-> r.quorum]]
     /\ Answer(h)
     /\ UNCHANGED <<now, ballots, raced, edits, meeting, proxy, doubled>>

-----------------------------------------------------------------------------
(* castResolutionVote: with a proxy its holder votes, without one the      *)
(* owner.  Its reads (resolution, proxy, poll) come down to the last one:  *)
(* what an earlier one refuses, a vote at that moment would be refused.    *)
Voter(u) == IF u \in proxy THEN "holder" ELSE "owner"

CastResolutionVote(h, r, u) ==
  /\ resolution[r].poll # NoPoll
  /\ Convened
  /\ ReadForVote(h, resolution[r].poll, u, Voter(u))
  /\ UNCHANGED meetingVars

(* submitProxy: at most one per meeting and unit.                          *)
SubmitProxy(u) ==
  /\ Convened
  /\ u \notin proxy
  /\ proxy' = proxy \cup {u}
  /\ UNCHANGED <<pollVars, meeting, resolution, doubled>>

-----------------------------------------------------------------------------
Init ==
  /\ PollInit
  /\ meeting = "DRAFT"
  /\ resolution = [r \in Resolution |-> [added |-> FALSE, poll |-> NoPoll,
                                         results |-> NoSnapshot]]
  /\ proxy = {}
  /\ doubled = {}

MeetingNext ==
  \/ \E h \in Handler :
       \/ \E s \in MeetingStatus : ReadForMeeting(h, s)
       \/ WriteMeeting(h)
       \/ ReadForNotice(h)
  \/ \E r \in Resolution : AddResolution(r)
  \/ \E u \in Unit : SubmitProxy(u)

VotingNext ==
  \E h \in Handler :
    \/ \E r \in Resolution :
         \/ ReadForOpening(h, r)
         \/ Tally(h, r)
         \/ \E u \in Unit : CastResolutionVote(h, r, u)
    \/ \E p \in Poll, o \in Starts, c \in Ends : OpenResolutionVoting(h, p, o, c)
    \/ CountQuorum(h) \/ CloseResolutionVoting(h)

Next ==
  \/ PollNext /\ UNCHANGED meetingVars
  \/ MeetingNext
  \/ VotingNext

Spec == Init /\ [][Next]_vars

(* The sweep's timer keeps firing; requests may take for ever.             *)
FairSpec == Spec /\ WF_vars(CloseExpiredPolls /\ UNCHANGED meetingVars)

-----------------------------------------------------------------------------
TypeOK ==
  /\ now \in Instants
  /\ poll \in [Poll -> PollRow]
  /\ ballots \subseteq Ballot
  /\ req \in [Handler -> Request]
  /\ raced \subseteq Poll
  /\ meeting \in MeetingStatus
  /\ resolution \in [Resolution -> ResolutionRow]
  /\ proxy \subseteq Unit
  /\ doubled \subseteq Resolution

(* One unit, one ballot per resolution, over all the polls that were ever  *)
(* opened for it: unless two requests opened the resolution at once.       *)
OneBallotPerUnit ==
  \A r \in Resolution \ doubled : \A b, c \in ballots :
    poll[b.poll].of = r /\ poll[c.poll].of = r /\ b.unit = c.unit => b = c

(* "Closes resolution voting with immutable snapshot, quorum": a snapshot  *)
(* stays the tally of its poll, which stays closed, through votes, edits,  *)
(* look-ups, sweeps and second closings, unless requests on the poll or    *)
(* two openings of the resolution overlapped.                              *)
ResultsAreFinal ==
  \A r \in Resolution \ doubled :
    LET s == resolution[r].results
    IN s.of # NoPoll /\ s.of \notin raced
       => /\ s.of = resolution[r].poll
          /\ poll[s.of].status = "CLOSED"
          /\ s.tally = Voted(s.of)
          /\ s.quorum = Voted(s.of)

(* "only your proxy holder may vote": the owner of a unit that has given a *)
(* proxy casts no ballot on a resolution.                                  *)
ProxyHonoured ==
  [][\A b \in ballots' \ ballots :
       poll[b.poll].of # NoOne /\ b.by = "owner" => b.unit \notin proxy]_vars
=============================================================================
