------------------------------- MODULE LogCursor -------------------------------
(***************************************************************************)
(* The append-only log cursor of the recorder: an application appends to a *)
(* log file that is rotated behind its back, and every iteration of the    *)
(* service loop polls the file by its path: a stat, which decides on       *)
(* rotation, and then an open and a read of at most MaxRead, which may     *)
(* find another file than the stat did.                                    *)
(*                                                                         *)
(* The log is a stream of units numbered from 1, two to a line; the        *)
(* application may be between the two when the file is polled.             *)
(***************************************************************************)
EXTENDS Naturals, Sequences

CONSTANTS
    MaxRead,      \* MAX_LOG_BYTES_PER_DRAIN, in units
    MaxRetained,  \* MAX_LOG_EVENTS_RETAINED
    MaxUnits,     \* bound: units written
    MaxRotations  \* bound: rotations, removals and new cursors

ASSUME NumbersAssumption ==
    /\ MaxRead \in Nat \ {0}
    /\ MaxRetained \in Nat \ {0}
    /\ MaxUnits \in Nat
    /\ MaxRotations \in Nat

VARIABLES
    \* the log
    written,     \* units written so far
    exists,      \* whether there is a file at the path
    inode,       \* its inode
    content,     \* its units
    rotations,   \* bound on what happens to it
    \* AppendOnlyLogCursor
    pc,          \* whether a poll is between its stat and its open
    offset,
    identity,    \* 0 for None
    observed,    \* events_observed
    truncated,   \* events_truncated
    rotated,     \* rotation_detected; a blackout range was pushed with it
    retained,    \* the lines of retained_events
    continuity,  \* continuity_state of the last poll
    size,        \* size by the last stat
    \* history
    seen,        \* the lines of all events, in order of observation
    got,         \* the units that were read
    losses       \* units that went unread with a file followed by one with
                 \* another inode, by whether a stat has happened since

logVars    == <<written, exists, inode, content, rotations>>
cursorVars == <<pc, offset, identity, observed, truncated, rotated, retained,
                continuity, size, seen, got>>
vars       == <<logVars, cursorVars, losses>>

States == {"none", "silent_with_continuity", "continuous", "rotated",
           "gap_detected", "unavailable"}

-----------------------------------------------------------------------------
Line(u) == (u + 1) \div 2
Lines   == 1 .. Line(MaxUnits)

(* text.lines() of what one read returned: the ends of the chunk may cut a *)
(* line, whose parts then count as events of their own.                    *)
Events(chunk) ==
    IF chunk = <<>> THEN <<>>
    ELSE LET first == Line(chunk[1])
             last  == Line(chunk[Len(chunk)])
         IN  [i \in 1 .. last + 1 - first |-> first + i - 1]

Units(s) == {s[i] : i \in DOMAIN s}

AtMost(n, limit) == IF n < limit THEN n ELSE limit
Newest(s, n) == SubSeq(s, Len(s) - AtMost(Len(s), n) + 1, Len(s))

Init ==
    /\ written   = 0
    /\ exists    = TRUE
    /\ inode     = 1
    /\ content   = <<>>
    /\ rotations = 0
    /\ losses    = [before |-> {}, after |-> {}]
    /\ pc         = "idle"
    /\ offset     = 0
    /\ identity   = 0
    /\ observed   = 0
    /\ truncated  = 0
    /\ rotated    = FALSE
    /\ retained   = <<>>
    /\ continuity = "none"
    /\ size       = 0
    /\ seen       = <<>>
    /\ got        = {}

-----------------------------------------------------------------------------
(* The application and logrotate.                                          *)

Write(n) ==
    /\ exists
    /\ written + n <= MaxUnits
    /\ written' = written + n
    /\ content' = content \o [i \in 1 .. n |-> written + i]
    /\ UNCHANGED <<exists, inode, rotations, cursorVars, losses>>

(* Another file comes to the path: the log was renamed away or removed and *)
(* created anew, or truncated in place, which keeps the inode.  A file     *)
(* system may also give the inode of a removed file to the new one; that   *)
(* the file after the next gets it back is left out.                       *)
Replace ==
    /\ inode' \in {inode, inode + 1}
    /\ content' = <<>>
    /\ losses' = IF identity = 0 \/ inode' = inode THEN losses
                 ELSE [losses EXCEPT !.after = @ \cup (Units(content) \ got)]

Rotate ==
    /\ exists
    /\ rotations < MaxRotations
    /\ rotations' = rotations + 1
    /\ Replace
    /\ UNCHANGED <<written, exists, cursorVars>>

Delete ==
    /\ exists
    /\ rotations < MaxRotations
    /\ rotations' = rotations + 1
    /\ exists' = FALSE
    /\ UNCHANGED <<written, inode, content, cursorVars, losses>>

Create ==
    /\ ~ exists
    /\ exists' = TRUE
    /\ Replace
    /\ UNCHANGED <<written, rotations, cursorVars>>

-----------------------------------------------------------------------------
(* AppendOnlyLogCursor::poll.                                              *)

Unavailable ==
    /\ continuity' = "unavailable"
    /\ pc' = "idle"

StatFails ==
    /\ pc = "idle"
    /\ ~ exists
    /\ Unavailable
    /\ UNCHANGED <<logVars, offset, identity, observed, truncated, rotated, retained,
                   size, seen, got, losses>>

RotationBySize == Len(content) < offset  \* mutant of IsRotated

IsRotated == identity \notin {0, inode} \/ Len(content) < offset

GrownByMore(from, to) == to > from + 1  \* mutant of Grown

Grown(from, to) == to > from

Stat ==
    /\ pc = "idle"
    /\ exists
    /\ identity' = inode
    /\ size'     = Len(content)
    /\ rotated'  = (rotated \/ IsRotated)
    /\ offset'   = IF IsRotated THEN 0 ELSE offset
    /\ continuity' = IF IsRotated THEN "rotated" ELSE "silent_with_continuity"
    /\ pc' = IF Grown(offset', size') THEN "read" ELSE "idle"
    /\ losses' = [before |-> losses.before \cup losses.after, after |-> {}]
    /\ UNCHANGED <<logVars, observed, truncated, retained, seen, got>>

OpenFails ==
    /\ pc = "read"
    /\ ~ exists
    /\ Unavailable
    /\ UNCHANGED <<logVars, offset, identity, observed, truncated, rotated, retained,
                   size, seen, got, losses>>

LeftOverByBudget(taken) == size - offset > MaxRead  \* mutant of LeftOver

(* The read returned less than the stat promised.                          *)
LeftOver(taken) == size - offset > taken

RetainOldest(events) ==  \* mutant of Retain
    retained' = SubSeq(retained \o events, 1,
                       AtMost(MaxRetained, Len(retained \o events)))

Retain(events) == retained' = Newest(retained \o events, MaxRetained)

ReadChunk ==
    /\ pc = "read"
    /\ exists
    /\ LET upTo   == AtMost(Len(content), offset + AtMost(size - offset, MaxRead))
           chunk  == SubSeq(content, offset + 1, upTo)
           events == Events(chunk)
           excess == Len(retained \o events) - Len(retained')
       IN  /\ offset' = offset + Len(chunk)
           /\ observed' = observed + Len(events)
           /\ Retain(events)
           /\ truncated' = truncated + excess + (IF LeftOver(Len(chunk)) THEN 1 ELSE 0)
           /\ continuity' = IF LeftOver(Len(chunk)) THEN "gap_detected"
                            ELSE IF continuity # "rotated" THEN "continuous"
                            ELSE "rotated"
           /\ seen' = seen \o events
           /\ got'  = got \cup Units(chunk)
    /\ pc' = "idle"
    /\ UNCHANGED <<logVars, identity, rotated, size, losses>>

(* The next service run, or another profile, starts with a new cursor.     *)
NewCursor ==
    /\ rotations < MaxRotations
    /\ rotations' = rotations + 1
    /\ pc'         = "idle"
    /\ offset'     = 0
    /\ identity'   = 0
    /\ observed'   = 0
    /\ truncated'  = 0
    /\ rotated'    = FALSE
    /\ retained'   = <<>>
    /\ continuity' = "none"
    /\ size'       = 0
    /\ seen'       = <<>>
    /\ got'        = {}
    /\ losses' = [before |-> {}, after |-> {}]
    /\ UNCHANGED <<written, exists, inode, content>>

Poll == StatFails \/ Stat \/ OpenFails \/ ReadChunk

Next ==
    \/ \E n \in {1, 2} : Write(n)
    \/ Rotate
    \/ Delete
    \/ Create
    \/ Poll
    \/ NewCursor

Spec == Init /\ [][Next]_vars

(* The service loop polls at every iteration.                              *)
FairSpec == Spec /\ WF_vars(Poll)

-----------------------------------------------------------------------------
(* Properties.                                                             *)

(* The bundle exports the newest events that were observed, in their       *)
(* order, and says so if there were more.                                  *)
ExportsNewest ==
    /\ observed = Len(seen)
    /\ retained = Newest(seen, MaxRetained)
    /\ truncated >= observed - Len(retained)

(* Silence and continuity are only claimed of a file that has been read to *)
(* the end that its stat saw, though another file may have come between    *)
(* the stat and the read.                                                  *)
ContinuityMeansDrained ==
    pc = "idle" /\ continuity \in {"silent_with_continuity", "continuous", "rotated"} =>
      offset = size

(* No unit goes unread with a file that another one replaced, without the  *)
(* rotation being reported from the next poll on: no captured event does   *)
(* not mean that no event happened.  A file with the inode of the old one  *)
(* that has grown to the offset passes for it, and is not counted.         *)
(* docs/architecture/adc-flight-recorder.md lines 389-400.                 *)
RotationReported == losses.before # {} => rotated

(* Every unit that stays in the file is read, after however many polls, as *)
(* long as the log can be read whenever it exists.                         *)
CatchesUp == <>[](exists /\ pc = "idle" => offset = Len(content))

=============================================================================
