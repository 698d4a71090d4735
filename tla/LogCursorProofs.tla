---------------------------- MODULE LogCursorProofs ---------------------------
(***************************************************************************)
(* Proofs about LogCursor, for any read limit and retention and a log of   *)
(* any length that is rotated any number of times: what is exported is the *)
(* newest, what is called continuous was read to its end, and what was     *)
(* lost with a file that was rotated is reported.                          *)
(***************************************************************************)
EXTENDS LogCursor, SequenceTheorems, TLAPS

----------------------------------------------------------------------------
(* Sequences.                                                              *)

(* The newest n of a sequence, or all of it.                               *)
LEMMA NewestIs ==
  ASSUME NEW s \in Seq(Int), NEW n \in Nat
  PROVE  /\ Newest(s, n) \in Seq(Int)
         /\ Len(Newest(s, n)) = AtMost(Len(s), n)
         /\ \A i \in 1 .. AtMost(Len(s), n) :
                Newest(s, n)[i] = s[Len(s) - AtMost(Len(s), n) + i]
<1> DEFINE m == AtMost(Len(s), n)
<1>1. Len(s) \in Nat /\ m \in Nat /\ m <= Len(s)
  BY LenProperties DEF AtMost
<1>2. \A i \in Len(s) - m + 1 .. Len(s) : s[i] \in Int
  BY <1>1, ElementOfSeq
<1> HIDE DEF m
<1>3. /\ SubSeq(s, Len(s) - m + 1, Len(s)) \in Seq(Int)
      /\ Len(SubSeq(s, Len(s) - m + 1, Len(s))) =
           IF Len(s) - m + 1 <= Len(s) THEN Len(s) - (Len(s) - m + 1) + 1 ELSE 0
      /\ \A i \in 1 .. Len(s) - (Len(s) - m + 1) + 1 :
           SubSeq(s, Len(s) - m + 1, Len(s))[i] = s[Len(s) - m + 1 + i - 1]
  BY <1>1, <1>2, SubSeqProperties
<1>4. Newest(s, n) = SubSeq(s, Len(s) - m + 1, Len(s))
  BY DEF Newest, m
<1>5. \A i \in 1 .. m : Newest(s, n)[i] = s[Len(s) - m + i]
  BY <1>1, <1>3, <1>4
<1>6. Len(Newest(s, n)) = m /\ Newest(s, n) \in Seq(Int)
  BY <1>1, <1>3, <1>4
<1>. QED BY <1>5, <1>6 DEF m

(* What was dropped before does not matter for what is newest.             *)
LEMMA NewestOfNewest ==
  ASSUME NEW s \in Seq(Int), NEW e \in Seq(Int), NEW n \in Nat
  PROVE  Newest(Newest(s, n) \o e, n) = Newest(s \o e, n)
<1> DEFINE t == Newest(s, n)
           m == AtMost(Len(s), n)
           k == AtMost(Len(s) + Len(e), n)
<1>1. /\ Len(s) \in Nat /\ Len(e) \in Nat
      /\ m \in Nat /\ m <= Len(s) /\ m <= n /\ k \in Nat
      /\ k <= Len(s) + Len(e) /\ k <= n /\ k <= m + Len(e)
      /\ k = AtMost(m + Len(e), n)
  BY LenProperties DEF AtMost
<1>2. /\ t \in Seq(Int) /\ Len(t) = m
      /\ \A i \in 1 .. m : t[i] = s[Len(s) - m + i]
  BY NewestIs
<1> HIDE DEF t, m, k
<1>3. /\ t \o e \in Seq(Int) /\ Len(t \o e) = m + Len(e)
      /\ \A i \in 1 .. m + Len(e) :
            (t \o e)[i] = IF i <= m THEN t[i] ELSE e[i - m]
  <2>1. t \in Seq(Int) /\ Len(t) = m
    BY <1>2
  <2>2. /\ t \o e \in Seq(Int) /\ Len(t \o e) = Len(t) + Len(e)
        /\ \A i \in 1 .. Len(t) + Len(e) :
              (t \o e)[i] = IF i <= Len(t) THEN t[i] ELSE e[i - Len(t)]
    BY <2>1, ConcatProperties
  <2>. QED BY <2>1, <2>2
<1>4. /\ s \o e \in Seq(Int) /\ Len(s \o e) = Len(s) + Len(e)
      /\ \A i \in 1 .. Len(s) + Len(e) :
            (s \o e)[i] = IF i <= Len(s) THEN s[i] ELSE e[i - Len(s)]
  BY ConcatProperties
<1> DEFINE u == t \o e
           v == s \o e
<1>5. /\ u \in Seq(Int) /\ AtMost(Len(u), n) = k /\ Len(u) = m + Len(e)
      /\ v \in Seq(Int) /\ AtMost(Len(v), n) = k /\ Len(v) = Len(s) + Len(e)
  BY <1>1, <1>3, <1>4 DEF k
<1>6. /\ Newest(u, n) \in Seq(Int) /\ Len(Newest(u, n)) = k
      /\ \A i \in 1 .. k : Newest(u, n)[i] = u[m + Len(e) - k + i]
      /\ Newest(v, n) \in Seq(Int) /\ Len(Newest(v, n)) = k
      /\ \A i \in 1 .. k : Newest(v, n)[i] = v[Len(s) + Len(e) - k + i]
  <2> HIDE DEF u, v
  <2>1. /\ Newest(u, n) \in Seq(Int) /\ Len(Newest(u, n)) = AtMost(Len(u), n)
        /\ \A i \in 1 .. AtMost(Len(u), n) :
            Newest(u, n)[i] = u[Len(u) - AtMost(Len(u), n) + i]
    BY <1>5, NewestIs
  <2>2. /\ Newest(v, n) \in Seq(Int) /\ Len(Newest(v, n)) = AtMost(Len(v), n)
        /\ \A i \in 1 .. AtMost(Len(v), n) :
            Newest(v, n)[i] = v[Len(v) - AtMost(Len(v), n) + i]
    BY <1>5, NewestIs
  <2>3. ASSUME NEW i \in 1 .. k
        PROVE  /\ Newest(u, n)[i] = u[m + Len(e) - k + i]
               /\ Newest(v, n)[i] = v[Len(s) + Len(e) - k + i]
    <3>1. i \in 1 .. AtMost(Len(u), n) /\ i \in 1 .. AtMost(Len(v), n)
      BY <1>5
    <3>2. /\ Newest(u, n)[i] = u[Len(u) - AtMost(Len(u), n) + i]
          /\ Newest(v, n)[i] = v[Len(v) - AtMost(Len(v), n) + i]
      BY <2>1, <2>2, <3>1
    <3>3. Len(u) - AtMost(Len(u), n) + i = m + Len(e) - k + i
      BY <1>1, <1>5
    <3>4. Len(v) - AtMost(Len(v), n) + i = Len(s) + Len(e) - k + i
      BY <1>1, <1>5
    <3>. QED BY <3>2, <3>3, <3>4
  <2>4. Len(Newest(u, n)) = k /\ Len(Newest(v, n)) = k
    BY <1>5, <2>1, <2>2
  <2>. QED BY <2>1, <2>2, <2>3, <2>4
<1>7. ASSUME NEW i \in 1 .. k
      PROVE  Newest(u, n)[i] = Newest(v, n)[i]
  <2> DEFINE j == m + Len(e) - k + i
             h == Len(s) + Len(e) - k + i
  <2>1. /\ j \in 1 .. m + Len(e) /\ h \in 1 .. Len(s) + Len(e)
        /\ h = j + (Len(s) - m)
    BY <1>1
  <2>2. Newest(u, n)[i] = u[j] /\ Newest(v, n)[i] = v[h]
    BY <1>6
  <2> HIDE DEF j, h
  <2>3. CASE j <= m
    <3>1. j \in 1 .. m /\ h <= Len(s) /\ h = Len(s) - m + j
      BY <1>1, <2>1, <2>3
    <3>2. u[j] = t[j] /\ v[h] = s[h]
      BY <1>3, <1>4, <2>1, <3>1
    <3>. QED BY <1>2, <2>2, <3>1, <3>2
  <2>4. CASE ~(j <= m)
    <3>1. ~(h <= Len(s)) /\ h - Len(s) = j - m
      BY <1>1, <2>1, <2>4
    <3>. QED BY <1>3, <1>4, <2>1, <2>2, <2>4, <3>1
  <2>. QED BY <2>3, <2>4
<1> HIDE DEF u, v
<1>8. Newest(u, n) = Newest(v, n)
  BY <1>6, <1>7, SeqEqual
<1>. QED BY <1>8 DEF t, u, v

(* The events of a chunk are a sequence of lines.                          *)
LEMMA EventsAreLines ==
  ASSUME NEW chunk \in Seq(Int)
  PROVE  Events(chunk) \in Seq(Int)
<1>1. CASE chunk = <<>>
  BY <1>1 DEF Events
<1>2. CASE chunk # <<>>
  <2> DEFINE first == Line(chunk[1])
             last  == Line(chunk[Len(chunk)])
             n     == last + 1 - first
  <2>1. Events(chunk) = [i \in 1 .. n |-> first + i - 1]
    BY <1>2 DEF Events
  <2>2. chunk[1] \in Int /\ chunk[Len(chunk)] \in Int
    <3>1. 1 \in 1 .. Len(chunk) /\ Len(chunk) \in 1 .. Len(chunk)
      BY <1>2, EmptySeq, LenProperties
    <3>. QED BY <3>1, ElementOfSeq
  <2>3. first \in Int /\ last \in Int
    BY <2>2 DEF Line
  <2> HIDE DEF first, last
  <2>4. PICK k \in Nat : 1 .. n = 1 .. k
    <3>1. n \in Nat => \E k \in Nat : 1 .. n = 1 .. k
      OBVIOUS
    <3>2. n \notin Nat => 1 .. n = 1 .. 0
      BY <2>3
    <3>. QED BY <3>1, <3>2
  <2>5. Events(chunk) \in [1 .. k -> Int]
    BY <2>1, <2>3, <2>4
  <2>. QED BY <2>5
<1>. QED BY <1>1, <1>2

----------------------------------------------------------------------------
(* The inductive invariant.                                                *)

CursorType ==
    /\ written \in Nat /\ inode \in Nat \ {0} /\ content \in Seq(Int)
    /\ pc \in {"idle", "read"}
    /\ offset \in Nat /\ identity \in Nat /\ size \in Nat
    /\ observed \in Nat /\ truncated \in Nat /\ rotated \in BOOLEAN
    /\ retained \in Seq(Int) /\ seen \in Seq(Int)
    /\ losses = [before |-> losses.before, after |-> losses.after]

(* A read follows only a stat that has seen more than was read.            *)
Drained ==
    /\ pc = "read" => offset < size
    /\ ContinuityMeansDrained

(* As long as a loss is not reported, the cursor is still at another file. *)
Reported ==
    /\ identity <= inode
    /\ losses.after # {} => identity \notin {0, inode}
    /\ RotationReported

Inv == CursorType /\ Drained /\ Reported /\ ExportsNewest

(* What a read returns: a part of the file, not more than the stat saw.    *)
Chunk == SubSeq(content, offset + 1,
                AtMost(Len(content), offset + AtMost(size - offset, MaxRead)))

(* It has no more units than were missing.                                 *)
LEMMA ChunkIs ==
  ASSUME CursorType, offset < size
  PROVE  Chunk \in Seq(Int) /\ Len(Chunk) \in Nat /\ Len(Chunk) <= size - offset
<1> DEFINE upTo == AtMost(Len(content), offset + AtMost(size - offset, MaxRead))
<1>1. /\ Len(content) \in Nat /\ offset \in Nat /\ upTo \in Nat
      /\ upTo <= Len(content) /\ upTo <= size
  <2>1. Len(content) \in Nat /\ offset \in Nat /\ size \in Nat
    BY LenProperties DEF CursorType
  <2>2. PICK budget \in Nat : /\ budget = AtMost(size - offset, MaxRead)
                             /\ budget <= size - offset
    <3>1. size - offset \in Nat /\ MaxRead \in Nat
      BY <2>1, NumbersAssumption
    <3>. QED BY <3>1 DEF AtMost
  <2>3. upTo = AtMost(Len(content), offset + budget)
    BY <2>2
  <2>. QED BY <2>1, <2>2, <2>3 DEF AtMost
<1> HIDE DEF upTo
<1>2. \A i \in offset + 1 .. upTo : content[i] \in Int
  <2>1. content \in Seq(Int)
    BY DEF CursorType
  <2>2. ASSUME NEW i \in offset + 1 .. upTo PROVE i \in 1 .. Len(content)
    BY <1>1
  <2>. QED BY <2>1, <2>2, ElementOfSeq
<1>3. /\ SubSeq(content, offset + 1, upTo) \in Seq(Int)
      /\ Len(SubSeq(content, offset + 1, upTo)) =
            IF offset + 1 <= upTo THEN upTo - (offset + 1) + 1 ELSE 0
  BY <1>1, <1>2, SubSeqProperties
<1>4. Chunk = SubSeq(content, offset + 1, upTo)
  BY DEF Chunk, upTo
<1>5. PICK n : n = Len(Chunk)
  OBVIOUS
<1>6. n = IF offset + 1 <= upTo THEN upTo - (offset + 1) + 1 ELSE 0
  BY <1>3, <1>4, <1>5
<1>7. n \in Nat /\ n <= size - offset
  <2>1. size \in Nat
    BY DEF CursorType
  <2>2. CASE offset + 1 <= upTo
    BY <1>1, <1>6, <2>1, <2>2
  <2>3. CASE ~ (offset + 1 <= upTo)
    BY <1>1, <1>6, <2>1, <2>3
  <2>. QED BY <2>2, <2>3
<1>. QED BY <1>3, <1>4, <1>5, <1>7

(* What a read does, in terms of its chunk.                                *)
LEMMA ReadChunkDoes ==
  ASSUME CursorType, Drained, ReadChunk
  PROVE  LET events == Events(Chunk)
         IN  /\ pc = "read" /\ pc' = "idle"
             /\ Chunk \in Seq(Int) /\ Len(Chunk) \in Nat
             /\ Len(Chunk) <= size - offset
             /\ events \in Seq(Int)
             /\ offset' = offset + Len(Chunk)
             /\ observed' = observed + Len(events)
             /\ retained' = Newest(retained \o events, MaxRetained)
             /\ truncated' = truncated
                             + (Len(retained \o events) - Len(retained'))
                             + (IF LeftOver(Len(Chunk)) THEN 1 ELSE 0)
             /\ continuity' = IF LeftOver(Len(Chunk)) THEN "gap_detected"
                              ELSE IF continuity # "rotated" THEN "continuous"
                              ELSE "rotated"
             /\ seen' = seen \o events
             /\ UNCHANGED <<logVars, identity, rotated, size, losses>>
<1>1. pc = "read" /\ offset < size
  BY DEF ReadChunk, Drained
<1>2. Chunk \in Seq(Int) /\ Len(Chunk) \in Nat /\ Len(Chunk) <= size - offset
  BY <1>1, ChunkIs
<1>3. Events(Chunk) \in Seq(Int)
  BY <1>2, EventsAreLines
<1>. QED BY <1>1, <1>2, <1>3 DEF ReadChunk, Retain, Chunk

(* What was retained and observed stays the newest of what was seen.       *)
LEMMA ReadExports ==
  ASSUME CursorType, Drained, ExportsNewest, ReadChunk
  PROVE  /\ retained' \in Seq(Int) /\ seen' \in Seq(Int)
         /\ observed' \in Nat /\ truncated' \in Nat
         /\ ExportsNewest'
<1> DEFINE events == Events(Chunk)
           more   == IF LeftOver(Len(Chunk)) THEN 1 ELSE 0
<1>1. /\ events \in Seq(Int)
      /\ observed' = observed + Len(events)
      /\ retained' = Newest(retained \o events, MaxRetained)
      /\ truncated' = truncated + (Len(retained \o events) - Len(retained'))
                      + more
      /\ seen' = seen \o events
  BY ReadChunkDoes
<1>2. more \in Nat
  OBVIOUS
<1>3. /\ retained \in Seq(Int) /\ seen \in Seq(Int) /\ observed \in Nat
      /\ truncated \in Nat /\ MaxRetained \in Nat
  BY NumbersAssumption DEF CursorType
<1> HIDE DEF events, more
<1>4. /\ retained \o events \in Seq(Int) /\ seen \o events \in Seq(Int)
      /\ Len(retained \o events) = Len(retained) + Len(events)
      /\ Len(seen \o events) = Len(seen) + Len(events)
  BY <1>1, <1>3, ConcatProperties
<1>5. PICK all : all = retained \o events
  OBVIOUS
<1>6. /\ retained' \in Seq(Int)
      /\ Len(retained') = AtMost(Len(all), MaxRetained)
  BY <1>1, <1>3, <1>4, <1>5, NewestIs
<1>7. /\ Len(retained) \in Nat /\ Len(events) \in Nat /\ Len(retained') \in Nat
      /\ Len(retained') <= Len(retained) + Len(events)
  BY <1>1, <1>3, <1>4, <1>5, <1>6, LenProperties DEF AtMost
<1>8. truncated' \in Nat /\ observed' \in Nat
  BY <1>1, <1>2, <1>3, <1>4, <1>7
<1>9. observed' = Len(seen')
  BY <1>1, <1>4 DEF ExportsNewest
<1>10. retained' = Newest(seen', MaxRetained)
  BY <1>1, <1>3, NewestOfNewest DEF ExportsNewest
<1>11. truncated' >= observed' - Len(retained')
  BY <1>1, <1>2, <1>3, <1>4, <1>7 DEF ExportsNewest
<1>. QED BY <1>1, <1>4, <1>6, <1>8, <1>9, <1>10, <1>11 DEF ExportsNewest

(* Another file at the path leaves the cursor behind it.                   *)
LEMMA ReplaceKeeps ==
  ASSUME CursorType, Reported, Replace, UNCHANGED <<identity, rotated>>
  PROVE  /\ inode' \in Nat \ {0} /\ content' \in Seq(Int)
         /\ losses' = [before |-> losses'.before, after |-> losses'.after]
         /\ Reported'
<1>1. inode' \in Nat \ {0} /\ identity' <= inode'
  BY DEF Replace, CursorType, Reported
<1>2. content' \in Seq(Int)
  BY EmptySeq DEF Replace
<1>3. CASE identity = 0 \/ inode' = inode
  <2>1. losses' = losses
    BY <1>3 DEF Replace
  <2>. QED BY <1>1, <1>2, <1>3, <2>1
           DEF CursorType, Reported, RotationReported, Replace
<1>4. CASE ~(identity = 0 \/ inode' = inode)
  <2>1. losses' = [losses EXCEPT !.after =
                        losses.after \cup (Units(content) \ got)]
    BY <1>4 DEF Replace
  <2>2. losses = [before |-> losses.before, after |-> losses.after]
    BY DEF CursorType
  <2>3. /\ losses' = [before |-> losses'.before, after |-> losses'.after]
        /\ losses'.before = losses.before
    BY <2>1, <2>2
  <2>4. identity \notin {0, inode'}
    BY <1>4 DEF Replace, CursorType, Reported
  <2>. QED BY <1>1, <1>2, <2>3, <2>4 DEF Reported, RotationReported
<1>. QED BY <1>3, <1>4

(* A cursor that has read nothing has it all.                              *)
LEMMA NothingSeen ==
  /\ <<>> \in Seq(Int) /\ Len(<<>>) = 0
  /\ Newest(<<>>, MaxRetained) = <<>>
<1>1. <<>> \in Seq(Int) /\ Len(<<>>) = 0
  BY EmptySeq
<1>2. /\ Newest(<<>>, MaxRetained) \in Seq(Int)
      /\ Len(Newest(<<>>, MaxRetained)) = AtMost(Len(<<>>), MaxRetained)
  BY <1>1, NewestIs, NumbersAssumption
<1>3. AtMost(0, MaxRetained) = 0
  BY NumbersAssumption DEF AtMost
<1>. QED BY <1>1, <1>2, <1>3, EmptySeq

(* The invariant holds initially and is kept by every step.                *)
LEMMA InvHolds == Spec => []Inv
<1>1. Init => Inv
  <2> SUFFICES ASSUME Init
               PROVE  Inv
    OBVIOUS
  <2>1. CursorType
    <3>1. losses = [before |-> losses.before, after |-> losses.after]
      BY DEF Init
    <3>2. /\ content \in Seq(Int) /\ retained \in Seq(Int) /\ seen \in Seq(Int)
      BY NothingSeen, Zenon DEF Init
    <3>3. pc \in {"idle", "read"} /\ rotated \in BOOLEAN
      BY Zenon DEF Init
    <3>4. /\ written \in Nat /\ inode \in Nat \ {0}
          /\ offset \in Nat /\ identity \in Nat /\ size \in Nat
          /\ observed \in Nat /\ truncated \in Nat
      BY DEF Init
    <3>. QED BY <3>1, <3>2, <3>3, <3>4 DEF CursorType
  <2>2. ExportsNewest
    BY NothingSeen DEF Init, ExportsNewest
  <2>3. Drained /\ Reported
    BY DEF Init, Drained, Reported, ContinuityMeansDrained, RotationReported
  <2>. QED BY <2>1, <2>2, <2>3 DEF Inv
<1>2. Inv /\ [Next]_vars => Inv'
  <2> SUFFICES ASSUME Inv, [Next]_vars
               PROVE  Inv'
    OBVIOUS
  <2>1. ASSUME NEW n \in {1, 2}, Write(n)
        PROVE  Inv'
    <3>1. content' \in Seq(Int) /\ written' \in Nat
      <4> DEFINE more == [i \in 1 .. n |-> written + i]
      <4>1. more \in Seq(Int) /\ written' \in Nat
        <5>1. written \in Nat /\ n \in Nat /\ written' = written + n
          BY <2>1 DEF Write, Inv, CursorType
        <5>2. more \in [1 .. n -> Int]
          BY <5>1
        <5>. QED BY <5>1, <5>2
      <4> HIDE DEF more
      <4>2. content \o more \in Seq(Int)
        BY <4>1, ConcatProperties DEF Inv, CursorType
      <4>. QED BY <2>1, <4>1, <4>2 DEF Write, more
    <3>. QED BY <2>1, <3>1 DEF Write, Inv, CursorType, Drained, Reported,
             ExportsNewest, ContinuityMeansDrained, RotationReported,
             cursorVars
  <2>2. CASE Rotate \/ Create
    <3>1. Replace /\ UNCHANGED <<written, cursorVars>>
      BY <2>2 DEF Rotate, Create
    <3>2. /\ inode' \in Nat \ {0} /\ content' \in Seq(Int)
          /\ losses' = [before |-> losses'.before, after |-> losses'.after]
          /\ Reported'
      BY <3>1, ReplaceKeeps DEF Inv, cursorVars
    <3>. QED BY <3>1, <3>2 DEF Inv, CursorType, Drained, ExportsNewest,
             ContinuityMeansDrained, cursorVars
  <2>3. CASE Delete \/ UNCHANGED vars
    BY <2>3 DEF Delete, Inv, CursorType, Drained, Reported, ExportsNewest,
       ContinuityMeansDrained, RotationReported, cursorVars, logVars, vars
  <2>4. CASE StatFails \/ OpenFails
    BY <2>4 DEF StatFails, OpenFails, Unavailable, Inv, CursorType, Drained,
       Reported, ExportsNewest, ContinuityMeansDrained, RotationReported,
       logVars
  <2>5. CASE Stat
    <3>1. /\ Len(content) \in Nat /\ offset \in Nat /\ inode \in Nat \ {0}
          /\ UNCHANGED <<logVars, observed, truncated, retained, seen, got>>
      BY <2>5, LenProperties DEF Stat, Inv, CursorType
    <3>2. /\ offset' \in Nat /\ size' \in Nat
          /\ pc' = "read" => offset' < size'
          /\ pc' = "idle" => offset' = size'
          /\ pc' \in {"idle", "read"}
      BY <2>5, <3>1 DEF Stat, IsRotated, Grown
    <3>3. /\ losses' = [before |-> losses'.before, after |-> losses'.after]
          /\ losses'.before = losses.before \cup losses.after
          /\ losses'.after = {}
      BY <2>5 DEF Stat
    <3>4. /\ rotated' \in BOOLEAN
          /\ losses.before \cup losses.after # {} => rotated'
      BY <2>5 DEF Stat, IsRotated, Inv, CursorType, Reported, RotationReported
    <3>5. identity' = inode /\ inode' = inode
      BY <2>5 DEF Stat, logVars
    <3>. QED BY <3>1, <3>2, <3>3, <3>4, <3>5 DEF Inv, CursorType, Drained,
             Reported, ExportsNewest, ContinuityMeansDrained,
             RotationReported, logVars
  <2>6. CASE ReadChunk
    <3>1. /\ retained' \in Seq(Int) /\ seen' \in Seq(Int)
          /\ observed' \in Nat /\ truncated' \in Nat
          /\ ExportsNewest'
      BY <2>6, ReadExports DEF Inv
    <3>2. /\ pc' = "idle" /\ Len(Chunk) \in Nat /\ Len(Chunk) <= size - offset
          /\ offset' = offset + Len(Chunk)
          /\ continuity' = IF LeftOver(Len(Chunk)) THEN "gap_detected"
                           ELSE IF continuity # "rotated" THEN "continuous"
                           ELSE "rotated"
          /\ UNCHANGED <<logVars, identity, rotated, size, losses>>
      BY <2>6, ReadChunkDoes DEF Inv
    <3>3. Drained'
      BY <3>2 DEF Drained, ContinuityMeansDrained, LeftOver, Inv, CursorType
    <3>4. Reported'
      BY <3>2 DEF Inv, Reported, RotationReported, logVars
    <3>5. CursorType'
      <4>1. offset' \in Nat
        BY <3>2 DEF Inv, CursorType
      <4>. QED BY <3>1, <3>2, <4>1 DEF Inv, CursorType, logVars
    <3>. QED BY <3>1, <3>3, <3>4, <3>5 DEF Inv
  <2>7. CASE NewCursor
    <3>1. CursorType'
      BY <2>7, NothingSeen DEF NewCursor, Inv, CursorType
    <3>2. ExportsNewest'
      BY <2>7, NothingSeen DEF NewCursor, ExportsNewest
    <3>3. Drained' /\ Reported'
      BY <2>7 DEF NewCursor, Drained, Reported, ContinuityMeansDrained,
                  RotationReported, Inv, CursorType
    <3>. QED BY <3>1, <3>2, <3>3 DEF Inv
  <2>. QED BY <2>1, <2>2, <2>3, <2>4, <2>5, <2>6, <2>7 DEF Next, Poll
<1>. QED BY <1>1, <1>2, PTL DEF Spec

(* The bundle exports the newest events that were observed, in their order *)
(* (AppendOnlyLogCursor::poll, push_event).                                *)
THEOREM CursorExportsNewest == Spec => []ExportsNewest
<1>1. Inv => ExportsNewest
  BY DEF Inv
<1>. QED BY <1>1, InvHolds, PTL

(* What is called silent or continuous was read to the end that the stat   *)
(* saw, whatever comes between the stat and the read                       *)
(* (AppendOnlyLogCursor::poll).                                            *)
THEOREM CursorDrains == Spec => []ContinuityMeansDrained
<1>1. Inv => ContinuityMeansDrained
  BY DEF Inv, Drained
<1>. QED BY <1>1, InvHolds, PTL

(* Units that were lost with a file that has another inode than the next   *)
(* one are reported as a rotation from the next stat on                    *)
(* (AppendOnlyLogCursor::poll).                                            *)
THEOREM CursorReportsRotation == Spec => []RotationReported
<1>1. Inv => RotationReported
  BY DEF Inv, Reported
<1>. QED BY <1>1, InvHolds, PTL

=============================================================================
