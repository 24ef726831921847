------------------------ MODULE CanvasAutosaveProofs ------------------------
(***************************************************************************)
(* What the canvas promises about saved work, for every set of snapshots    *)
(* and every way of stripping them, without a bound on visits or edits.     *)
(*                                                                         *)
(* Two facts carry the argument.  While a write is queued nothing is        *)
(* acknowledged, so an acknowledgement always speaks of the last write; and *)
(* the server always holds, stripped, one of the values the user may expect *)
(* to find again.                                                           *)
(***************************************************************************)
EXTENDS CanvasAutosave, SequenceTheorems, TLAPS

Writes == [value : Values, awaited : BOOLEAN]

\* Nothing of an editor exists before the read has succeeded
EditorMounted ==
  IF page = "ready" THEN value \in Values /\ load = "idle" /\ stored \notin Unreadable
                    ELSE Fresh

\* The store makes only what it has found missing
MakesWhatIsMissing ==
  /\ load = "board" => stored = "no_board"
  /\ load = "record" => stored = "no_record"

AckIsLast ==
  /\ queue # <<>> => acknowledged = None
  /\ acknowledged # None => stored = Strip[acknowledged]
  /\ status = "saved" => acknowledged = value /\ value # None

Expected ==
  /\ stored \notin Unreadable => \E v \in work : Content(stored) = Opened[Strip[v]]
  /\ page = "ready" => /\ value \in work
                       /\ \A i \in 1..Len(queue) : queue[i].value \in work

Inv == TypeOK /\ EditorMounted /\ MakesWhatIsMissing /\ AckIsLast /\ Expected

-----------------------------------------------------------------------------
\* Any stripped snapshot is a readable content of the server.
LEMMA StrippedIsContent ==
  ASSUME NEW v \in Values
  PROVE  /\ Strip[v] \in Values
         /\ Strip[v] \notin Unreadable /\ Strip[v] \notin Unset
         /\ Content(Strip[v]) = Opened[Strip[v]]
BY ValuesAssumption DEF Content

\* The content of a readable record is a snapshot.
LEMMA ReadableContent ==
  ASSUME NEW s \in Contents \ Unreadable
  PROVE  Content(s) \in Values
BY ValuesAssumption DEF Content, Contents

\* The head and the rest of a chain of writes.
LEMMA HeadAndRest ==
  ASSUME NEW q \in Seq(Writes), q # <<>>
  PROVE  /\ Head(q) \in Writes /\ Head(q) = q[1] /\ 1 \in 1..Len(q)
         /\ Tail(q) \in Seq(Writes)
         /\ Len(Tail(q)) = Len(q) - 1
         /\ \A i \in 1..Len(Tail(q)) : Tail(q)[i] = q[i + 1] /\ i + 1 \in 1..Len(q)
<1>1. Len(q) \in Nat /\ Len(q) # 0
  BY LenProperties, EmptySeq
<1>2. Head(q) \in Writes /\ Head(q) = q[1] /\ 1 \in 1..Len(q)
  BY <1>1
<1>3. /\ Tail(q) \in Seq(Writes) /\ Len(Tail(q)) = Len(q) - 1
      /\ \A i \in 1..Len(Tail(q)) : Tail(q)[i] = q[i + 1]
  BY HeadTailProperties
<1> QED
  BY <1>1, <1>2, <1>3

\* What persist leaves behind: the chain keeps to the values of before and the
\* present one, and while it is not empty nothing is acknowledged.
LEMMA PersistKeeps ==
  ASSUME NEW q \in Seq(Writes), NEW ack \in Values \cup {None},
         NEW s \in {"pending", "saving", "saved", "error"}, NEW awaited \in BOOLEAN,
         value \in Values, q # <<>> => ack = None,
         s = "saved" => ack = value,
         Persist(q, ack, s, awaited)
  PROVE  /\ queue' \in Seq(Writes)
         /\ acknowledged' \in {ack, None}
         /\ status' \in {"pending", "saving", "saved", "error"}
         /\ queue' # <<>> => acknowledged' = None
         /\ status' = "saved" => acknowledged' = value
         /\ \A i \in 1..Len(queue') :
              queue'[i].value = value \/ (i \in 1..Len(q) /\ queue'[i].value = q[i].value)
<1>1. CASE Pending(q) /\ queue' = [q EXCEPT ![Len(q)].awaited = @ \/ awaited]
           /\ acknowledged' = ack /\ status' = s
  <2>1. Len(q) \in 1..Len(q) /\ q[Len(q)] \in Writes
    BY <1>1, EmptySeq, LenProperties DEF Pending
  <2> DEFINE w == [q[Len(q)] EXCEPT !.awaited = @ \/ awaited]
  <2>2. w \in Writes /\ w.value = q[Len(q)].value
    BY <2>1 DEF Writes
  <2>3. queue' = [q EXCEPT ![Len(q)] = w]
    BY <1>1
  <2>4. queue' \in Seq(Writes) /\ Len(queue') = Len(q) /\ queue' # <<>>
        /\ \A i \in 1..Len(q) : queue'[i] = IF i = Len(q) THEN w ELSE q[i]
    BY <2>1, <2>2, <2>3, ExceptSeq
  <2> QED
    BY <1>1, <2>2, <2>4 DEF Pending
<1>2. CASE q = <<>> /\ ack = value /\ queue' = q /\ acknowledged' = ack /\ status' = "saved"
  BY <1>2
<1>3. CASE queue' = Append(q, [value |-> value, awaited |-> awaited])
           /\ acknowledged' = StillAcknowledged /\ status' = "saving"
  <2>1. [value |-> value, awaited |-> awaited] \in Writes
    BY DEF Writes
  <2>2. queue' \in Seq(Writes) /\ Len(queue') = Len(q) + 1
        /\ \A i \in 1..Len(queue') :
             queue'[i] = IF i = Len(queue') THEN [value |-> value, awaited |-> awaited] ELSE q[i]
    BY <1>3, <2>1, AppendProperties
  <2>3. Len(q) \in Nat
    BY LenProperties
  <2> QED
    BY <1>3, <2>2, <2>3 DEF StillAcknowledged
<1> QED
  BY <1>1, <1>2, <1>3 DEF Persist
-----------------------------------------------------------------------------
LEMMA InitInv == Init => Inv
<1> SUFFICES ASSUME Init PROVE Inv
  OBVIOUS
<1>1. stored \in Contents /\ (stored \notin Unset \cup Unreadable => stored \in Values)
  BY ValuesAssumption DEF Init, Contents
<1>2. work \subseteq Values
  BY <1>1, ValuesAssumption DEF Init
<1>3. TypeOK
  BY <1>1, <1>2, EmptySeq DEF Init, Fresh, TypeOK
<1>4. EditorMounted /\ MakesWhatIsMissing /\ AckIsLast
  BY ValuesAssumption DEF Init, Fresh, EditorMounted, MakesWhatIsMissing, AckIsLast
<1>5. stored \notin Unreadable => \E v \in work : Content(stored) = Opened[Strip[v]]
  <2> SUFFICES ASSUME stored \notin Unreadable PROVE \E v \in work : Content(stored) = Opened[Strip[v]]
    OBVIOUS
  <2>1. CASE stored \in Unset
    BY <2>1, ValuesAssumption DEF Init, Content, Unset, Unreadable
  <2>2. CASE stored \notin Unset
    <3>1. PICK v \in Values : stored = Strip[v]
      BY <2>2 DEF Init
    <3>2. work = {stored} /\ Strip[stored] = stored /\ Content(stored) = Opened[stored]
      BY <2>2, <3>1, ValuesAssumption DEF Init, Content
    <3> QED
      BY <3>2
  <2> QED
    BY <2>1, <2>2
<1> QED
  BY <1>3, <1>4, <1>5 DEF Inv, Expected, Init

\* Where the page has gone, only what the user may expect is left to check.
LEMMA GoneKeepsInv ==
  ASSUME Inv, Gone, stored' \in Contents, work' \subseteq Values,
         stored' \notin Unreadable => \E v \in work' : Content(stored') = Opened[Strip[v]],
         visits' \in Nat, edits' \in Nat, failures' \in Nat
  PROVE  Inv'
<1>1. TypeOK'
  BY EmptySeq DEF Gone, TypeOK
<1>2. EditorMounted' /\ MakesWhatIsMissing' /\ AckIsLast'
  BY ValuesAssumption DEF Gone, Fresh, EditorMounted, MakesWhatIsMissing, AckIsLast
<1>3. Expected'
  BY DEF Gone, Expected
<1> QED
  BY <1>1, <1>2, <1>3 DEF Inv

\* A request of the load keeps the content the user may expect.
LEMMA MadeKeepsContent ==
  ASSUME Inv, NEW s \in {stored, Made}
  PROVE  /\ s \in Contents
         /\ s \notin Unreadable => stored \notin Unreadable /\ Content(s) = Content(stored)
BY DEF Inv, TypeOK, MakesWhatIsMissing, Made, Contents, Content, Unset, Unreadable

LEMMA LeaveKeepsInv ==
  ASSUME Inv, page = "ready", Leave, stored' = Strip[value]
  PROVE  Inv'
<1>1. value \in Values
  BY DEF Inv, EditorMounted
<1>2. stored' \in Contents /\ Content(stored') = Opened[Strip[value]]
  BY <1>1, StrippedIsContent DEF Contents
<1> QED
  BY <1>1, <1>2, GoneKeepsInv DEF Leave, bounds, Inv, TypeOK

LEMMA NextInv == Inv /\ [Next]_vars => Inv'
<1> SUFFICES ASSUME Inv, [Next]_vars PROVE Inv'
  OBVIOUS
<1> USE DEF Inv
<1>1. CASE Open
  <2>1. TypeOK'
    <3>1. visits' \in Nat
      BY <1>1 DEF Open, TypeOK
    <3> QED
      BY <1>1, <3>1 DEF Open, hook, TypeOK
  <2>2. EditorMounted' /\ MakesWhatIsMissing' /\ AckIsLast'
    BY <1>1 DEF Open, hook, EditorMounted, Fresh, MakesWhatIsMissing, AckIsLast
  <2>3. Expected'
    BY <1>1 DEF Open, Expected, Content
  <2> QED
    BY <2>1, <2>2, <2>3
<1>2. CASE Retry
  BY <1>2 DEF Retry, FirstRequest, hook, bounds, TypeOK, EditorMounted, Fresh,
              MakesWhatIsMissing, AckIsLast, Expected
<1>3. CASE LoadTimesOut
  BY <1>3 DEF LoadTimesOut, hook, bounds, TypeOK, EditorMounted, Fresh,
              MakesWhatIsMissing, AckIsLast, Expected
<1>4. CASE LoadGoesOn
  <2>1. page # "ready"
    BY <1>4 DEF LoadGoesOn, EditorMounted
  <2>2. /\ stored' \in Contents
        /\ stored' \notin Unreadable => stored \notin Unreadable /\ Content(stored') = Content(stored)
    BY <1>4, MadeKeepsContent DEF LoadGoesOn
  <2>3. TypeOK'
    BY <1>4, <2>2 DEF LoadGoesOn, NextRequest, hook, bounds, TypeOK
  <2>4. EditorMounted' /\ AckIsLast'
    BY <1>4, <2>1 DEF LoadGoesOn, hook, EditorMounted, AckIsLast, Fresh
  <2>5. MakesWhatIsMissing'
    BY <1>4 DEF LoadGoesOn, NextRequest, Made, MakesWhatIsMissing
  <2>6. Expected'
    BY <1>4, <2>1, <2>2 DEF LoadGoesOn, Expected
  <2> QED
    BY <2>3, <2>4, <2>5, <2>6
<1>5. CASE LoadFails
  <2>1. page # "ready" /\ page' # "ready" /\ page' \in {"closed", "loading", "error", "ready"}
    BY <1>5 DEF LoadFails, EditorMounted, TypeOK
  <2>2. /\ stored' \in Contents
        /\ stored' \notin Unreadable => stored \notin Unreadable /\ Content(stored') = Content(stored)
    BY <1>5, MadeKeepsContent DEF LoadFails
  <2>3. TypeOK'
    <3>1. failures' \in Nat
      BY <1>5 DEF LoadFails, TypeOK
    <3> QED
      BY <1>5, <2>1, <2>2, <3>1 DEF LoadFails, hook, TypeOK
  <2>4. EditorMounted' /\ AckIsLast' /\ MakesWhatIsMissing'
    BY <1>5, <2>1 DEF LoadFails, hook, EditorMounted, AckIsLast, MakesWhatIsMissing, Fresh
  <2>5. Expected'
    BY <1>5, <2>1, <2>2 DEF LoadFails, Expected
  <2> QED
    BY <2>3, <2>4, <2>5
<1>6. CASE LoadEnds
  <2>1. page # "ready" /\ Fresh /\ stored \in Contents \ Unreadable
    BY <1>6 DEF LoadEnds, Refused, EditorMounted, TypeOK
  <2>2. Content(stored) \in Values
    BY <2>1, ReadableContent
  <2>3. Opened[Strip[Content(stored)]] = Content(stored)
    <3>1. PICK v \in work : Content(stored) = Opened[Strip[v]]
      BY <2>1 DEF Expected
    <3> QED
      BY <3>1, ValuesAssumption DEF TypeOK
  <2>4. CASE Listening
    <3>1. /\ page' = "ready" /\ value' = Content(stored) /\ timer' = TRUE
          /\ work' = {Content(stored)} /\ load' = "idle"
          /\ UNCHANGED <<stored, located, acknowledged, queue, status, bounds>>
      BY <1>6, <2>4 DEF LoadEnds
    <3>2. TypeOK'
      BY <2>2, <3>1 DEF bounds, TypeOK
    <3>3. EditorMounted' /\ MakesWhatIsMissing' /\ AckIsLast'
      BY <2>1, <2>2, <3>1 DEF EditorMounted, MakesWhatIsMissing, AckIsLast, Fresh
    <3>4. Expected'
      <4>1. Content(stored)' = Content(stored)
        BY <3>1 DEF Content
      <4>2. Len(queue') = 0
        BY <2>1, <3>1 DEF Fresh
      <4> QED
        BY <2>3, <3>1, <4>1, <4>2 DEF Expected
    <3> QED
      BY <3>2, <3>3, <3>4
  <2>5. CASE ~ Listening
    BY <1>6, <2>1, <2>5 DEF LoadEnds, bounds, TypeOK, EditorMounted, Fresh, MakesWhatIsMissing,
                            AckIsLast, Expected, Content
  <2> QED
    BY <2>4, <2>5
<1>7. CASE GiveUp
  <2>1. /\ stored' \in Contents
        /\ stored' \notin Unreadable => stored \notin Unreadable /\ Content(stored') = Content(stored)
    BY <1>7, MadeKeepsContent DEF GiveUp
  <2> QED
    BY <1>7, <2>1, GoneKeepsInv DEF GiveUp, bounds, TypeOK, Expected
<1>8. ASSUME NEW v \in Values, Edit(v)
      PROVE  Inv'
  <2>1. TypeOK'
    BY <1>8 DEF Edit, TypeOK
  <2>2. EditorMounted' /\ MakesWhatIsMissing' /\ AckIsLast'
    BY <1>8 DEF Edit, EditorMounted, MakesWhatIsMissing, AckIsLast
  <2>3. Expected'
    BY <1>8 DEF Edit, Expected, Content
  <2> QED
    BY <2>1, <2>2, <2>3
<1>9. CASE Debounce
  <2>1. /\ value \in Values /\ queue \in Seq(Writes) /\ acknowledged \in Values \cup {None}
        /\ status \in {"pending", "saving", "saved", "error"}
    BY <1>9 DEF Debounce, EditorMounted, TypeOK, Writes
  <2>2. /\ queue' \in Seq(Writes)
        /\ acknowledged' \in {acknowledged, None}
        /\ status' \in {"pending", "saving", "saved", "error"}
        /\ queue' # <<>> => acknowledged' = None
        /\ status' = "saved" => acknowledged' = value
        /\ \A i \in 1..Len(queue') :
             queue'[i].value = value \/ (i \in 1..Len(queue) /\ queue'[i].value = queue[i].value)
    BY <1>9, <2>1, PersistKeeps DEF Debounce, AckIsLast
  <2>3. TypeOK'
    BY <1>9, <2>1, <2>2 DEF Debounce, bounds, TypeOK, Writes
  <2>4. EditorMounted' /\ MakesWhatIsMissing'
    BY <1>9 DEF Debounce, EditorMounted, MakesWhatIsMissing
  <2>5. AckIsLast'
    BY <1>9, <2>1, <2>2, ValuesAssumption DEF Debounce, AckIsLast
  <2>6. Expected'
    BY <1>9, <2>2 DEF Debounce, Expected, Content
  <2> QED
    BY <2>3, <2>4, <2>5, <2>6
<1>10. CASE SaveNow
  <2>1. /\ value \in Values /\ queue \in Seq(Writes) /\ acknowledged \in Values \cup {None}
        /\ status \in {"pending", "saving", "saved", "error"}
    BY <1>10 DEF SaveNow, EditorMounted, TypeOK, Writes
  <2>2. CASE Safe(queue, acknowledged) /\ Leave
    BY <1>10, <2>1, <2>2, LeaveKeepsInv, ValuesAssumption DEF SaveNow, Safe, AckIsLast
  <2>3. CASE /\ ~ Safe(queue, acknowledged) /\ timer' = FALSE
             /\ Persist(queue, acknowledged, status, TRUE)
             /\ UNCHANGED <<stored, page, load, located, value, work, bounds>>
    <3>1. /\ queue' \in Seq(Writes)
          /\ acknowledged' \in {acknowledged, None}
          /\ status' \in {"pending", "saving", "saved", "error"}
          /\ queue' # <<>> => acknowledged' = None
          /\ status' = "saved" => acknowledged' = value
          /\ \A i \in 1..Len(queue') :
               queue'[i].value = value \/ (i \in 1..Len(queue) /\ queue'[i].value = queue[i].value)
      BY <2>1, <2>3, PersistKeeps DEF AckIsLast
    <3>2. TypeOK'
      BY <2>1, <2>3, <3>1 DEF bounds, TypeOK, Writes
    <3>3. EditorMounted' /\ MakesWhatIsMissing'
      BY <1>10, <2>3 DEF SaveNow, EditorMounted, MakesWhatIsMissing
    <3>4. AckIsLast'
      BY <2>1, <2>3, <3>1, ValuesAssumption DEF AckIsLast
    <3>5. Expected'
      BY <1>10, <2>3, <3>1 DEF SaveNow, Expected, Content
    <3> QED
      BY <3>2, <3>3, <3>4, <3>5
  <2> QED
    BY <1>10, <2>2, <2>3 DEF SaveNow
<1>11. CASE SaveSucceeds
  <2>1. /\ page = "ready" /\ queue # <<>> /\ value \in Values /\ queue \in Seq(Writes)
        /\ acknowledged = None /\ status # "saved"
        /\ status \in {"pending", "saving", "saved", "error"}
    BY <1>11 DEF SaveSucceeds, EditorMounted, TypeOK, Writes, AckIsLast
  <2>2. /\ Head(queue) \in Writes /\ Head(queue) = queue[1] /\ 1 \in 1..Len(queue)
        /\ Rest \in Seq(Writes)
        /\ \A i \in 1..Len(Rest) : Rest[i] = queue[i + 1] /\ i + 1 \in 1..Len(queue)
    BY <2>1, HeadAndRest DEF Rest
  <2>3. Head(queue).value \in Values /\ Head(queue).value \in work
    BY <2>1, <2>2 DEF Writes, Expected
  <2>4. /\ stored' \in Contents /\ stored' \notin Unreadable
        /\ stored' = Strip[Head(queue).value] /\ Content(stored') = Opened[Strip[Head(queue).value]]
    BY <1>11, <2>3, StrippedIsContent DEF SaveSucceeds, Contents
  <2>5. /\ AckAfter \in Values \cup {None}
        /\ AckAfter # None => AckAfter = Head(queue).value
        /\ Rest # <<>> => AckAfter = None
        /\ SavedAfter \in {"pending", "saving", "saved", "error"}
        /\ SavedAfter = "saved" => AckAfter = value
    BY <2>1, <2>3 DEF AckAfter, SavedAfter
  <2>6. CASE Safe(Rest, AckAfter) /\ Leave
    BY <2>1, <2>4, <2>5, <2>6, LeaveKeepsInv, ValuesAssumption DEF Safe
  <2>7. ASSUME /\ queue' \in Seq(Writes)
               /\ acknowledged' \in {AckAfter, None}
               /\ status' \in {"pending", "saving", "saved", "error"}
               /\ queue' # <<>> => acknowledged' = None
               /\ status' = "saved" => acknowledged' = value
               /\ \A i \in 1..Len(queue') :
                    queue'[i].value = value \/ (i \in 1..Len(Rest) /\ queue'[i].value = Rest[i].value)
               /\ UNCHANGED <<page, load, located, value, timer, work, bounds>>
        PROVE  Inv'
    <3>1. TypeOK'
      BY <2>1, <2>4, <2>5, <2>7 DEF bounds, TypeOK, Writes
    <3>2. EditorMounted' /\ MakesWhatIsMissing'
      BY <2>1, <2>4, <2>7 DEF EditorMounted, MakesWhatIsMissing
    <3>3. AckIsLast'
      BY <2>1, <2>4, <2>5, <2>7, ValuesAssumption DEF AckIsLast
    <3>4. (stored \notin Unreadable => \E v \in work : Content(stored) = Opened[Strip[v]])'
      <4>1. Content(stored)' = Content(stored')
        BY DEF Content
      <4> QED
        BY <2>3, <2>4, <2>7, <4>1
    <3>5. \A i \in 1..Len(queue') : queue'[i].value \in work
      BY SMTT(60), <2>1, <2>2, <2>7 DEF Expected
    <3> QED
      BY <2>1, <2>7, <3>1, <3>2, <3>3, <3>4, <3>5 DEF Expected
  <2>8. CASE /\ queue' = Rest /\ acknowledged' = AckAfter /\ status' = SavedAfter
             /\ UNCHANGED <<page, load, located, value, timer, work, bounds>>
    BY <2>2, <2>5, <2>7, <2>8
  <2>9. CASE /\ Persist(Rest, AckAfter, SavedAfter, TRUE)
             /\ UNCHANGED <<page, load, located, value, timer, work, bounds>>
    <3>1. /\ queue' \in Seq(Writes)
          /\ acknowledged' \in {AckAfter, None}
          /\ status' \in {"pending", "saving", "saved", "error"}
          /\ queue' # <<>> => acknowledged' = None
          /\ status' = "saved" => acknowledged' = value
          /\ \A i \in 1..Len(queue') :
               queue'[i].value = value \/ (i \in 1..Len(Rest) /\ queue'[i].value = Rest[i].value)
      BY <2>1, <2>2, <2>5, <2>9, PersistKeeps
    <3> QED
      BY <2>7, <2>9, <3>1
  <2> QED
    BY <1>11, <2>6, <2>8, <2>9 DEF SaveSucceeds
<1>12. CASE SaveFails
  <2>1. /\ page = "ready" /\ queue # <<>> /\ value \in Values /\ queue \in Seq(Writes)
        /\ acknowledged = None /\ status # "saved"
    BY <1>12 DEF SaveFails, EditorMounted, TypeOK, Writes, AckIsLast
  <2>2. /\ Head(queue) \in Writes /\ Head(queue) = queue[1] /\ 1 \in 1..Len(queue)
        /\ Rest \in Seq(Writes)
        /\ \A i \in 1..Len(Rest) : Rest[i] = queue[i + 1] /\ i + 1 \in 1..Len(queue)
    BY <2>1, HeadAndRest DEF Rest
  <2>3. Head(queue).value \in Values /\ Head(queue).value \in work
    BY <2>1, <2>2 DEF Writes, Expected
  <2>4. /\ stored' \in Contents /\ stored' \notin Unreadable
        /\ \E v \in work : Content(stored') = Opened[Strip[v]]
    <3>1. CASE stored' = stored
      BY <2>1, <3>1 DEF TypeOK, EditorMounted, Expected
    <3>2. CASE stored' = Strip[Head(queue).value]
      BY <2>3, <3>2, StrippedIsContent DEF Contents
    <3> QED
      BY <1>12, <3>1, <3>2 DEF SaveFails
  <2>5. FailedAfter \in {"pending", "saving", "error"}
    BY <2>1 DEF FailedAfter, TypeOK
  <2>6. TypeOK'
    BY <1>12, <2>2, <2>4, <2>5 DEF SaveFails, TypeOK, Writes
  <2>7. EditorMounted' /\ MakesWhatIsMissing' /\ AckIsLast'
    BY <1>12, <2>1, <2>4, <2>5 DEF SaveFails, EditorMounted, MakesWhatIsMissing, AckIsLast
  <2>8. Expected'
    <3>1. Content(stored)' = Content(stored')
      BY DEF Content
    <3>2. \A i \in 1..Len(Rest) : Rest[i].value \in work
      BY <2>1, <2>2 DEF Expected
    <3> QED
      BY <1>12, <2>1, <2>4, <3>1, <3>2 DEF SaveFails, Expected
  <2> QED
    BY <2>6, <2>7, <2>8
<1>13. CASE Close
  <2>1. page = "ready" /\ value \in Values /\ value \in work /\ stored \notin Unreadable
    BY <1>13 DEF Close, EditorMounted, Expected
  <2>2. CASE Warns
    <3>1. ASSUME NEW i \in {1} \cap DOMAIN queue
          PROVE  queue[i].value \in Values /\ queue[i].value \in work
      <4>1. i \in 1..Len(queue)
        BY <3>1, LenProperties DEF TypeOK
      <4> QED
        BY <2>1, <4>1, ElementOfSeq DEF TypeOK, Expected
    <3>2. stored' \in Contents /\ \E v \in work : Content(stored') = Opened[Strip[v]]
      <4>1. CASE stored' = stored
        BY <2>1, <4>1 DEF TypeOK, Expected
      <4>2. CASE \E i \in {1} \cap DOMAIN queue : stored' = Strip[queue[i].value]
        BY <3>1, <4>2, StrippedIsContent DEF Contents
      <4> QED
        BY <1>13, <4>1, <4>2 DEF Close
    <3> QED
      BY <1>13, <2>2, <3>2, GoneKeepsInv DEF Close, bounds, TypeOK
  <2>3. CASE ~ Warns
    <3>1. queue = <<>> /\ stored = Strip[value]
      BY <2>1, <2>3, ValuesAssumption DEF Warns, AckIsLast
    <3>2. stored' = stored
      BY <1>13, <3>1 DEF Close
    <3> QED
      BY <1>13, <2>1, <2>3, <3>1, <3>2, LeaveKeepsInv DEF Close, Leave
  <2> QED
    BY <2>2, <2>3
<1>14. CASE UNCHANGED vars
  BY <1>14 DEF vars, hook, bounds, TypeOK, EditorMounted, Fresh, MakesWhatIsMissing,
               AckIsLast, Expected, Content
<1> QED
  BY <1>1, <1>2, <1>3, <1>4, <1>5, <1>6, <1>7, <1>8, <1>9, <1>10, <1>11, <1>12, <1>13, <1>14
  DEF Next

-----------------------------------------------------------------------------
\* The inductive invariant of the canvas (useWorkspaceSave.ts, studioSnapshotStore.ts).
THEOREM CanvasInvariant == Spec => []Inv
BY InitInv, NextInv, PTL DEF Spec

\* Every variable keeps its shape, however long the chain of writes grows.
THEOREM CanvasTypeCorrect == Spec => []TypeOK
<1>1. Inv => TypeOK
  BY DEF Inv
<1> QED
  BY <1>1, CanvasInvariant, PTL

\* What the editor calls saved, or lets go without a warning, is on the server,
\* for any snapshots and any way of stripping them (useWorkspaceSave.ts, persist).
THEOREM CanvasSavedIsStored == Spec => []SavedIsStored
<1>1. Inv => SavedIsStored
  BY ValuesAssumption DEF Inv, EditorMounted, AckIsLast, SavedIsStored
<1> QED
  BY <1>1, CanvasInvariant, PTL

\* The editor only ever opens with the work the user left, as it was stored
\* (WorkspaceLoadBoundary.tsx; studioSnapshotStore.ts, loadSnapshot).
THEOREM CanvasReopenShowsWork == Spec => ReopenShowsWork
<1>1. ASSUME Inv, Next, page # "ready", page' = "ready"
      PROVE  \E v \in work : value' = Opened[Strip[v]]
  <2>1. LoadEnds
    BY <1>1 DEF Next, Open, Retry, LoadTimesOut, LoadGoesOn, LoadFails, GiveUp, Gone, Edit,
                Debounce, SaveNow, SaveSucceeds, SaveFails, Close
  <2>2. value' = Content(stored) /\ stored \notin Unreadable
    BY <1>1, <2>1 DEF LoadEnds, Refused
  <2> QED
    BY <1>1, <2>2 DEF Inv, Expected
<1>2. Inv /\ [Next]_vars =>
        [page # "ready" /\ page' = "ready" => \E v \in work : value' = Opened[Strip[v]]]_vars
  BY <1>1
<1> QED
  BY <1>2, CanvasInvariant, PTL DEF Spec, ReopenShowsWork
=============================================================================
