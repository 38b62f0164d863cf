----------------------------- MODULE Web_proofs -----------------------------
(***************************************************************************)
(* What the polling parts of the web client owe to the page, however many  *)
(* requests, jobs and failures there are.                                  *)
(***************************************************************************)
EXTENDS MCWeb, SequenceTheorems, FiniteSetTheorems, WellFoundedInduction, TLAPS

(* Cardinality is the same in every instance.                               *)

LEMMA OneCardinality ==
    ASSUME NEW S
    PROVE  Card!Cardinality(S) = Cardinality(S) /\ View!Cardinality(S) = Cardinality(S)
<1>1. Card!Cardinality(S) = Cardinality(S)
  BY Zenon DEF Card!Cardinality, Cardinality
<1>2. View!Cardinality(S) = Cardinality(S)
  BY Zenon DEF View!Cardinality, Cardinality
<1> QED
  BY <1>1, <1>2

-----------------------------------------------------------------------------
(* The server.                                                              *)

\* Jobs are numbered on, and a job that has ended stays so.
LEMMA StartIndexTypes ==
    ASSUME Card!ServerTypeOK, Card!StartIndex
    PROVE  Card!ServerTypeOK' /\ Len(jobs') = Len(jobs) + 1
  BY AppendProperties, LenProperties DEF Card!ServerTypeOK, Card!StartIndex, Card!RepoStatus, Card!JobStatus

LEMMA WorkTypes ==
    ASSUME Card!ServerTypeOK, Card!Work
    PROVE  Card!ServerTypeOK' /\ Len(jobs') = Len(jobs)
<1>1. PICK n \in DOMAIN jobs : Card!Run(n) \/ Card!CommitRow(n) \/ Card!CommitJob(n)
  BY DEF Card!Work
<1>2. n \in 1 .. Len(jobs) /\ Len(jobs) \in Nat
  BY LenProperties DEF Card!ServerTypeOK
<1>3. \A s \in Card!JobStatus : [jobs EXCEPT ![n] = s] \in Seq(Card!JobStatus) /\ Len([jobs EXCEPT ![n] = s]) = Len(jobs)
  BY <1>2, ExceptSeq DEF Card!ServerTypeOK
<1> QED
  BY <1>1, <1>2, <1>3 DEF Card!ServerTypeOK, Card!Run, Card!CommitRow, Card!CommitJob, Card!SaveJob, Card!RepoStatus, Card!JobStatus

LEMMA ShownTypes ==
    ASSUME Card!ServerTypeOK
    PROVE  Card!Shown(latest) \in [n : 0 .. Len(jobs), status : Card!ShownStatus]
  BY LenProperties, ElementOfSeq DEF Card!ServerTypeOK, Card!Shown, Card!None, Card!ShownStatus, Card!JobStatus

-----------------------------------------------------------------------------
(* The card.                                                                *)

JobShown == [n : 0 .. Len(jobs), status : Card!ShownStatus]
ViewType == [row : Card!RepoStatus, job : JobShown]

\* What is answered has been read.
PollType ==
    {r \in [state : {"free", "sent", "row", "ready"}, live : BOOLEAN,
            row : Card!RepoStatus \cup {Card!NotRead}, job : JobShown] :
        r.state \in {"row", "ready"} => r.row # Card!NotRead}
ListType ==
    {r \in [state : {"free", "sent", "ready"}, row : Card!RepoStatus \cup {Card!NotRead}] :
        r.state = "ready" => r.row # Card!NotRead}

CardTypes ==
    /\ mounted \in BOOLEAN
    /\ view \in ViewType
    /\ {lastStatus, badge} \subseteq Card!RepoStatus
    /\ timer \in BOOLEAN
    /\ poll \in [Polls -> PollType]
    /\ list \in [Lists -> ListType]
    /\ trigger \in [sent : BOOLEAN, job : JobShown]
    /\ failures \in 0 .. CardFailures

\* No loop waits for a place that is free.
FreeIdle(polls) == \A p \in Polls : polls[p].state = "free" => ~polls[p].live

\* The loop waits for its tick, or for one poll.
OneAwaited(polls, ticks) ==
    IF ticks THEN \A p \in Polls : ~polls[p].live
    ELSE \E p \in Polls : \A q \in Polls : polls[q].live <=> q = p

CardInv == Card!ServerTypeOK /\ CardTypes /\ FreeIdle(poll) /\ (mounted => OneAwaited(poll, timer))

LEMMA CardTypesAre ==
    Card!ServerTypeOK /\ CardTypes => Card!TypeOK
  BY DEF Card!TypeOK, CardTypes, JobShown, ViewType, PollType, ListType

LEMMA PollsExist ==
    Polls # {}
<1>1. Cardinality(Polls) > 1
  BY Assumptions, OneCardinality DEF Card!CardAssumption
<1>2. Cardinality({}) = 0
  BY FS_EmptySet
<1> QED
  BY <1>1, <1>2

\* The records a place can be given.
LEMMA Records ==
    ASSUME Card!ServerTypeOK
    PROVE  /\ Card!None \in JobShown
           /\ Card!FreePoll \in PollType /\ ~Card!FreePoll.live
           /\ \A b \in BOOLEAN : Card!Sent(b) \in PollType /\ Card!Sent(b).live = b /\ Card!Sent(b).state = "sent"
           /\ Card!FreeList \in ListType
<1>1. Len(jobs) \in Nat
  BY LenProperties DEF Card!ServerTypeOK
<1>2. Card!None \in JobShown
  BY <1>1 DEF Card!None, JobShown, Card!ShownStatus
<1>3. Card!FreePoll \in PollType /\ ~Card!FreePoll.live
  BY <1>2 DEF PollType, Card!FreePoll
<1>4. \A b \in BOOLEAN : Card!Sent(b) \in PollType /\ Card!Sent(b).live = b /\ Card!Sent(b).state = "sent"
  BY <1>3 DEF PollType, Card!Sent
<1>5. Card!FreeList \in ListType
  BY DEF ListType, Card!FreeList
<1> QED
  BY <1>2, <1>3, <1>4, <1>5

\* A new request takes a place no loop waits for.
LEMMA PlaceIdle ==
    ASSUME NEW polls, FreeIdle(polls), NEW p \in Card!Places(polls)
    PROVE  p \in Polls /\ ~polls[p].live
<1> DEFINE free == {q \in Polls : polls[q].state = "free"}
<1>1. CASE free # {}
  <2>1. (CHOOSE q \in free : TRUE) \in free
    BY <1>1
  <2>2. p \in free
    BY <1>1, <2>1 DEF Card!Places
  <2> QED
    BY <2>2 DEF FreeIdle
<1>2. CASE free = {}
  BY <1>2 DEF Card!Places
<1> QED
  BY <1>1, <1>2

\* A render keeps the loop: as it is, or cancelled with another begun.
LEMMA RenderKeeps ==
    ASSUME Card!ServerTypeOK,
           NEW v \in ViewType, NEW polls \in [Polls -> PollType], NEW ticks \in BOOLEAN,
           FreeIdle(polls), OneAwaited(polls, ticks), Card!Render(v, polls, ticks)
    PROVE  /\ view' = v /\ poll' \in [Polls -> PollType] /\ timer' \in BOOLEAN
           /\ FreeIdle(poll') /\ OneAwaited(poll', timer')
<1>1. CASE Card!isActive(v) = Card!isActive(view)
  BY <1>1 DEF Card!Render
<1>2. CASE Card!isActive(v) # Card!isActive(view)
  <2> DEFINE cancelled == [q \in Polls |-> [polls[q] EXCEPT !.live = FALSE]]
  <2>1. cancelled \in [Polls -> PollType] /\ \A q \in Polls : ~cancelled[q].live
    BY DEF PollType
  <2>2. view' = v /\ timer' = FALSE /\ \E p \in Card!Places(cancelled) : poll' = [cancelled EXCEPT ![p] = Card!Sent(TRUE)]
    BY <1>2 DEF Card!Render
  <2> HIDE DEF cancelled
  <2>3. FreeIdle(cancelled)
    BY <2>1 DEF FreeIdle
  <2>4. PICK p \in Polls : poll' = [cancelled EXCEPT ![p] = Card!Sent(TRUE)]
    BY <2>2, <2>3, PlaceIdle
  <2>5. poll' \in [Polls -> PollType]
    BY <2>1, <2>4, Records
  <2>6. \A q \in Polls : poll'[q] = IF q = p THEN Card!Sent(TRUE) ELSE cancelled[q]
    BY <2>1, <2>4
  <2>7. FreeIdle(poll') /\ \A q \in Polls : poll'[q].live <=> q = p
    BY <2>1, <2>6, Records DEF FreeIdle
  <2> QED
    BY <2>2, <2>5, <2>7 DEF OneAwaited
<1> QED
  BY <1>1, <1>2

LEMMA InitCard ==
    ASSUME Card!Init
    PROVE  CardInv
<1> USE DEF Card!Init, Card!ServerInit
<1>1. Card!ServerTypeOK
  BY EmptySeq DEF Card!ServerTypeOK, Card!RepoStatus
<1>2. PICK p \in Polls : poll = [q \in Polls |-> IF q = p THEN Card!Sent(TRUE) ELSE Card!FreePoll]
  BY PollsExist
<1>3. poll \in [Polls -> PollType]
  BY <1>1, <1>2, Records
<1>4. FreeIdle(poll) /\ \A q \in Polls : poll[q].live <=> q = p
  BY <1>1, <1>2, Records DEF FreeIdle
<1>5. view \in ViewType
  BY <1>1, Records DEF ViewType, Card!RepoStatus
<1>6. list \in [Lists -> ListType]
  BY <1>1, Records
<1>7. trigger \in [sent : BOOLEAN, job : JobShown]
  BY <1>1, Records DEF Card!NoTrigger
<1>8. failures \in 0 .. CardFailures
  BY Assumptions DEF Card!CardAssumption
<1>9. {lastStatus, badge} \subseteq Card!RepoStatus
  BY DEF Card!RepoStatus
<1>10. CardTypes
  BY <1>3, <1>5, <1>6, <1>7, <1>8, <1>9 DEF CardTypes
<1> QED
  BY <1>1, <1>4, <1>10 DEF CardInv, OneAwaited

\* A job the card knows is known when more have been created.
LEMMA MoreJobs ==
    ASSUME Card!ServerTypeOK, Card!ServerTypeOK', Len(jobs') >= Len(jobs), CardTypes, UNCHANGED Card!cardVars
    PROVE  CardTypes'
<1>1. JobShown \subseteq JobShown'
  BY LenProperties DEF Card!ServerTypeOK, JobShown, Card!ShownStatus
<1>2. ViewType \subseteq ViewType' /\ PollType \subseteq PollType' /\ ListType = ListType'
  BY <1>1 DEF ViewType, PollType, ListType, Card!RepoStatus, Card!NotRead
<1>3. poll \in [Polls -> PollType'] /\ trigger \in [sent : BOOLEAN, job : JobShown']
  BY <1>1, <1>2 DEF CardTypes
<1> QED
  BY <1>2, <1>3 DEF CardTypes, Card!cardVars, Card!RepoStatus

LEMMA ServerStep ==
    ASSUME CardInv, Card!Server \/ Card!OtherStarts
    PROVE  CardInv'
<1>1. Card!ServerTypeOK' /\ Len(jobs') >= Len(jobs) /\ UNCHANGED Card!cardVars
  BY StartIndexTypes, WorkTypes, LenProperties DEF CardInv, Card!Server, Card!OtherStarts, Card!ServerTypeOK
<1>2. CardTypes'
  BY <1>1, MoreJobs DEF CardInv
<1> QED
  BY <1>1, <1>2 DEF CardInv, Card!cardVars, FreeIdle, OneAwaited

\* With the server at rest the sets of records stay.
LEMMA ServerRests ==
    ASSUME UNCHANGED Card!serverVars
    PROVE  /\ (Card!ServerTypeOK' <=> Card!ServerTypeOK) /\ JobShown' = JobShown
           /\ ViewType' = ViewType /\ PollType' = PollType /\ ListType' = ListType
  BY DEF Card!serverVars, Card!ServerTypeOK, JobShown, ViewType, PollType, ListType

LEMMA TickStep ==
    ASSUME CardInv, Card!tick
    PROVE  CardInv'
<1> USE DEF Card!tick, CardInv
<1>1. PICK p \in Polls : poll' = [poll EXCEPT ![p] = Card!Sent(TRUE)]
  BY PlaceIdle
<1>2. \A q \in Polls : poll'[q] = IF q = p THEN Card!Sent(TRUE) ELSE poll[q]
  BY <1>1 DEF CardTypes
<1>3. \A q \in Polls : ~poll[q].live
  BY DEF OneAwaited
<1>4. FreeIdle(poll') /\ \A q \in Polls : poll'[q].live <=> q = p
  BY <1>2, <1>3, Records DEF FreeIdle
<1>5. poll' \in [Polls -> PollType]
  BY <1>1, Records DEF CardTypes
<1> QED
  BY <1>4, <1>5, ServerRests DEF CardTypes, OneAwaited

LEMMA ReadStep ==
    ASSUME CardInv, NEW p \in Polls, Card!ReadRow(p) \/ Card!ReadJob(p)
    PROVE  CardInv'
<1> USE DEF CardInv
<1>1. poll' \in [Polls -> PollType] /\ poll'[p].state # "free" /\ poll'[p].live = poll[p].live
        /\ \A q \in Polls : q # p => poll'[q] = poll[q]
  <2>1. CASE Card!ReadRow(p)
    <3>1. row \in Card!RepoStatus /\ row # Card!NotRead
      BY DEF Card!ServerTypeOK, Card!RepoStatus, Card!NotRead
    <3> QED
      BY <2>1, <3>1, ZenonT(60) DEF Card!ReadRow, CardTypes, PollType
  <2>2. CASE Card!ReadJob(p)
    <3>1. Card!Shown(latest) \in JobShown
      BY ShownTypes DEF JobShown
    <3> QED
      BY <2>2, <3>1 DEF Card!ReadJob, CardTypes, PollType
  <2> QED
    BY <2>1, <2>2
<1>2. UNCHANGED <<Card!serverVars, mounted, view, lastStatus, badge, timer, list, trigger, failures>>
  BY DEF Card!ReadRow, Card!ReadJob
<1>3. FreeIdle(poll')
  BY <1>1 DEF FreeIdle
<1>4. \A q \in Polls : poll'[q].live = poll[q].live
  BY <1>1
<1>5. mounted => OneAwaited(poll', timer)
  BY <1>4 DEF OneAwaited
<1> QED
  BY <1>1, <1>2, <1>3, <1>5, ServerRests DEF CardTypes

\* An answer or a failure frees the place; the loop that waited for it has a
\* tick to come.
LEMMA FreedKeeps ==
    ASSUME CardInv, mounted, NEW p \in Polls, NEW polls, polls = [poll EXCEPT ![p] = Card!FreePoll]
    PROVE  /\ polls \in [Polls -> PollType] /\ FreeIdle(polls)
           /\ (timer \/ poll[p].live) \in BOOLEAN /\ OneAwaited(polls, timer \/ poll[p].live)
<1> USE DEF CardInv
<1>1. polls \in [Polls -> PollType]
  BY Records DEF CardTypes
<1>2. \A q \in Polls : polls[q] = IF q = p THEN Card!FreePoll ELSE poll[q]
  BY DEF CardTypes
<1>3. FreeIdle(polls)
  BY <1>2, Records DEF FreeIdle
<1>4. poll[p].live \in BOOLEAN /\ timer \in BOOLEAN
  BY DEF CardTypes, PollType
<1> DEFINE ticks == timer \/ poll[p].live
<1>5. CASE timer
  <2>1. ticks /\ \A q \in Polls : ~polls[q].live
    BY <1>2, <1>5, Records DEF OneAwaited
  <2> QED
    BY <1>1, <1>3, <1>4, <2>1 DEF OneAwaited
<1>6. CASE ~timer
  <2>1. PICK r \in Polls : \A q \in Polls : poll[q].live <=> q = r
    BY <1>6 DEF OneAwaited
  <2>2. CASE r = p
    <3>1. ticks /\ \A q \in Polls : ~polls[q].live
      BY <1>2, <2>1, <2>2, Records
    <3> QED
      BY <1>1, <1>3, <1>4, <3>1 DEF OneAwaited
  <2>3. CASE r # p
    <3>1. ~ticks /\ \A q \in Polls : polls[q].live <=> q = r
      BY <1>2, <1>6, <2>1, <2>3, Records
    <3> QED
      BY <1>1, <1>3, <1>4, <3>1 DEF OneAwaited
  <2> QED
    BY <2>2, <2>3
<1> QED
  BY <1>5, <1>6

LEMMA PollStep ==
    ASSUME CardInv, NEW p \in Polls, Card!PollAnswered(p) \/ Card!PollFails(p)
    PROVE  CardInv'
<1> USE DEF CardInv
<1> DEFINE polls == [poll EXCEPT ![p] = Card!FreePoll]
<1>0. polls \in [Polls -> PollType] /\ FreeIdle(polls)
  <2>1. \A q \in Polls : polls[q] = IF q = p THEN Card!FreePoll ELSE poll[q]
    BY DEF CardTypes
  <2> QED
    BY <2>1, Records DEF FreeIdle, CardTypes
<1>1. CASE Card!PollAnswered(p)
  <2> DEFINE v == [row |-> poll[p].row, job |-> poll[p].job]
  <2>1. UNCHANGED <<Card!serverVars, mounted, badge, trigger, failures>>
    BY <1>1 DEF Card!PollAnswered
  <2>2. CASE mounted
    <3>1. v \in ViewType
      BY <1>1 DEF Card!PollAnswered, CardTypes, PollType, ViewType
    <3>2. Card!Render(v, polls, timer \/ poll[p].live) /\ Card!TellPage(v.row)
      BY <1>1, <2>2 DEF Card!PollAnswered, Card!NextTick
    <3>3. polls \in [Polls -> PollType] /\ FreeIdle(polls)
            /\ (timer \/ poll[p].live) \in BOOLEAN /\ OneAwaited(polls, timer \/ poll[p].live)
      BY <2>2, FreedKeeps
    <3> HIDE DEF polls, v
    <3>4. view' = v /\ poll' \in [Polls -> PollType] /\ timer' \in BOOLEAN /\ FreeIdle(poll') /\ OneAwaited(poll', timer')
      BY <3>1, <3>2, <3>3, RenderKeeps
    <3>5. lastStatus' \in Card!RepoStatus /\ list' \in [Lists -> ListType]
      BY <3>1, <3>2 DEF Card!TellPage, CardTypes, ListType, ViewType
    <3> QED
      BY <2>1, <3>1, <3>4, <3>5, ServerRests DEF CardTypes
  <2>3. CASE ~mounted
    <3>1. poll' = polls /\ UNCHANGED <<view, timer, lastStatus, list>>
      BY <1>1, <2>3 DEF Card!PollAnswered
    <3> HIDE DEF polls
    <3> QED
      BY <1>0, <2>1, <2>3, <3>1, ServerRests DEF CardTypes
  <2> QED
    BY <2>2, <2>3
<1>2. CASE Card!PollFails(p)
  <2>1. poll' = polls /\ failures' \in 0 .. CardFailures
          /\ UNCHANGED <<Card!serverVars, mounted, view, lastStatus, badge, list, trigger>>
    BY <1>2, Assumptions DEF Card!PollFails, CardTypes, Card!CardAssumption
  <2>2. timer' \in BOOLEAN /\ (mounted => timer' = (timer \/ poll[p].live))
    BY <1>2, Zenon DEF Card!PollFails, Card!NextTick
  <2>3. mounted => OneAwaited(poll', timer')
    BY <2>1, <2>2, FreedKeeps
  <2> QED
    BY <1>0, <2>1, <2>2, <2>3, ServerRests DEF CardTypes
<1> QED
  BY <1>1, <1>2

LEMMA ListStep ==
    ASSUME CardInv, NEW l \in Lists, Card!ListRead(l) \/ Card!ListAnswered(l) \/ Card!ListFails(l)
    PROVE  CardInv'
<1> USE DEF CardInv
<1>1. CASE Card!ListRead(l)
  <2>1. row \in Card!RepoStatus /\ row # Card!NotRead
    BY DEF Card!ServerTypeOK, Card!RepoStatus, Card!NotRead
  <2>2. [state |-> "ready", row |-> row] \in ListType
    BY <2>1 DEF ListType
  <2>3. list' \in [Lists -> ListType]
    BY <1>1, <2>2 DEF Card!ListRead, CardTypes
  <2> QED
    BY <1>1, <2>3, ServerRests DEF Card!ListRead, CardTypes
<1>2. CASE Card!ListAnswered(l)
  <2> DEFINE v == [view EXCEPT !.row = list[l].row]
  <2>1. UNCHANGED <<Card!serverVars, mounted, lastStatus, trigger, failures>>
    BY <1>2 DEF Card!ListAnswered
  <2>2. badge' \in Card!RepoStatus /\ list' \in [Lists -> ListType]
    BY <1>2, Records DEF Card!ListAnswered, CardTypes, ListType
  <2>3. v \in ViewType
    BY <1>2 DEF Card!ListAnswered, CardTypes, ListType, ViewType
  <2>4. CASE mounted
    <3>1. Card!Render(v, poll, timer)
      BY <1>2, <2>4 DEF Card!ListAnswered
    <3> HIDE DEF v
    <3>2. view' = v /\ poll' \in [Polls -> PollType] /\ timer' \in BOOLEAN /\ FreeIdle(poll') /\ OneAwaited(poll', timer')
      BY <2>3, <2>4, <3>1, RenderKeeps DEF CardTypes
    <3> QED
      BY <2>1, <2>2, <2>3, <3>2, ServerRests DEF CardTypes
  <2>5. CASE ~mounted
    BY <1>2, <2>1, <2>2, <2>5, ServerRests DEF Card!ListAnswered, CardTypes
  <2> QED
    BY <2>4, <2>5
<1>3. CASE Card!ListFails(l)
  <2>1. poll' \in [Polls -> PollType] /\ FreeIdle(poll')
    BY <1>3, ZenonT(60) DEF Card!ListFails, CardTypes, PollType, FreeIdle
  <2>2. list' \in [Lists -> ListType] /\ failures' \in 0 .. CardFailures
    BY <1>3, Records, Assumptions DEF Card!ListFails, CardTypes, Card!CardAssumption
  <2> QED
    BY <1>3, <2>1, <2>2, ServerRests DEF Card!ListFails, CardTypes
<1> QED
  BY <1>1, <1>2, <1>3

LEMMA TriggerStep ==
    ASSUME CardInv, Card!Click \/ Card!TriggerStep \/ Card!TriggerFails
    PROVE  CardInv'
<1> USE DEF CardInv
<1>1. Card!NoTrigger \in [sent : BOOLEAN, job : JobShown]
  BY Records DEF Card!NoTrigger
<1>2. CASE Card!Click \/ Card!TriggerRefused \/ Card!TriggerFails
  <2>1. trigger' \in [sent : BOOLEAN, job : JobShown]
    BY <1>1, <1>2 DEF Card!Click, Card!TriggerRefused, Card!TriggerFails
  <2>2. UNCHANGED <<Card!serverVars, mounted, view, lastStatus, badge, timer, poll, list>>
    BY <1>2 DEF Card!Click, Card!TriggerRefused, Card!TriggerFails
  <2>3. failures' \in 0 .. CardFailures
    BY <1>2, Assumptions DEF Card!Click, Card!TriggerRefused, Card!TriggerFails, CardTypes, Card!CardAssumption
  <2> QED
    BY <2>1, <2>2, <2>3, ServerRests DEF CardTypes
<1>3. CASE Card!JobCreated
  <2>1. Card!ServerTypeOK' /\ Len(jobs') = Len(jobs) + 1 /\ Len(jobs) \in Nat
    BY <1>3, StartIndexTypes, LenProperties DEF Card!JobCreated, Card!ServerTypeOK
  <2>2. UNCHANGED <<mounted, view, lastStatus, badge, timer, poll, list, failures>>
    BY <1>3 DEF Card!JobCreated
  <2>3. JobShown \subseteq JobShown' /\ [n |-> Len(jobs'), status |-> "pending"] \in JobShown'
    BY <2>1 DEF JobShown, Card!ShownStatus
  <2>4. ViewType \subseteq ViewType' /\ PollType \subseteq PollType' /\ ListType = ListType'
    BY <2>3 DEF ViewType, PollType, ListType, Card!RepoStatus, Card!NotRead
  <2>5. trigger' \in [sent : BOOLEAN, job : JobShown']
    <3>1. trigger \in [sent : BOOLEAN, job : JobShown']
      BY <2>3 DEF CardTypes
    <3> QED
      BY <1>3, <2>3, <3>1 DEF Card!JobCreated
  <2>6. poll' \in [Polls -> PollType']
    BY <2>2, <2>4 DEF CardTypes
  <2>7. CardTypes'
    BY <2>2, <2>4, <2>5, <2>6 DEF CardTypes, Card!RepoStatus
  <2> QED
    BY <2>1, <2>2, <2>7 DEF FreeIdle, OneAwaited
<1>4. CASE Card!TriggerAnswered
  <2>1. UNCHANGED <<Card!serverVars, mounted, badge, list, failures>> /\ trigger' = Card!NoTrigger
    BY <1>4 DEF Card!TriggerAnswered
  <2>2. CASE mounted
    <3> DEFINE v == [row |-> "indexing", job |-> trigger.job]
    <3>1. PICK p \in Card!Places(poll) : Card!Render(v, [poll EXCEPT ![p] = Card!Sent(FALSE)], timer)
      BY <1>4, <2>2 DEF Card!TriggerAnswered
    <3> DEFINE polls == [poll EXCEPT ![p] = Card!Sent(FALSE)]
    <3>2. p \in Polls /\ ~poll[p].live
      BY PlaceIdle
    <3>3. polls \in [Polls -> PollType]
      BY Records DEF CardTypes
    <3>4. \A q \in Polls : polls[q] = IF q = p THEN Card!Sent(FALSE) ELSE poll[q]
      BY DEF CardTypes
    <3>5. v \in ViewType
      BY DEF CardTypes, ViewType, Card!RepoStatus
    <3> HIDE DEF polls, v
    <3>6. \A q \in Polls : polls[q].live <=> poll[q].live
      BY <3>2, <3>4, Records
    <3>7. FreeIdle(polls) /\ OneAwaited(polls, timer)
      BY <2>2, <3>4, <3>6, Records DEF FreeIdle, OneAwaited
    <3>8. Card!Render(v, polls, timer)
      BY <3>1 DEF polls, v
    <3>9. view' = v /\ poll' \in [Polls -> PollType] /\ timer' \in BOOLEAN /\ FreeIdle(poll') /\ OneAwaited(poll', timer')
      BY <3>3, <3>5, <3>7, <3>8, RenderKeeps DEF CardTypes
    <3>10. lastStatus' \in Card!RepoStatus
      BY <1>4, <2>2 DEF Card!TriggerAnswered, Card!RepoStatus
    <3> QED
      BY <1>1, <2>1, <3>5, <3>9, <3>10, ServerRests DEF CardTypes
  <2>3. CASE ~mounted
    BY <1>1, <1>4, <2>1, <2>3, ServerRests DEF Card!TriggerAnswered, CardTypes
  <2> QED
    BY <2>2, <2>3
<1> QED
  BY <1>2, <1>3, <1>4 DEF Card!TriggerStep

LEMMA CardStep ==
    ASSUME CardInv, Card!Next
    PROVE  CardInv'
  BY TickStep, ReadStep, PollStep, ListStep, TriggerStep, ServerStep
  DEF Card!Next, Card!PollStep, Card!ListStep

LEMMA CardStutters ==
    ASSUME CardInv, UNCHANGED <<serverVars, cardVars, failures>>
    PROVE  CardInv'
<1>1. UNCHANGED Card!serverVars
  BY DEF serverVars, Card!serverVars
<1> QED
  BY <1>1, ServerRests DEF CardInv, CardTypes, cardVars, FreeIdle, OneAwaited

\* Exactly one thing is awaited.
LEMMA LoopIsAlive ==
    ASSUME CardInv
    PROVE  Card!TypeOK /\ Card!LoopAlive
<1> USE DEF CardInv
<1> DEFINE awaited == {p \in Polls : poll[p].live}
<1>1. Card!TypeOK
  BY CardTypesAre
<1>2. CASE mounted /\ timer
  <2>1. awaited = {}
    BY <1>2 DEF OneAwaited
  <2>2. Card!Cardinality(awaited) = 0
    BY <2>1, OneCardinality, FS_EmptySet
  <2> QED
    BY <1>1, <1>2, <2>2 DEF Card!LoopAlive
<1>3. CASE mounted /\ ~timer
  <2>1. PICK p \in Polls : \A q \in Polls : poll[q].live <=> q = p
    BY <1>3 DEF OneAwaited
  <2>2. awaited = {p}
    BY <2>1
  <2>3. Card!Cardinality(awaited) = 1
    BY <2>2, OneCardinality, FS_Singleton
  <2> QED
    BY <1>1, <1>3, <2>3 DEF Card!LoopAlive
<1>4. CASE ~mounted
  BY <1>1, <1>4 DEF Card!LoopAlive
<1> QED
  BY <1>2, <1>3, <1>4 DEF CardTypes

-----------------------------------------------------------------------------
(* The button of a repository's page.                                       *)

\* The server is the same, however many jobs there may be.
LEMMA SameServer ==
    /\ Button!ServerTypeOK <=> Card!ServerTypeOK
    /\ Button!Work => Card!Work
    /\ Button!Shown(latest) = Card!Shown(latest)
    /\ Lone!ServerTypeOK <=> Card!ServerTypeOK
    /\ Lone!Work => Card!Work
    /\ Lone!Shown(latest) = Card!Shown(latest)
<1>1. Button!ServerTypeOK <=> Card!ServerTypeOK
  BY DEF Button!ServerTypeOK, Card!ServerTypeOK, Button!RepoStatus, Card!RepoStatus, Button!JobStatus, Card!JobStatus
<1>2. Lone!ServerTypeOK <=> Card!ServerTypeOK
  BY DEF Lone!ServerTypeOK, Card!ServerTypeOK, Lone!RepoStatus, Card!RepoStatus, Lone!JobStatus, Card!JobStatus
<1>3. Button!Work => Card!Work
  BY Zenon DEF Button!Work, Button!Run, Button!CommitRow, Button!CommitJob, Button!SaveJob,
     Card!Work, Card!Run, Card!CommitRow, Card!CommitJob, Card!SaveJob
<1>4. Lone!Work => Card!Work
  BY Zenon DEF Lone!Work, Lone!Run, Lone!CommitRow, Lone!CommitJob, Lone!SaveJob,
     Card!Work, Card!Run, Card!CommitRow, Card!CommitJob, Card!SaveJob
<1>5. Button!Shown(latest) = Card!Shown(latest) /\ Lone!Shown(latest) = Card!Shown(latest)
  BY DEF Button!Shown, Lone!Shown, Card!Shown, Button!None, Lone!None, Card!None
<1> QED
  BY <1>1, <1>2, <1>3, <1>4, <1>5

LEMMA CreatedTypes ==
    ASSUME Card!ServerTypeOK, jobs' = Append(jobs, "pending"), latest' = Len(jobs'), row' = "indexing"
    PROVE  Card!ServerTypeOK' /\ Len(jobs') = Len(jobs) + 1
  BY AppendProperties, LenProperties DEF Card!ServerTypeOK, Card!RepoStatus, Card!JobStatus

ButtonTypes ==
    /\ page \in Card!RepoStatus \cup {"none"}
    /\ indexing \in BOOLEAN /\ kicked \in BOOLEAN /\ born \in BOOLEAN
    /\ post \in {"no", "sent", "created"}
    /\ chain \in {"no", "timer", "sent", "row", "ready"}
    /\ readRow \in Card!RepoStatus \cup {"none"}
    /\ readJob \in JobShown
    /\ failures \in 0 .. ButtonFailures

ButtonInv == Card!ServerTypeOK /\ ButtonTypes /\ Button!SpinnerBacked

LEMMA ButtonTypesAre ==
    Card!ServerTypeOK /\ ButtonTypes => Button!TypeOK
  BY SameServer DEF Button!TypeOK, ButtonTypes, Button!NotYet, Button!RepoStatus, Card!RepoStatus,
                    Button!ShownStatus, Card!ShownStatus, JobShown

LEMMA InitButton ==
    ASSUME Button!Init
    PROVE  ButtonInv
<1> USE DEF Button!Init, Button!ServerInit
<1>1. Card!ServerTypeOK
  BY EmptySeq DEF Card!ServerTypeOK, Card!RepoStatus
<1>2. readJob \in JobShown
  BY <1>1, Records DEF Button!None, Card!None
<1>3. failures \in 0 .. ButtonFailures
  BY Assumptions DEF Button!ButtonAssumption
<1>4. ButtonTypes
  BY <1>2, <1>3 DEF ButtonTypes, Button!NotYet
<1> QED
  BY <1>1, <1>4 DEF ButtonInv, Button!SpinnerBacked

\* A spinner is begun with a poll, or with the page.
LEMMA ButtonStep ==
    ASSUME ButtonInv, Button!Next
    PROVE  ButtonInv'
<1> USE DEF ButtonInv, Button!SpinnerBacked
<1>1. Card!ServerTypeOK' /\ Len(jobs') >= Len(jobs)
  <2>1. Len(jobs) \in Nat
    BY LenProperties DEF Card!ServerTypeOK
  <2>2. CASE Button!JobCreated \/ Button!OtherStarts
    BY <2>1, <2>2, CreatedTypes DEF Button!JobCreated, Button!OtherStarts, Button!StartIndex
  <2>3. CASE Button!Server
    BY <2>1, <2>3, SameServer, WorkTypes DEF Button!Server
  <2>4. CASE ~(Button!JobCreated \/ Button!OtherStarts \/ Button!Server)
    <3>1. UNCHANGED <<row, jobs, latest>>
      BY <2>4 DEF Button!Next, Button!ButtonStep, Button!Mount, Button!handleIndex, Button!Kick, Button!KickFails,
                  Button!ReadRow, Button!ReadJob, Button!PollAnswered, Button!tick, Button!PollFails, Button!serverVars
    <3> QED
      BY <2>1, <3>1 DEF Card!ServerTypeOK
  <2> QED
    BY <2>2, <2>3, <2>4
<1>2. JobShown \subseteq JobShown'
  BY <1>1, LenProperties DEF Card!ServerTypeOK, JobShown, Card!ShownStatus
<1>3. readJob \in JobShown'
  BY <1>2 DEF ButtonTypes
<1>4. CASE Button!Mount
  <2>1. indexing' \in BOOLEAN /\ born' \in BOOLEAN /\ (indexing' => born')
    BY <1>4, Zenon DEF Button!Mount
  <2>2. page' \in Card!RepoStatus
    BY <1>4 DEF Button!Mount, Card!ServerTypeOK
  <2> QED
    BY <1>1, <1>3, <1>4, <2>1, <2>2 DEF Button!Mount, ButtonTypes, Card!RepoStatus
<1>5. CASE Button!handleIndex \/ Button!JobCreated \/ Button!Kick \/ Button!tick
  <2>1. UNCHANGED <<page, readRow, readJob, born, failures>>
    BY <1>5 DEF Button!handleIndex, Button!JobCreated, Button!Kick, Button!tick
  <2>2. indexing' \in BOOLEAN /\ kicked' \in BOOLEAN
          /\ post' \in {"no", "sent", "created"} /\ chain' \in {"no", "timer", "sent", "row", "ready"}
    BY <1>5 DEF Button!handleIndex, Button!JobCreated, Button!Kick, Button!StartPolling, Button!tick, ButtonTypes
  <2>3. indexing' => chain' # "no" \/ born
    BY <1>5 DEF Button!handleIndex, Button!JobCreated, Button!Kick, Button!StartPolling, Button!tick
  <2>4. ButtonTypes'
    BY <1>3, <2>1, <2>2 DEF ButtonTypes, Card!RepoStatus
  <2> QED
    BY <1>1, <2>1, <2>3, <2>4
<1>6. CASE Button!KickFails \/ Button!PollFails
  <2>1. failures' \in 0 .. ButtonFailures
    BY <1>6, Assumptions DEF Button!KickFails, Button!PollFails, ButtonTypes, Button!ButtonAssumption
  <2>2. UNCHANGED <<page, readRow, readJob, born, kicked>> /\ post' \in {post, "no"} /\ chain' \in {chain, "no"}
    BY <1>6 DEF Button!KickFails, Button!PollFails
  <2>3. indexing' \in BOOLEAN /\ (indexing' => indexing /\ chain' = chain)
    <3>1. CASE Button!KickFails
      BY <3>1 DEF Button!KickFails, ButtonTypes
    <3>2. CASE Button!PollFails
      BY <3>2 DEF Button!PollFails, Button!StopSpinning
    <3> QED
      BY <1>6, <3>1, <3>2
  <2>4. ButtonTypes'
    BY <1>3, <2>1, <2>2, <2>3 DEF ButtonTypes, Card!RepoStatus
  <2> QED
    BY <1>1, <2>2, <2>3, <2>4
<1>7. CASE Button!ReadRow
  BY <1>1, <1>3, <1>7 DEF Button!ReadRow, ButtonTypes, Card!ServerTypeOK, Card!RepoStatus
<1>8. CASE Button!ReadJob
  <2>1. readJob' \in JobShown
    BY <1>8, SameServer, ShownTypes DEF Button!ReadJob, JobShown
  <2>2. readJob' \in JobShown'
    BY <1>2, <2>1
  <2> QED
    BY <1>1, <1>8, <2>2 DEF Button!ReadJob, ButtonTypes, Card!RepoStatus
<1>9. CASE Button!PollAnswered
  <2>1. indexing' \in BOOLEAN
    BY <1>9, Zenon DEF Button!PollAnswered, Button!active
  <2>2. indexing' => chain' = "timer"
    BY <1>9 DEF Button!PollAnswered
  <2>3. page' \in Card!RepoStatus \cup {"none"} /\ kicked' \in BOOLEAN /\ chain' \in {"no", "timer"}
    BY <1>9 DEF Button!PollAnswered, Button!Settles, ButtonTypes, Card!ServerTypeOK
  <2>4. UNCHANGED <<post, readRow, readJob, born, failures>>
    BY <1>9 DEF Button!PollAnswered
  <2>5. ButtonTypes'
    BY <1>3, <2>1, <2>3, <2>4 DEF ButtonTypes, Card!RepoStatus
  <2> QED
    BY <1>1, <2>2, <2>5
<1>10. CASE Button!Server \/ Button!OtherStarts
  BY <1>1, <1>3, <1>10 DEF Button!Server, Button!OtherStarts, Button!buttonVars, ButtonTypes, Card!RepoStatus
<1> QED
  BY <1>4, <1>5, <1>6, <1>7, <1>8, <1>9, <1>10 DEF Button!Next, Button!ButtonStep

\* Of the only job: a chain of polls is begun when it is there, and what a
\* poll has read of it is true from then on.
LoneInv ==
    /\ Card!ServerTypeOK
    /\ Len(jobs) <= 1 /\ latest = Len(jobs)
    /\ post = "created" \/ chain # "no" => Len(jobs) = 1
    /\ chain = "ready" =>
          \/ readJob.status \in {"pending", "running"}
          \/ jobs[latest] \in Lone!Ended

LEMMA InitLone ==
    ASSUME Lone!Init
    PROVE  LoneInv
  BY EmptySeq DEF Lone!Init, Lone!ServerInit, LoneInv, Card!ServerTypeOK, Card!RepoStatus

\* A save points the repository at the only job, and an ended job is left.
LEMMA LoneWork ==
    ASSUME LoneInv, Lone!Work
    PROVE  /\ Card!ServerTypeOK' /\ Len(jobs') = Len(jobs) /\ Len(jobs) = 1 /\ latest' = 1 /\ latest = 1
           /\ jobs[1] \in Lone!Ended => jobs'[1] \in Lone!Ended
<1> USE DEF LoneInv
<1>1. PICK n \in DOMAIN jobs : Lone!Run(n) \/ Lone!CommitRow(n) \/ Lone!CommitJob(n)
  BY DEF Lone!Work
<1>2. n \in 1 .. Len(jobs) /\ Len(jobs) \in Nat /\ DOMAIN jobs = 1 .. Len(jobs)
  BY LenProperties DEF Card!ServerTypeOK
<1>3. n = 1 /\ Len(jobs) = 1
  BY <1>2
<1>4. Card!ServerTypeOK' /\ Len(jobs') = Len(jobs)
  BY SameServer, WorkTypes
<1>5. latest' = 1 /\ latest = 1
  BY <1>1, <1>3 DEF Lone!Run, Lone!CommitRow, Lone!CommitJob, Lone!SaveJob
<1>6. jobs[1] \notin Lone!Ended
  BY <1>1, <1>3 DEF Lone!Run, Lone!CommitRow, Lone!CommitJob, Lone!Ended
<1> QED
  BY <1>3, <1>4, <1>5, <1>6

LEMMA LoneStep ==
    ASSUME LoneInv, Lone!Next
    PROVE  LoneInv' /\ Lone!RefreshedAtEnd
<1> USE DEF LoneInv
<1>0. Len(jobs) \in Nat
  BY LenProperties DEF Card!ServerTypeOK
<1>1. CASE Lone!Mount \/ Lone!handleIndex \/ Lone!KickFails \/ Lone!PollFails \/ Lone!tick \/ Lone!ReadRow
  <2>1. UNCHANGED <<row, jobs, latest, kicked>>
    BY <1>1 DEF Lone!Mount, Lone!handleIndex, Lone!KickFails, Lone!PollFails, Lone!tick, Lone!ReadRow, Lone!serverVars
  <2>2. post' = "created" => post = "created"
    BY <1>1 DEF Lone!Mount, Lone!handleIndex, Lone!KickFails, Lone!PollFails, Lone!tick, Lone!ReadRow
  <2>3. (chain' # "no" => chain # "no") /\ (chain' = "ready" => chain = "ready" /\ readJob' = readJob)
    BY <1>1 DEF Lone!Mount, Lone!handleIndex, Lone!KickFails, Lone!PollFails, Lone!tick, Lone!ReadRow
  <2> QED
    BY <2>1, <2>2, <2>3 DEF Card!ServerTypeOK, Lone!RefreshedAtEnd
<1>2. CASE Lone!JobCreated \/ Lone!OtherStarts
  <2>1. Len(jobs) = 0 /\ Card!ServerTypeOK' /\ Len(jobs') = 1 /\ latest' = 1
    BY <1>0, <1>2, CreatedTypes, SMTT(30) DEF Lone!JobCreated, Lone!OtherStarts, Lone!StartIndex
  <2>2. chain = "no" /\ chain' = "no" /\ kicked' = kicked
    BY <1>2, <2>1 DEF Lone!JobCreated, Lone!OtherStarts, Lone!buttonVars
  <2> QED
    BY <2>1, <2>2 DEF Lone!RefreshedAtEnd
<1>3. CASE Lone!Kick
  BY <1>3 DEF Lone!Kick, Lone!StartPolling, Lone!serverVars, Card!ServerTypeOK, Lone!RefreshedAtEnd
<1>4. CASE Lone!ReadJob
  <2>1. UNCHANGED <<row, jobs, latest, kicked, post>> /\ chain = "row" /\ chain' = "ready" /\ readJob' = Lone!Shown(latest)
    BY <1>4 DEF Lone!ReadJob, Lone!serverVars
  <2>2. latest = 1 /\ jobs[1] \in Card!JobStatus
    BY <2>1, ElementOfSeq DEF Card!ServerTypeOK
  <2>3. readJob'.status \in {"pending", "running"} \/ jobs[latest] \in Lone!Ended
    BY <2>1, <2>2 DEF Lone!Shown, Lone!Ended, Card!JobStatus
  <2> QED
    BY <2>1, <2>3 DEF Card!ServerTypeOK, Lone!RefreshedAtEnd
<1>5. CASE Lone!PollAnswered
  <2>1. UNCHANGED <<row, jobs, latest, post>> /\ chain = "ready" /\ chain' \in {"no", "timer"}
    BY <1>5 DEF Lone!PollAnswered, Lone!serverVars, Lone!Settles
  <2>2. kicked /\ ~kicked' => readJob.status \notin {"running", "pending"}
    BY <1>5 DEF Lone!PollAnswered, Lone!active
  <2> QED
    BY <2>1, <2>2 DEF Card!ServerTypeOK, Lone!RefreshedAtEnd
<1>6. CASE Lone!Server
  <2>1. UNCHANGED <<post, chain, kicked, readJob>>
    BY <1>6 DEF Lone!Server, Lone!buttonVars
  <2> QED
    BY <1>6, <2>1, LoneWork DEF Lone!Server, Lone!RefreshedAtEnd
<1> QED
  BY <1>1, <1>2, <1>3, <1>4, <1>5, <1>6 DEF Lone!Next, Lone!ButtonStep

-----------------------------------------------------------------------------
(* The workspace provider and the chat's scope.                             *)

CallType == [kind : View!Kinds, of : Workspaces \cup {View!NoWs}, ready : BOOLEAN,
             answer : (SUBSET Workspaces) \cup (SUBSET Repos), pick : Workspaces \cup {View!NoWs}]

ViewTypes ==
    /\ created \subseteq Workspaces /\ connected \subseteq Repos
    /\ workspaces \subseteq created /\ selected \in created \cup {View!NoWs}
    /\ stored \in Workspaces \cup {View!NoWs}
    /\ repositories \subseteq Repos
    /\ loading \in BOOLEAN /\ reposLoading \in BOOLEAN /\ warned \in BOOLEAN
    /\ overlap \in BOOLEAN /\ lost \in BOOLEAN
    /\ call \in [Calls -> CallType]
    /\ moves \in 0 .. MaxMoves /\ failures \in 0 .. ViewFailures

\* What a request carries is there, and what it was answered is of what it
\* carries: its workspaces are listed, its repositories are of its workspace.
CallOK(q, made) ==
    /\ {q.of, q.pick} \subseteq made \cup {View!NoWs}
    /\ q.kind \in {"workspaces", "refresh"} /\ q.ready =>
          q.answer \subseteq made /\ {q.of, q.pick} \subseteq q.answer \cup {View!NoWs}
    /\ q.kind = "repos" /\ q.ready => q.answer \subseteq Repos /\ \A r \in q.answer : Owner[r] = q.of
    /\ q.kind = "connect" => q.answer \subseteq Repos

CallsOK == \A c \in Calls : CallOK(call[c], created)

\* The selection is listed, unless the list could not be loaded.
Listed == warned \/ selected \in workspaces

\* What a request that is alone in flight will leave right.
AloneOK(q) ==
    /\ q.kind = "workspaces" => repositories = {}
    /\ q.kind = "refresh" => q.of = selected
    /\ q.kind = "connect" => q.of = selected /\ View!Belong(repositories) /\ Listed
    /\ q.kind = "repos" => /\ q.of = selected /\ Listed
                           /\ warned \/ q.pick \in workspaces \cup {View!NoWs}

Alone ==
    ~overlap =>
        /\ \A c, d \in Calls : call[c].kind # "free" /\ call[d].kind # "free" => c = d
        /\ (\A c \in Calls : call[c].kind = "free") => View!Belong(repositories) /\ Listed
        /\ \A c \in Calls : AloneOK(call[c])

Scoped == scope \subseteq repositories

ViewInv == ViewTypes /\ CallsOK /\ Scoped /\ View!SpinnerBacked /\ Alone

LEMMA ViewConstants ==
    /\ Workspaces \subseteq Nat /\ View!NoWs \notin Workspaces /\ Existing \subseteq Workspaces
    /\ Owner \in [Repos -> Workspaces] /\ IsFiniteSet(Calls)
    /\ MaxMoves \in Nat /\ ViewFailures \in Nat
<1>1. \A S : View!IsFiniteSet(S) <=> IsFiniteSet(S)
  BY Zenon DEF View!IsFiniteSet, IsFiniteSet
<1> QED
  BY <1>1, Assumptions DEF View!ConstantsAssumption, View!NoWs

\* The least of a set of numbers is one of them.
LEMMA MinIsMember ==
    ASSUME NEW S \in SUBSET Nat, S # {}
    PROVE  View!Min(S) \in S
<1>1. \E x \in S : \A y \in S : ~(<<y, x>> \in OpToRel(<, Nat))
  BY NatLessThanWellFounded, WFMin, Zenon
<1>2. \A x, y \in S : <<y, x>> \in OpToRel(<, Nat) <=> y < x
  BY DEF OpToRel
<1>3. PICK x \in S : \A y \in S : ~(<<y, x>> \in OpToRel(<, Nat))
  BY <1>1
<1>4. \A y \in S : ~(y < x)
  BY <1>2, <1>3
<1>5. \A y \in S : x <= y
  BY <1>4
<1> QED
  BY <1>5 DEF View!Min

LEMMA ResolvedIsListed ==
    ASSUME NEW l \in SUBSET Workspaces
    PROVE  View!resolveSelectedId(l) \in l \/ (l = {} /\ View!resolveSelectedId(l) = View!NoWs)
  BY ViewConstants, MinIsMember DEF View!resolveSelectedId

\* Requests that do not overlap are one at most.
LEMMA NoTwo ==
    ASSUME NEW S \in SUBSET Calls, ~(View!Cardinality(S) > 1), NEW c \in S, NEW d \in S
    PROVE  c = d
<1> SUFFICES ASSUME c # d PROVE FALSE
  OBVIOUS
<1>1. IsFiniteSet(S) /\ IsFiniteSet({c}) /\ Cardinality({c}) = 1
  BY ViewConstants, FS_Subset, FS_Singleton
<1>2. IsFiniteSet({c} \cup {d}) /\ Cardinality({c} \cup {d}) = 2
  <2>1. d \notin {c}
    OBVIOUS
  <2>2. Cardinality({c} \cup {d}) = Cardinality({c}) + 1
    BY <1>1, <2>1, FS_AddElement, Zenon
  <2>3. IsFiniteSet({c} \cup {d})
    BY <1>1, FS_AddElement, Zenon
  <2> QED
    BY <1>1, <2>2, <2>3
<1>3. Cardinality({c} \cup {d}) <= Cardinality(S)
  BY <1>1, FS_Subset
<1>4. Cardinality(S) \in Nat
  BY <1>1, FS_CardinalityType
<1> QED
  BY <1>2, <1>3, <1>4, OneCardinality

\* What a step is told by the account of overlaps.
LEMMA WatchSays ==
    ASSUME NEW restart \in BOOLEAN, View!Watch(restart)
    PROVE  /\ overlap' \in BOOLEAN
           /\ ~overlap' =>
                /\ \A c, d \in Calls : call'[c].kind # "free" /\ call'[d].kind # "free" => c = d
                /\ ~overlap \/ restart
<1> DEFINE S == {c \in Calls : call'[c].kind # "free"}
<1>1. overlap' \in BOOLEAN
  BY Zenon DEF View!Watch
<1>2. ASSUME ~overlap' PROVE ~(View!Cardinality(S) > 1) /\ (~overlap \/ restart)
  BY <1>2 DEF View!Watch
<1>3. ASSUME ~overlap', NEW c \in S, NEW d \in S PROVE c = d
  <2> HIDE DEF S
  <2>1. S \in SUBSET Calls
    BY DEF S
  <2> QED
    BY <1>2, <1>3, <2>1, NoTwo
<1> QED
  BY <1>1, <1>2, <1>3

LEMMA Requests ==
    /\ View!Free \in CallType /\ View!Free.kind = "free"
    /\ \A made : CallOK(View!Free, made)
    /\ \A kind \in View!Kinds, w, pick \in Workspaces \cup {View!NoWs} :
          /\ View!Request(kind, w, pick) \in CallType
          /\ View!Request(kind, w, pick).kind = kind /\ View!Request(kind, w, pick).of = w
          /\ View!Request(kind, w, pick).pick = pick
          /\ \A made : {w, pick} \subseteq made \cup {View!NoWs} => CallOK(View!Request(kind, w, pick), made)
<1>1. View!Free \in CallType
  BY DEF View!Free, View!Request, CallType, View!Kinds
<1>2. \A kind \in View!Kinds, w, pick \in Workspaces \cup {View!NoWs} :
          View!Request(kind, w, pick) = [kind |-> kind, of |-> w, ready |-> FALSE, answer |-> {}, pick |-> pick]
  BY DEF View!Request
<1>3. \A kind \in View!Kinds, w, pick \in Workspaces \cup {View!NoWs} : View!Request(kind, w, pick) \in CallType
  <2> TAKE kind \in View!Kinds, w, pick \in Workspaces \cup {View!NoWs}
  <2> DEFINE Answers == (SUBSET Workspaces) \cup (SUBSET Repos)
  <2>1. View!Request(kind, w, pick) = [kind |-> kind, of |-> w, ready |-> FALSE, answer |-> {}, pick |-> pick]
    BY <1>2
  <2> HIDE DEF Answers
  <2>2. [kind |-> kind, of |-> w, ready |-> FALSE, answer |-> {}, pick |-> pick]
           \in [kind : View!Kinds, of : Workspaces \cup {View!NoWs}, ready : BOOLEAN,
                answer : Answers, pick : Workspaces \cup {View!NoWs}]
    <3>1. {} \in Answers
      BY DEF Answers
    <3> QED
      BY <3>1
  <2> QED
    BY <2>1, <2>2 DEF CallType, Answers
<1>4. \A made : \A kind \in View!Kinds, w, pick \in Workspaces \cup {View!NoWs} :
          {w, pick} \subseteq made \cup {View!NoWs} => CallOK(View!Request(kind, w, pick), made)
  BY <1>2 DEF CallOK
<1>5. \A made : CallOK(View!Free, made)
  BY DEF View!Free, View!Request, CallOK
<1>6. View!Free.kind = "free"
  BY DEF View!Free, View!Request
<1> QED
  BY <1>1, <1>2, <1>3, <1>4, <1>5, <1>6

\* A new workspace takes nothing from what requests carry.
LEMMA MoreMade ==
    ASSUME NEW q, NEW made, NEW more, made \subseteq more, CallOK(q, made)
    PROVE  CallOK(q, more)
  BY DEF CallOK

\* A request begun leaves the others as they are.
LEMMA BeginIs ==
    ASSUME NEW base \in [Calls -> CallType], NEW q \in CallType, View!Begin(base, q)
    PROVE  \E d \in Calls : /\ base[d].kind = "free" /\ call' \in [Calls -> CallType]
                            /\ \A c \in Calls : call'[c] = IF c = d THEN q ELSE base[c]
  BY DEF View!Begin

LEMMA RenderIs ==
    ASSUME NEW base \in [Calls -> CallType], \A c \in Calls : CallOK(base[c], created),
           NEW w \in created \cup {View!NoWs}, created \subseteq Workspaces,
           NEW repos \in SUBSET Repos, NEW spin,
           View!Render(base, w, repos, spin)
    PROVE  /\ selected' = w /\ repositories' \in {repos, {}} /\ scope' \subseteq repositories'
           /\ call' \in [Calls -> CallType] /\ \A c \in Calls : CallOK(call'[c], created)
           /\ reposLoading' \in {spin, TRUE}
           /\ \/ w \in {selected, View!NoWs} /\ call' = base /\ reposLoading' = spin
              \/ /\ w \notin {selected, View!NoWs}
                 /\ \E d \in Calls :
                       /\ base[d].kind = "free"
                       /\ call'[d].kind = "repos" /\ call'[d].of = w /\ call'[d].pick = View!NoWs
                       /\ \A c \in Calls : c # d => call'[c] = base[c]
<1>1. selected' = w
  BY DEF View!Render
<1>2. repositories' \in {repos, {}} /\ scope' \subseteq repositories'
  BY DEF View!Render, View!setRepositories, View!ScopeOf
<1>3. CASE w \in {selected, View!NoWs}
  <2>1. call' = base /\ reposLoading' = spin
    BY <1>3 DEF View!Render
  <2> QED
    BY <1>1, <1>2, <1>3, <2>1
<1>4. CASE w \notin {selected, View!NoWs}
  <2> DEFINE q == View!Request("repos", w, View!NoWs)
  <2>1. View!Begin(base, q) /\ reposLoading' = TRUE
    BY <1>4 DEF View!Render, View!Effect
  <2>2. q \in CallType /\ q.kind = "repos" /\ q.of = w /\ q.pick = View!NoWs /\ CallOK(q, created)
    BY Requests DEF View!Kinds
  <2> HIDE DEF q
  <2>3. PICK d \in Calls : /\ base[d].kind = "free" /\ call' \in [Calls -> CallType]
                           /\ \A c \in Calls : call'[c] = IF c = d THEN q ELSE base[c]
    BY <2>1, <2>2, BeginIs
  <2> QED
    BY <1>1, <1>2, <1>4, <2>1, <2>2, <2>3
<1> QED
  BY <1>3, <1>4

LEMMA InitView ==
    ASSUME View!Init
    PROVE  ViewInv
<1> USE DEF View!Init
<1>1. PICK c \in Calls : call = [d \in Calls |-> IF d = c THEN View!Request("workspaces", View!NoWs, View!NoWs) ELSE View!Free]
  OBVIOUS
<1>2. call \in [Calls -> CallType] /\ CallsOK
  BY <1>1, Requests DEF View!Kinds, CallsOK
<1>3. call[c].kind = "workspaces" /\ \A d \in Calls : d # c => call[d].kind = "free"
  BY <1>1, Requests DEF View!Kinds
<1>4. ViewTypes
  <2>1. connected \subseteq Repos /\ created \subseteq Workspaces /\ stored \in Workspaces \cup {View!NoWs}
    BY ViewConstants
  <2>2. moves \in 0 .. MaxMoves /\ failures \in 0 .. ViewFailures
    BY ViewConstants
  <2> QED
    BY <1>2, <2>1, <2>2 DEF ViewTypes
<1>5. Alone
  BY <1>3 DEF Alone, AloneOK
<1> QED
  BY <1>2, <1>4, <1>5 DEF ViewInv, Scoped, View!SpinnerBacked

\* What the user does begins a request, alone or beside others.
LEMMA UserStep ==
    ASSUME ViewInv, NEW w \in Workspaces \cup {View!NoWs},
           (w \in Workspaces /\ (View!selectWorkspace(w) \/ View!Create(w))) \/ View!refresh
    PROVE  ViewInv'
<1> USE DEF ViewInv
<1>1. selected \in Workspaces \cup {View!NoWs}
  BY ViewConstants DEF ViewTypes
<1>2. UNCHANGED <<connected, workspaces, warned, lost, failures>> /\ moves' \in 0 .. MaxMoves
  <2>1. View!Move /\ UNCHANGED <<connected, workspaces, warned, lost, failures>>
    BY DEF View!selectWorkspace, View!refresh, View!Create
  <2> QED
    BY <2>1, ViewConstants DEF View!Move, ViewTypes
<1>3. /\ created' \in {created, created \cup {w}} /\ created' \subseteq Workspaces
      /\ loading' \in BOOLEAN /\ stored' \in {stored, w}
  BY DEF View!selectWorkspace, View!refresh, View!Create, ViewTypes
<1>4. PICK q \in CallType :
      /\ View!Begin(call, q) /\ CallOK(q, created')
      /\ selected' = selected \/ (selected' = w /\ w \in workspaces)
      /\ repositories' = repositories /\ scope' \subseteq scope
      /\ reposLoading' \in BOOLEAN /\ (reposLoading' = reposLoading \/ q.kind = "repos")
      /\ q.kind \in {"repos", "refresh"} /\ q.of = selected'
      /\ q.kind = "repos" => selected' = w /\ w \in workspaces /\ q.pick = View!NoWs
  <2>1. CASE w \in Workspaces /\ View!selectWorkspace(w)
    <3>1. PICK q \in CallType : /\ q = View!Request("repos", w, View!NoWs)
                                /\ q.kind = "repos" /\ q.of = w /\ q.pick = View!NoWs
      BY Requests DEF View!Kinds
    <3>2. w \in workspaces /\ w \notin {selected, View!NoWs} /\ View!Render(call, w, repositories, reposLoading)
      BY <2>1, ViewConstants DEF View!selectWorkspace
    <3>3. selected' = w /\ View!Begin(call, q) /\ repositories' = repositories /\ scope' = scope \cap repositories
             /\ reposLoading' = TRUE
      BY <3>1, <3>2 DEF View!Render, View!Effect, View!setRepositories, View!ScopeOf
    <3>4. CallOK(q, created')
      BY <1>3, <3>1, <3>2, Requests DEF View!Kinds, ViewTypes
    <3> QED
      BY <3>1, <3>2, <3>3, <3>4
  <2>2. CASE View!refresh
    <3>1. PICK q \in CallType : /\ q = View!Request("refresh", selected, View!NoWs)
                                /\ q.kind = "refresh" /\ q.of = selected
      BY <1>1, Requests DEF View!Kinds
    <3>2. {selected, View!NoWs} \subseteq created' \cup {View!NoWs}
      BY <1>3 DEF ViewTypes
    <3>3. CallOK(q, created')
      BY <1>1, <3>1, <3>2, Requests DEF View!Kinds
    <3> QED
      BY <2>2, <3>1, <3>3 DEF View!refresh, ViewTypes
  <2>3. CASE w \in Workspaces /\ View!Create(w)
    <3>1. PICK q \in CallType : /\ q = View!Request("refresh", selected, w)
                                /\ q.kind = "refresh" /\ q.of = selected
      BY <1>1, Requests DEF View!Kinds
    <3>2. {selected, w} \subseteq created' \cup {View!NoWs}
      BY <2>3 DEF View!Create, ViewTypes
    <3>3. CallOK(q, created')
      BY <1>1, <3>1, <3>2, Requests DEF View!Kinds
    <3> QED
      BY <2>3, <3>1, <3>3 DEF View!Create, ViewTypes
  <2> QED
    BY <2>1, <2>2, <2>3
<1>5. View!Watch(TRUE)
  BY DEF View!selectWorkspace, View!refresh, View!Create
<1>7. PICK d \in Calls : /\ call[d].kind = "free" /\ call' \in [Calls -> CallType]
                         /\ \A c \in Calls : call'[c] = IF c = d THEN q ELSE call[c]
  BY <1>4, BeginIs DEF ViewTypes
<1>8. ViewTypes'
  BY <1>2, <1>3, <1>4, <1>5, <1>7, WatchSays DEF ViewTypes
<1>9. CallsOK'
  <2>1. \A c \in Calls : CallOK(call[c], created')
    BY <1>3, MoreMade DEF CallsOK
  <2> QED
    BY <1>4, <1>7, <2>1 DEF CallsOK
<1>10. Scoped' /\ View!SpinnerBacked'
  BY <1>4, <1>7 DEF Scoped, View!SpinnerBacked
<1>11. Alone'
  <2> SUFFICES ASSUME ~overlap' PROVE Alone'
    BY DEF Alone
  <2>1. \A c \in Calls : c # d => call'[c].kind = "free"
    BY <1>4, <1>5, <1>7, WatchSays
  <2>2. Listed' \/ q.kind = "refresh"
    BY <1>2, <1>4 DEF Listed
  <2>3. AloneOK(q)'
    BY <1>4, <2>2 DEF AloneOK
  <2>4. \A c \in Calls : AloneOK(call[c])'
    BY <1>7, <2>1, <2>3 DEF AloneOK
  <2> QED
    BY <1>4, <1>7, <2>1, <2>4 DEF Alone
<1> QED
  BY <1>8, <1>9, <1>10, <1>11

LEMMA ConnectStep ==
    ASSUME ViewInv, NEW r \in Repos, View!handleSubmit(r)
    PROVE  ViewInv'
<1> USE DEF ViewInv, View!handleSubmit
<1>1. PICK q \in CallType :
        /\ q = [View!Request("connect", selected, View!NoWs) EXCEPT !.answer = {r}]
        /\ q.kind = "connect" /\ q.of = selected /\ CallOK(q, created)
  <2> DEFINE base == View!Request("connect", selected, View!NoWs)
             q == [base EXCEPT !.answer = {r}]
  <2>1. base \in CallType /\ base.kind = "connect" /\ base.of = selected /\ base.pick = View!NoWs
    BY Requests DEF View!Kinds, ViewTypes
  <2>2. {r} \in (SUBSET Workspaces) \cup (SUBSET Repos)
    OBVIOUS
  <2> HIDE DEF base
  <2>3. q \in CallType /\ q.kind = "connect" /\ q.of = selected /\ q.pick = View!NoWs /\ q.answer = {r}
    BY <2>1, <2>2 DEF CallType
  <2> HIDE DEF q
  <2>4. CallOK(q, created)
    BY <2>3 DEF CallOK, ViewTypes
  <2> QED
    BY <2>3, <2>4 DEF q, base
<1>2. View!Begin(call, q)
  BY <1>1
<1>3. PICK d \in Calls : /\ call[d].kind = "free" /\ call' \in [Calls -> CallType]
                         /\ \A c \in Calls : call'[c] = IF c = d THEN q ELSE call[c]
  BY <1>1, <1>2, BeginIs DEF ViewTypes
<1>4. UNCHANGED <<created, connected, workspaces, selected, repositories, loading, reposLoading, warned, stored, scope, lost, failures>>
        /\ moves' \in 0 .. MaxMoves
  BY ViewConstants DEF View!Move, ViewTypes
<1>5. ViewTypes'
  BY <1>3, <1>4, WatchSays DEF ViewTypes
<1>6. CallsOK' /\ Scoped' /\ View!SpinnerBacked'
  <2>1. CallsOK'
    BY <1>1, <1>3, <1>4 DEF CallsOK
  <2>2. \A c \in Calls : call[c].kind = "repos" => call'[c].kind = "repos"
    BY <1>3
  <2> QED
    BY <1>4, <2>1, <2>2 DEF Scoped, View!SpinnerBacked
<1>7. Alone'
  <2> SUFFICES ASSUME ~overlap' PROVE Alone'
    BY DEF Alone
  <2>1. ~overlap /\ \A c \in Calls : c # d => call'[c].kind = "free"
    BY <1>1, <1>3, WatchSays
  <2>2. View!Belong(repositories) /\ Listed
    BY <1>3, <2>1 DEF Alone
  <2>3. View!Belong(repositories)' /\ Listed'
    BY <1>4, <2>2 DEF View!Belong, Listed
  <2>4. AloneOK(q)'
    BY <1>1, <1>4, <2>3 DEF AloneOK
  <2>5. \A c \in Calls : AloneOK(call[c])'
    BY <1>3, <2>1, <2>4 DEF AloneOK
  <2> QED
    BY <1>1, <1>3, <2>1, <2>5 DEF Alone
<1> QED
  BY <1>5, <1>6, <1>7

LEMMA ToggleStep ==
    ASSUME ViewInv, NEW r \in Repos, View!toggle(r)
    PROVE  ViewInv'
<1> USE DEF ViewInv, View!toggle
<1>1. ViewTypes'
  BY ViewConstants DEF ViewTypes, View!Move
<1>2. CallsOK' /\ View!SpinnerBacked'
  BY DEF CallsOK, View!SpinnerBacked
<1>3. Scoped'
  BY DEF Scoped
<1>4. Alone'
  BY DEF Alone, AloneOK, Listed, View!Belong
<1> QED
  BY <1>1, <1>2, <1>3, <1>4

\* The server answers of what is there.
LEMMA ServeStep ==
    ASSUME ViewInv, NEW c \in Calls, View!Serve(c)
    PROVE  ViewInv'
<1> USE DEF ViewInv
<1>1. UNCHANGED <<created, workspaces, selected, repositories, loading, reposLoading, warned, stored, scope, overlap, lost, moves, failures>>
  BY DEF View!Serve
<1>2. /\ connected' \subseteq Repos
      /\ call' \in [Calls -> CallType]
      /\ call'[c].kind = call[c].kind /\ call'[c].of = call[c].of /\ call'[c].pick = call[c].pick
      /\ CallOK(call'[c], created)
      /\ \A d \in Calls : d # c => call'[d] = call[d]
  <2>0. call[c] \in CallType /\ CallOK(call[c], created)
    BY DEF ViewTypes, CallsOK
  <2>1. CASE call[c].kind = "connect"
    <3>1. call' = [call EXCEPT ![c].ready = TRUE] /\ connected' = connected \cup call[c].answer
      BY <2>1 DEF View!Serve
    <3>2. call[c].answer \subseteq Repos
      BY <2>0, <2>1 DEF CallOK
    <3> DEFINE q == [call[c] EXCEPT !.ready = TRUE]
    <3>3. q \in CallType /\ q.kind = call[c].kind /\ q.of = call[c].of /\ q.pick = call[c].pick /\ q.answer = call[c].answer
      BY <2>0 DEF CallType
    <3>4. call' = [call EXCEPT ![c] = q]
      BY <3>1
    <3> HIDE DEF q
    <3>5. CallOK(q, created)
      BY <2>0, <2>1, <3>3 DEF CallOK
    <3> QED
      BY <3>1, <3>2, <3>3, <3>4, <3>5 DEF ViewTypes
  <2>2. CASE call[c].kind # "connect"
    <3> DEFINE answer == IF call[c].kind = "repos" THEN View!Owned(call[c].of) ELSE created
    <3>1. connected' = connected /\ call' = [call EXCEPT ![c].ready = TRUE, ![c].answer = answer]
      BY <2>2 DEF View!Serve
    <3>2. answer \in (SUBSET Workspaces) \cup (SUBSET Repos)
      BY DEF View!Owned, ViewTypes
    <3>3. call[c].kind = "repos" => answer \subseteq Repos /\ \A r \in answer : Owner[r] = call[c].of
      BY DEF View!Owned, ViewTypes
    <3>4. call[c].kind # "repos" => answer = created
      OBVIOUS
    <3> HIDE DEF answer
    <3> DEFINE q == [call[c] EXCEPT !.ready = TRUE, !.answer = answer]
    <3>5. q \in CallType /\ q.kind = call[c].kind /\ q.of = call[c].of /\ q.pick = call[c].pick /\ q.answer = answer
      BY <2>0, <3>2 DEF CallType
    <3>6. call' = [call EXCEPT ![c] = q]
      BY <3>1 DEF ViewTypes
    <3> HIDE DEF q
    <3>7. CallOK(q, created)
      BY <2>0, <2>2, <3>3, <3>4, <3>5 DEF CallOK
    <3> QED
      BY <3>1, <3>5, <3>6, <3>7 DEF ViewTypes
  <2> QED
    BY <2>1, <2>2
<1>3. \A d \in Calls : call'[d].kind = call[d].kind /\ call'[d].of = call[d].of /\ call'[d].pick = call[d].pick
  BY <1>2
<1>4. ViewTypes'
  BY <1>1, <1>2 DEF ViewTypes
<1>5. CallsOK' /\ Scoped' /\ View!SpinnerBacked'
  BY <1>1, <1>2, <1>3 DEF CallsOK, Scoped, View!SpinnerBacked
<1>6. Alone'
  <2>1. View!Belong(repositories)' = View!Belong(repositories) /\ Listed' = Listed
    BY <1>1 DEF View!Belong, Listed
  <2>2. ASSUME ~overlap, NEW d \in Calls PROVE AloneOK(call[d])'
    BY <1>1, <1>3, <2>1, <2>2 DEF Alone, AloneOK
  <2> QED
    BY <1>1, <1>3, <2>1, <2>2 DEF Alone
<1> QED
  BY <1>4, <1>5, <1>6

\* A load that is over gives its place to what comes after it.
LEMMA PlaceGiven ==
    ASSUME ViewInv, NEW c \in Calls, NEW q \in CallType, CallOK(q, created)
    PROVE  /\ [call EXCEPT ![c] = q] \in [Calls -> CallType]
           /\ \A d \in Calls : CallOK([call EXCEPT ![c] = q][d], created)
           /\ \A d \in Calls : [call EXCEPT ![c] = q][d] = IF d = c THEN q ELSE call[d]
  BY DEF ViewInv, ViewTypes, CallsOK

\* The list of workspaces was loaded, or could not be: w is what is selected
\* for it.  A refresh goes on with the repositories of what was selected.
LEMMA AfterStep ==
    ASSUME ViewInv, NEW c \in Calls, NEW w \in created \cup {View!NoWs},
           call[c].kind \in {"workspaces", "refresh"}, View!AfterWorkspaces(c, w),
           workspaces' \subseteq created, warned' \in BOOLEAN, failures' \in 0 .. ViewFailures,
           warned' \/ w \in workspaces',
           warned' \/ call[c].pick \in workspaces' \cup {View!NoWs},
           call[c].kind = "refresh" /\ call[c].of = selected /\ selected # View!NoWs => w = selected
    PROVE  ViewInv'
<1> USE DEF ViewInv
<1> DEFINE goesOn == call[c].kind = "refresh" /\ call[c].of # View!NoWs
           more == View!Request("repos", call[c].of, call[c].pick)
<1>0. call[c] \in CallType /\ CallOK(call[c], created) /\ created \subseteq Workspaces
  BY DEF ViewTypes, CallsOK
<1>1. UNCHANGED <<created, connected, lost, moves>> /\ loading' = FALSE /\ View!Watch(FALSE)
  BY DEF View!AfterWorkspaces
<1>2. overlap' \in BOOLEAN
        /\ (~overlap' => ~overlap /\ \A a, b \in Calls : call'[a].kind # "free" /\ call'[b].kind # "free" => a = b)
  BY <1>1, WatchSays
<1>3. ~overlap => \A d \in Calls : d # c => call[d].kind = "free"
  BY DEF Alone
<1>4. CASE goesOn
  <2>1. PICK q \in CallType : q = more /\ q.kind = "repos" /\ q.of = call[c].of /\ q.pick = call[c].pick /\ CallOK(q, created)
    <3>1. call[c].of \in Workspaces \cup {View!NoWs} /\ call[c].pick \in Workspaces \cup {View!NoWs}
      BY <1>0 DEF CallType
    <3>2. {call[c].of, call[c].pick} \subseteq created \cup {View!NoWs}
      BY <1>0 DEF CallOK
    <3> QED
      BY <3>1, <3>2, Requests DEF View!Kinds
  <2> DEFINE base == [call EXCEPT ![c] = q]
  <2>2. View!Render(base, w, repositories, TRUE) /\ UNCHANGED stored
    BY <1>4, <2>1 DEF View!AfterWorkspaces
  <2>3. /\ base \in [Calls -> CallType] /\ \A d \in Calls : CallOK(base[d], created)
        /\ \A d \in Calls : base[d] = IF d = c THEN q ELSE call[d]
    BY <2>1, PlaceGiven
  <2> HIDE DEF base
  <2>4. /\ selected' = w /\ repositories' \in {repositories, {}} /\ scope' \subseteq repositories'
        /\ call' \in [Calls -> CallType] /\ \A d \in Calls : CallOK(call'[d], created)
        /\ reposLoading' \in BOOLEAN
        /\ w = selected => call' = base
        /\ call'[c] = q
    <3>1. repositories \in SUBSET Repos /\ TRUE \in BOOLEAN
      BY DEF ViewTypes
    <3>2. /\ selected' = w /\ repositories' \in {repositories, {}} /\ scope' \subseteq repositories'
          /\ call' \in [Calls -> CallType] /\ \A d \in Calls : CallOK(call'[d], created)
          /\ reposLoading' \in {TRUE, TRUE}
          /\ \/ w \in {selected, View!NoWs} /\ call' = base /\ reposLoading' = TRUE
             \/ /\ w \notin {selected, View!NoWs}
                /\ \E d \in Calls :
                      /\ base[d].kind = "free"
                      /\ call'[d].kind = "repos" /\ call'[d].of = w /\ call'[d].pick = View!NoWs
                      /\ \A e \in Calls : e # d => call'[e] = base[e]
      BY <1>0, <2>2, <2>3, <3>1, RenderIs
    <3>3. base[c] = q /\ q.kind # "free"
      BY <2>1, <2>3
    <3>4. call'[c] = q
      BY <3>2, <3>3
    <3> QED
      BY <3>1, <3>2, <3>4
  <2>5. ViewTypes' /\ CallsOK' /\ Scoped' /\ View!SpinnerBacked'
    BY <1>1, <1>2, <2>1, <2>2, <2>4 DEF ViewTypes, CallsOK, Scoped, View!SpinnerBacked
  <2>6. Alone'
    <3> SUFFICES ASSUME ~overlap' PROVE Alone'
      BY DEF Alone
    <3>1. call[c].of = selected /\ w = selected
      BY <1>2, <1>4 DEF Alone, AloneOK
    <3>2. AloneOK(q)'
      BY <2>1, <2>4, <3>1 DEF AloneOK, Listed
    <3>3. \A d \in Calls : d # c => call'[d].kind = "free"
      BY <1>2, <2>1, <2>4
    <3>4. \A d \in Calls : AloneOK(call[d])'
      BY <2>4, <3>2, <3>3 DEF AloneOK
    <3> QED
      BY <1>2, <2>1, <2>4, <3>4 DEF Alone
  <2> QED
    BY <2>5, <2>6
<1>5. CASE ~goesOn
  <2> DEFINE base == [call EXCEPT ![c] = View!Free]
             x == View!Pick(c, w)
             repos == IF call[c].kind = "refresh" THEN {} ELSE repositories
  <2>1. View!Render(base, x, repos, reposLoading) /\ View!Remember(c)
    BY <1>5 DEF View!AfterWorkspaces
  <2>2. /\ base \in [Calls -> CallType] /\ \A d \in Calls : CallOK(base[d], created)
        /\ \A d \in Calls : base[d] = IF d = c THEN View!Free ELSE call[d]
    BY Requests, PlaceGiven
  <2>3. x \in created \cup {View!NoWs} /\ (warned' \/ x \in workspaces')
    BY <1>0 DEF View!Pick, CallOK
  <2>4. repos \in SUBSET Repos /\ (~overlap => repos = {})
    BY DEF ViewTypes, Alone, AloneOK
  <2>5. stored' \in Workspaces \cup {View!NoWs}
    BY <1>0, <2>1 DEF View!Remember, View!Pick, CallType, ViewTypes
  <2> HIDE DEF base, x, repos
  <2>6. /\ selected' = x /\ repositories' \in {repos, {}} /\ scope' \subseteq repositories'
        /\ call' \in [Calls -> CallType] /\ \A d \in Calls : CallOK(call'[d], created)
        /\ reposLoading' \in BOOLEAN
        /\ \/ call' = base /\ reposLoading' = reposLoading
           \/ \E d \in Calls : /\ base[d].kind = "free"
                               /\ call'[d].kind = "repos" /\ call'[d].of = x /\ call'[d].pick = View!NoWs
                               /\ \A e \in Calls : e # d => call'[e] = base[e]
    <3>1. /\ reposLoading \in BOOLEAN /\ repos \in SUBSET Repos /\ x \in created \cup {View!NoWs}
          /\ View!Render(base, x, repos, reposLoading)
      BY <2>1, <2>3, <2>4 DEF ViewTypes
    <3>2. /\ selected' = x /\ repositories' \in {repos, {}} /\ scope' \subseteq repositories'
          /\ call' \in [Calls -> CallType] /\ \A d \in Calls : CallOK(call'[d], created)
          /\ reposLoading' \in {reposLoading, TRUE}
          /\ \/ x \in {selected, View!NoWs} /\ call' = base /\ reposLoading' = reposLoading
             \/ /\ x \notin {selected, View!NoWs}
                /\ \E d \in Calls :
                      /\ base[d].kind = "free"
                      /\ call'[d].kind = "repos" /\ call'[d].of = x /\ call'[d].pick = View!NoWs
                      /\ \A e \in Calls : e # d => call'[e] = base[e]
      BY <1>0, <2>2, <3>1, RenderIs, ZenonT(60)
    <3> QED
      BY <3>1, <3>2
  <2>7. ViewTypes' /\ CallsOK' /\ Scoped'
    BY <1>1, <1>2, <2>3, <2>4, <2>5, <2>6 DEF ViewTypes, CallsOK, Scoped
  <2>8. View!SpinnerBacked'
    <3>1. CASE call' = base /\ reposLoading' = reposLoading
      BY <2>2, <3>1 DEF View!SpinnerBacked
    <3>2. CASE \E d \in Calls : call'[d].kind = "repos"
      BY <3>2 DEF View!SpinnerBacked
    <3> QED
      BY <2>6, <3>1, <3>2
  <2>9. Alone'
    <3> SUFFICES ASSUME ~overlap' PROVE Alone'
      BY DEF Alone
    <3>1. \A d \in Calls : base[d].kind = "free"
      BY <1>2, <1>3, <2>2, Requests
    <3>2. View!Belong(repositories)' /\ Listed'
      BY <1>2, <2>3, <2>4, <2>6 DEF View!Belong, Listed
    <3>3. \A d \in Calls : call'[d].kind = "free"
             \/ (call'[d].kind = "repos" /\ call'[d].of = selected' /\ call'[d].pick = View!NoWs)
      BY <2>6, <3>1
    <3>4. \A d \in Calls : AloneOK(call[d])'
      BY <3>2, <3>3 DEF AloneOK
    <3> QED
      BY <1>2, <3>2, <3>4 DEF Alone
  <2> QED
    BY <2>7, <2>8, <2>9
<1> QED
  BY <1>4, <1>5

LEMMA WorkspacesStep ==
    ASSUME ViewInv, NEW c \in Calls, View!WorkspacesAnswered(c) \/ View!WorkspacesFail(c)
    PROVE  ViewInv'
<1> USE DEF ViewInv
<1>0. CallOK(call[c], created) /\ created \subseteq Workspaces /\ View!NoWs \notin Workspaces
  BY ViewConstants DEF CallsOK, ViewTypes
<1>1. CASE View!WorkspacesAnswered(c)
  <2> DEFINE l == call[c].answer
             w == IF selected \in l THEN selected ELSE View!resolveSelectedId(l)
  <2>1. /\ call[c].kind \in {"workspaces", "refresh"} /\ call[c].ready
        /\ workspaces' = l /\ warned' = (l = {}) /\ View!AfterWorkspaces(c, w) /\ failures' = failures
    BY <1>1 DEF View!WorkspacesAnswered
  <2>2. l \subseteq created /\ {call[c].of, call[c].pick} \subseteq l \cup {View!NoWs}
    BY <1>0, <2>1 DEF CallOK
  <2>3. w \in l \/ (l = {} /\ w = View!NoWs)
    BY <1>0, <2>2, ResolvedIsListed
  <2>4. call[c].of = selected /\ selected # View!NoWs => w = selected
    BY <2>2
  <2>5. warned' \in BOOLEAN /\ (warned' <=> l = {})
    BY <2>1, Zenon
  <2>6. failures' \in 0 .. ViewFailures
    BY <2>1 DEF ViewTypes
  <2> HIDE DEF l, w
  <2> QED
    BY <2>1, <2>2, <2>3, <2>4, <2>5, <2>6, AfterStep
<1>2. CASE View!WorkspacesFail(c)
  <2>1. /\ call[c].kind \in {"workspaces", "refresh"} /\ workspaces' = {} /\ warned' = TRUE
        /\ View!AfterWorkspaces(c, selected) /\ View!Fail
    BY <1>2 DEF View!WorkspacesFail
  <2>2. failures' \in 0 .. ViewFailures
    BY <2>1, ViewConstants DEF View!Fail, ViewTypes
  <2>3. selected \in created \cup {View!NoWs}
    BY DEF ViewTypes
  <2> QED
    BY <2>1, <2>2, <2>3, AfterStep
<1> QED
  BY <1>1, <1>2

LEMMA LoadedStep ==
    ASSUME ViewInv, NEW c \in Calls, View!ReposAnswered(c) \/ View!ReposFail(c)
    PROVE  ViewInv'
<1> USE DEF ViewInv
<1>0. call[c] \in CallType /\ CallOK(call[c], created) /\ created \subseteq Workspaces
  BY DEF ViewTypes, CallsOK
<1>1. PICK repos \in SUBSET Repos, failed \in BOOLEAN :
        View!Loaded(c, repos, failed) /\ \A r \in repos : Owner[r] = call[c].of
  <2>1. CASE View!ReposAnswered(c)
    <3>1. call[c].kind = "repos" /\ call[c].ready /\ View!Loaded(c, call[c].answer, FALSE)
      BY <2>1 DEF View!ReposAnswered, View!Loaded
    <3> QED
      BY <1>0, <3>1 DEF CallOK
  <2>2. CASE View!ReposFail(c)
    <3>1. View!Loaded(c, {}, TRUE) /\ {} \in SUBSET Repos
      BY <2>2 DEF View!ReposFail
    <3> QED
      BY <3>1
  <2> QED
    BY <2>1, <2>2
<1>2. failures' \in 0 .. ViewFailures
  <2>1. View!Fail \/ failures' = failures
    BY DEF View!ReposAnswered, View!ReposFail
  <2> QED
    BY <2>1, ViewConstants DEF View!Fail, ViewTypes
<1> DEFINE base == [call EXCEPT ![c] = View!Free]
           x == View!Pick(c, selected)
<1>3. /\ call[c].kind = "repos" /\ View!Render(base, x, repos, FALSE) /\ View!Remember(c)
      /\ lost' \in BOOLEAN /\ View!Watch(FALSE)
      /\ UNCHANGED <<created, connected, workspaces, loading, warned, moves>>
  BY <1>1 DEF View!Loaded, View!LoadEnds
<1>4. /\ base \in [Calls -> CallType] /\ \A d \in Calls : CallOK(base[d], created)
      /\ \A d \in Calls : base[d] = IF d = c THEN View!Free ELSE call[d]
  BY Requests, PlaceGiven
<1>5. /\ x \in created \cup {View!NoWs}
      /\ x = call[c].pick \/ x = selected
      /\ stored' \in Workspaces \cup {View!NoWs}
  BY <1>0, <1>3 DEF View!Pick, View!Remember, CallOK, CallType, ViewTypes
<1>5a. x = View!NoWs => selected = View!NoWs
  BY DEF View!Pick
<1> HIDE DEF base, x
<1>6. /\ selected' = x /\ repositories' \in {repos, {}} /\ scope' \subseteq repositories'
      /\ call' \in [Calls -> CallType] /\ \A d \in Calls : CallOK(call'[d], created)
      /\ reposLoading' \in BOOLEAN
      /\ \/ x = selected /\ call' = base /\ reposLoading' = FALSE
         \/ \E d \in Calls : /\ base[d].kind = "free"
                             /\ call'[d].kind = "repos" /\ call'[d].of = x /\ call'[d].pick = View!NoWs
                             /\ \A e \in Calls : e # d => call'[e] = base[e]
  <2>1. /\ selected' = x /\ repositories' \in {repos, {}} /\ scope' \subseteq repositories'
        /\ call' \in [Calls -> CallType] /\ \A d \in Calls : CallOK(call'[d], created)
        /\ reposLoading' \in {FALSE, TRUE}
        /\ \/ x \in {selected, View!NoWs} /\ call' = base /\ reposLoading' = FALSE
           \/ /\ x \notin {selected, View!NoWs}
              /\ \E d \in Calls :
                    /\ base[d].kind = "free"
                    /\ call'[d].kind = "repos" /\ call'[d].of = x /\ call'[d].pick = View!NoWs
                    /\ \A e \in Calls : e # d => call'[e] = base[e]
    BY <1>0, <1>3, <1>4, <1>5, RenderIs, ZenonT(60)
  <2> QED
    BY <1>5a, <2>1
<1>7. overlap' \in BOOLEAN
        /\ (~overlap' => ~overlap /\ \A a, b \in Calls : call'[a].kind # "free" /\ call'[b].kind # "free" => a = b)
  BY <1>3, WatchSays
<1>8. ViewTypes' /\ CallsOK' /\ Scoped' /\ View!SpinnerBacked'
  BY <1>2, <1>3, <1>5, <1>6, <1>7 DEF ViewTypes, CallsOK, Scoped, View!SpinnerBacked
<1>9. Alone'
  <2> SUFFICES ASSUME ~overlap' PROVE Alone'
    BY DEF Alone
  <2>1. \A d \in Calls : base[d].kind = "free"
    BY <1>3, <1>4, <1>7, Requests DEF Alone
  <2>2. call[c].of = selected /\ Listed /\ (warned \/ call[c].pick \in workspaces \cup {View!NoWs})
    BY <1>3, <1>7 DEF Alone, AloneOK
  <2>3. Listed'
    BY <1>3, <1>5, <1>5a, <1>6, <2>2 DEF Listed
  <2>4. CASE x = selected /\ call' = base
    <3>1. View!Belong(repositories)'
      BY <1>1, <1>6, <2>2, <2>4 DEF View!Belong
    <3>2. \A d \in Calls : call'[d].kind = "free"
      BY <2>1, <2>4
    <3>3. \A d \in Calls : AloneOK(call[d])'
      BY <3>2 DEF AloneOK
    <3> QED
      BY <2>3, <3>1, <3>2, <3>3 DEF Alone
  <2>5. CASE \E d \in Calls : /\ call'[d].kind = "repos" /\ call'[d].of = x /\ call'[d].pick = View!NoWs
                              /\ \A e \in Calls : e # d => call'[e] = base[e]
    <3>1. PICK d \in Calls : /\ call'[d].kind = "repos" /\ call'[d].of = x /\ call'[d].pick = View!NoWs
                             /\ \A e \in Calls : e # d => call'[e].kind = "free"
      BY <2>1, <2>5
    <3>2. \A e \in Calls : AloneOK(call[e])'
      BY <1>6, <2>3, <3>1 DEF AloneOK
    <3> QED
      BY <1>7, <3>1, <3>2 DEF Alone
  <2> QED
    BY <1>6, <2>4, <2>5
<1> QED
  BY <1>8, <1>9

LEMMA ConnectedStep ==
    ASSUME ViewInv, NEW c \in Calls, View!Connected(c) \/ View!ConnectFails(c)
    PROVE  ViewInv'
<1> USE DEF ViewInv
<1>0. call[c] \in CallType /\ CallOK(call[c], created) /\ call[c].kind = "connect"
  BY DEF View!Connected, View!ConnectFails, ViewTypes, CallsOK
<1>1. PICK q \in CallType :
        /\ call' = [call EXCEPT ![c] = q] /\ CallOK(q, created)
        /\ q.kind = "free" \/ (q.kind = "repos" /\ q.of = call[c].of /\ q.pick = View!NoWs)
        /\ reposLoading' = reposLoading \/ q.kind = "repos"
        /\ reposLoading' \in BOOLEAN
  <2>1. CASE View!Connected(c)
    <3>1. call[c].of \in Workspaces \cup {View!NoWs} /\ {call[c].of, View!NoWs} \subseteq created \cup {View!NoWs}
      BY <1>0 DEF CallType, CallOK
    <3>2. PICK q \in CallType : /\ q = View!Request("repos", call[c].of, View!NoWs)
                                /\ q.kind = "repos" /\ q.of = call[c].of /\ q.pick = View!NoWs
      BY <3>1, Requests DEF View!Kinds
    <3>3. CallOK(q, created)
      BY <3>1, <3>2, Requests DEF View!Kinds
    <3> QED
      BY <2>1, <3>2, <3>3 DEF View!Connected
  <2>2. CASE View!ConnectFails(c)
    <3>1. call' = [call EXCEPT ![c] = View!Free] /\ reposLoading' = reposLoading
      BY <2>2 DEF View!ConnectFails
    <3>2. PICK q \in CallType : q = View!Free /\ q.kind = "free" /\ CallOK(q, created)
      BY Requests
    <3>3. reposLoading' \in BOOLEAN
      BY <3>1 DEF ViewTypes
    <3> QED
      BY <3>1, <3>2, <3>3
  <2> QED
    BY <2>1, <2>2
<1>2. UNCHANGED <<created, connected, workspaces, selected, repositories, loading, warned, stored, scope, lost, moves>>
  BY DEF View!Connected, View!ConnectFails
<1>3. failures' \in 0 .. ViewFailures
  <2>1. View!Fail \/ failures' = failures
    BY DEF View!Connected, View!ConnectFails
  <2> QED
    BY <2>1, ViewConstants DEF View!Fail, ViewTypes
<1>4. overlap' \in BOOLEAN /\ (~overlap' => ~overlap)
  BY WatchSays DEF View!Connected, View!ConnectFails, ViewTypes
<1>5. /\ call' \in [Calls -> CallType] /\ \A d \in Calls : CallOK(call'[d], created)
      /\ \A d \in Calls : call'[d] = IF d = c THEN q ELSE call[d]
  BY <1>1, PlaceGiven
<1>6. ViewTypes' /\ CallsOK' /\ Scoped'
  BY <1>1, <1>2, <1>3, <1>4, <1>5 DEF ViewTypes, CallsOK, Scoped
<1>7. View!SpinnerBacked'
  BY <1>0, <1>1, <1>5 DEF View!SpinnerBacked
<1>8. Alone'
  <2> SUFFICES ASSUME ~overlap' PROVE Alone'
    BY DEF Alone
  <2>1. call[c].of = selected /\ View!Belong(repositories) /\ Listed /\ \A d \in Calls : d # c => call[d].kind = "free"
    BY <1>0, <1>4 DEF Alone, AloneOK
  <2>2. View!Belong(repositories)' /\ Listed'
    BY <1>2, <2>1 DEF View!Belong, Listed
  <2>3. \A d \in Calls : d # c => call'[d].kind = "free"
    BY <1>5, <2>1
  <2>4. \A d \in Calls : AloneOK(call[d])'
    BY <1>1, <1>2, <1>5, <2>1, <2>2, <2>3 DEF AloneOK
  <2> QED
    BY <2>2, <2>3, <2>4 DEF Alone
<1> QED
  BY <1>6, <1>7, <1>8

LEMMA ViewStep ==
    ASSUME ViewInv, View!Next
    PROVE  ViewInv'
<1>1. ASSUME NEW w \in Workspaces, View!selectWorkspace(w) \/ View!Create(w) PROVE ViewInv'
  BY <1>1, UserStep
<1>2. CASE View!refresh
  <2>1. View!NoWs \in Workspaces \cup {View!NoWs}
    OBVIOUS
  <2> QED
    BY <1>2, <2>1, UserStep
<1>3. ASSUME NEW r \in Repos, View!handleSubmit(r) \/ View!toggle(r) PROVE ViewInv'
  BY <1>3, ConnectStep, ToggleStep
<1>4. ASSUME NEW c \in Calls,
             \/ View!Serve(c)
             \/ View!WorkspacesAnswered(c) \/ View!WorkspacesFail(c)
             \/ View!ReposAnswered(c) \/ View!ReposFail(c)
             \/ View!Connected(c) \/ View!ConnectFails(c)
      PROVE  ViewInv'
  BY <1>4, ServeStep, WorkspacesStep, LoadedStep, ConnectedStep
<1> QED
  BY <1>1, <1>2, <1>3, <1>4 DEF View!Next

\* Without requests that overlap, what is shown when all is quiet is right.
LEMMA ShownIsRight ==
    ASSUME ViewInv
    PROVE  View!TypeOK /\ View!AloneIsRight /\ View!ScopeListed
<1> USE DEF ViewInv
<1>1. View!TypeOK
  BY DEF ViewTypes, CallType, Scoped, View!TypeOK
<1>2. View!AloneIsRight
  <2> SUFFICES ASSUME View!Quiet, ~overlap
               PROVE  View!Belong(repositories) /\ View!Belong(scope) /\ (warned \/ selected \in workspaces)
    BY DEF View!AloneIsRight
  <2>1. \A c \in Calls : call[c].kind = "free"
    BY DEF View!Quiet, View!InFlight
  <2>2. View!Belong(repositories) /\ Listed
    BY <2>1 DEF Alone
  <2>3. View!Belong(scope)
    BY <2>2 DEF View!Belong, Scoped
  <2> QED
    BY <2>2, <2>3 DEF Listed
<1> QED
  BY <1>1, <1>2 DEF Scoped, View!ScopeListed

-----------------------------------------------------------------------------
(* The pages together: the part that is open keeps its invariant.           *)

WebInv ==
    /\ open = "card" => CardInv
    /\ open = "button" => ButtonInv
    /\ open = "lone" => LoneInv
    /\ open = "view" => ViewInv

LEMMA InitWeb ==
    Init => WebInv
  BY InitCard, InitButton, InitLone, InitView DEF Init, WebInv

\* A stutter changes nothing that the invariants speak of.
LEMMA Stutters ==
    ASSUME WebInv, UNCHANGED vars
    PROVE  WebInv'
<1> USE DEF vars, serverVars, cardVars, buttonVars, viewVars
<1>1. UNCHANGED <<serverVars, cardVars, failures>> /\ UNCHANGED Card!serverVars
  BY DEF Card!serverVars
<1>2. ASSUME CardInv PROVE CardInv'
  BY <1>1, <1>2, CardStutters
<1>3. ASSUME ButtonInv PROVE ButtonInv'
  BY <1>1, <1>3, ServerRests DEF ButtonInv, ButtonTypes, Button!SpinnerBacked
<1>4. ASSUME LoneInv PROVE LoneInv'
  BY <1>1, <1>4, ServerRests DEF LoneInv
<1>5. ASSUME ViewInv PROVE ViewInv'
  BY <1>5 DEF ViewInv, ViewTypes, CallsOK, Scoped, View!SpinnerBacked, Alone, AloneOK, Listed, View!Belong
<1> QED
  BY <1>2, <1>3, <1>4, <1>5 DEF WebInv

LEMMA WebStep ==
    ASSUME WebInv, [Next]_vars
    PROVE  WebInv'
<1>1. CASE UNCHANGED vars
  BY <1>1, Stutters
<1>2. CASE open = "card" /\ InCard(Card!Next)
  <2>1. CardInv' /\ open' = "card"
    BY <1>2, CardStep DEF WebInv, InCard
  <2> QED
    BY <2>1 DEF WebInv
<1>3. CASE open = "fair" /\ InCard(Fair!Next)
  <2>1. open' = "fair"
    BY <1>3 DEF InCard
  <2> QED
    BY <2>1 DEF WebInv
<1>4. CASE open = "button" /\ InButton(Button!Next)
  <2>1. ButtonInv' /\ open' = "button"
    BY <1>4, ButtonStep DEF WebInv, InButton
  <2> QED
    BY <2>1 DEF WebInv
<1>5. CASE open = "lone" /\ InButton(Lone!Next)
  <2>1. LoneInv' /\ open' = "lone"
    BY <1>5, LoneStep DEF WebInv, InButton
  <2> QED
    BY <2>1 DEF WebInv
<1>6. CASE open = "view" /\ InView(View!Next)
  <2>1. ViewInv' /\ open' = "view"
    BY <1>6, ViewStep DEF WebInv, InView
  <2> QED
    BY <2>1 DEF WebInv
<1> QED
  BY <1>1, <1>2, <1>3, <1>4, <1>5, <1>6 DEF Next

LEMMA WebCorrect == Spec => []WebInv
<1>1. Init => WebInv
  BY InitWeb
<1>2. WebInv /\ [Next]_vars => WebInv'
  BY WebStep
<1> QED
  BY <1>1, <1>2, PTL DEF Spec

\* However answers are ordered, fail or overlap, the polling loop of a card is
\* one, and no spinner is left that nothing in flight will stop
\* (JobProgress.tsx:100-118, RepoActions.tsx, WorkspaceProvider.tsx:123-132).
THEOREM SpinnersAreBacked == Spec => []SpinnersBacked
<1>1. WebInv => SpinnersBacked
  BY LoopIsAlive, ButtonTypesAre DEF WebInv, ButtonInv, ViewInv, SpinnersBacked
<1> QED
  BY <1>1, WebCorrect, PTL

\* Without requests that overlap the page shows what is of its selection, and
\* the chat asks for nothing that is not listed (WorkspaceProvider.tsx:140-158,
\* chat/page.tsx:54).
THEOREM ShownIsListed == Spec => []ShownListed
<1>1. WebInv => ShownListed
  BY ShownIsRight DEF WebInv, ShownListed
<1> QED
  BY <1>1, WebCorrect, PTL

\* The page is refreshed by its button after the job, never after its row
\* alone (RepoActions.tsx:44-54).
THEOREM RefreshesAfterEnd == Spec => RefreshAfterEnd
<1>1. WebInv /\ [Next]_vars => [open = "lone" => Lone!RefreshedAtEnd]_vars
  <2> SUFFICES ASSUME WebInv, Next, open = "lone" PROVE Lone!RefreshedAtEnd
    OBVIOUS
  <2>1. Lone!Next /\ LoneInv
    BY DEF Next, InButton, WebInv
  <2> QED
    BY <2>1, LoneStep
<1> QED
  BY <1>1, WebCorrect, PTL DEF Spec, RefreshAfterEnd
=============================================================================
