---------------------------- MODULE PluginChatProofs ----------------------------
(***************************************************************************)
(* Proofs about the parts of the plugin that follow a conversation, for    *)
(* any values of the constants: one section per part proves the inductive  *)
(* invariant of its module, and the end puts them together.                *)
(***************************************************************************)
EXTENDS MCPluginChat, FiniteSetTheorems, SequenceTheorems, TLAPS

-----------------------------------------------------------------------------
(* Conversation titles: what the registry infers, and the user's title.    *)

TitleCore ==
    TitleTypeOK /\ TitlesAreOwn /\ OneAtATime /\ NothingForeign /\ UserIsHeeded

LEMMA TitleInvSplits == TitleInv <=> TitleCore
<1>1. ASSUME TitleCore PROVE OptOutOnlyByUser
  BY <1>1 DEF TitleCore, TitleTypeOK, NothingForeign, OptOutOnlyByUser
<1>2. ASSUME TitleCore PROVE QuietTitle
  BY <1>2 DEF TitleCore, NothingForeign, QuietTitle, UnderWay
<1> QED
  BY <1>1, <1>2 DEF TitleInv, TitleCore

SignalKinds ==
    [status : {"initializing", "planning", "executing", "done"}, topic : AnyTopic,
     confidence : {30, 50, 65, 70, 95, 100}, issue : Issues \cup {0}]

LEMMA SignalFacts == Signals \subseteq SignalKinds
BY DEF Signals, SignalKinds, Signal, AnyTopic

\* Titles the hook itself makes.
OwnTitles ==
    {t \in Titles : t.status \notin {"host", "user", "no title"}}

LEMMA TitleFacts ==
    /\ NoTitle \in Titles /\ HostTitle \in Titles /\ UserTitle \in Titles
    /\ NoTitle.status = "no title" /\ HostTitle.status = "host"
    /\ UserTitle.status = "user"
    /\ NoTitle # HostTitle /\ NoTitle # UserTitle /\ HostTitle # UserTitle
    /\ OwnTitles \subseteq Titles
    /\ \A t \in OwnTitles : t \notin {NoTitle, HostTitle, UserTitle}
<1>1. /\ NoTitle \in Titles /\ HostTitle \in Titles /\ UserTitle \in Titles
      /\ NoTitle.status = "no title" /\ HostTitle.status = "host"
      /\ UserTitle.status = "user"
  BY DEF NoTitle, HostTitle, UserTitle, Titles, AnyTopic
<1> QED
  BY <1>1 DEF OwnTitles

LEMMA TitleOfFacts ==
    ASSUME NEW i \in Issues \cup {0}, NEW t \in AnyTopic,
           NEW s \in {"initializing", "planning", "executing", "done"}
    PROVE  TitleOf(i, t, s) \in OwnTitles
BY DEF TitleOf, OwnTitles, Titles

LEMMA CallFacts ==
    /\ Calm \in Calls /\ Calm.at = "none" /\ Calm.title = NoTitle
    /\ NewRecord \in Records /\ NewRecord.lastTitle = NoTitle
    /\ ~NewRecord.optedOut /\ ~NewRecord.confirmed
BY TitleFacts DEF Calm, Calls, NewRecord, Records, AnyTopic

LEMMA DecisionFacts ==
    ASSUME record \in Records, NEW s \in Signals, NEW current \in Titles
    PROVE  /\ Candidate(s, current) \in OwnTitles
           /\ Learned(s, current) \in Records
           /\ Learned(s, current).lastTitle = record.lastTitle
           /\ Learned(s, current).optedOut = record.optedOut
           /\ Learned(s, current).confirmed = Observed(current)
           /\ Written(s, current) \in Records
           /\ Written(s, current).lastTitle = Candidate(s, current)
           /\ Written(s, current).optedOut = record.optedOut
           /\ Written(s, current).confirmed = Observed(current)
<1>1. s \in SignalKinds
  BY SignalFacts
<1> DEFINE o == Observed(current)
           i == IF s.issue # 0 THEN s.issue ELSE record.issue
           t == IF ReplacesTopic(s) THEN s.topic ELSE record.topic
           c == IF ReplacesTopic(s) THEN s.confidence ELSE record.confidence
           l == Learned(s, current)
<1>3. /\ i \in Issues \cup {0} /\ t \in AnyTopic
      /\ c \in {0, 30, 50, 65, 70, 95, 100}
  BY <1>1 DEF SignalKinds, Records
<1>4. l = [record EXCEPT !.confirmed = o, !.issue = i, !.topic = t, !.confidence = c]
  BY DEF Learned
<1>2. o \in BOOLEAN
  BY DEF Observed, Records
<1> HIDE DEF o, i, t, c, l
<1>5. /\ l \in Records /\ l.lastTitle = record.lastTitle
      /\ l.optedOut = record.optedOut /\ l.confirmed = o
      /\ l.issue = i /\ l.topic = t /\ l.done = record.done
  <2> DEFINE e == [lastTitle |-> record.lastTitle, recent |-> record.recent,
                   done |-> record.done, optedOut |-> record.optedOut,
                   confirmed |-> o, topic |-> t, confidence |-> c, issue |-> i]
  <2>1. l = e
    BY <1>4, Zenon DEF Records
  <2>2. e \in Records
    <3>1. record.optedOut \in BOOLEAN /\ record.recent \in BOOLEAN
      BY DEF Records
    <3> QED
      BY <1>2, <1>3, <3>1 DEF Records
  <2> QED
    BY <2>1, <2>2
<1>6. Candidate(s, current) \in OwnTitles
  BY <1>1, <1>3, <1>5, TitleOfFacts DEF Candidate, SignalKinds, l
<1> DEFINE d == IF s.status = "done" THEN "frozen"
                ELSE IF ReplacesTopic(s) /\ l.done = "expired" THEN "never"
                ELSE l.done
           n == Candidate(s, current)
           w == Written(s, current)
<1>7. w = [l EXCEPT !.lastTitle = n, !.recent = TRUE, !.done = d]
  BY DEF Written, l
<1>8. d \in {"never", "frozen", "expired"}
  BY <1>5 DEF Records
<1>9. n \in Titles
  BY <1>6, TitleFacts
<1> HIDE DEF d, n, w
<1>10. /\ w \in Records /\ w.lastTitle = n /\ w.optedOut = l.optedOut
       /\ w.confirmed = l.confirmed
  BY <1>5, <1>7, <1>8, <1>9 DEF Records
<1> QED
  BY <1>5, <1>6, <1>10 DEF o, l, n, w

LEMMA TitleStart == TitleInit => TitleInv
<1> SUFFICES ASSUME TitleInit PROVE TitleCore
  BY TitleInvSplits
<1>1. \A m \in Milestones : milestone[m] = Calm
  BY DEF TitleInit
<1>2. TitleTypeOK
  <2>1. milestone \in [Milestones -> Calls]
    BY CallFacts DEF TitleInit
  <2>2. {known, renamed, kept} \subseteq BOOLEAN
    BY DEF TitleInit
  <2>3. milestones \in 0..MaxMilestones
    BY TitleAssumption DEF TitleInit
  <2> QED
    BY <2>1, <2>2, <2>3, CallFacts, TitleFacts DEF TitleInit, TitleTypeOK
<1>3. TitlesAreOwn
  BY <1>1, CallFacts, TitleFacts DEF TitlesAreOwn, TitleInit
<1>4. OneAtATime
  BY <1>1, CallFacts DEF OneAtATime, UnderWay
<1>5. NothingForeign
  BY <1>1, CallFacts DEF NothingForeign, TitleInit
<1>6. UserIsHeeded
  BY DEF UserIsHeeded, TitleInit
<1> QED
  BY <1>2, <1>3, <1>4, <1>5, <1>6 DEF TitleCore

LEMMA ReachedStep ==
    ASSUME TitleCore, NEW m \in Milestones, NEW chat \in BOOLEAN,
           MilestoneReached(m, chat)
    PROVE  TitleCore'
<1> DEFINE c == [[milestone[m] EXCEPT !.at = "reading"] EXCEPT !.chat = chat]
<1>1. /\ milestone \in [Milestones -> Calls] /\ milestone[m] = Calm
      /\ chat \in {FALSE, ChatFallback}
  BY TitleAssumption DEF TitleCore, TitleTypeOK, MilestoneReached
<1>2. c \in Calls /\ c.at = "reading" /\ c.title = NoTitle
  BY <1>1, CallFacts DEF Calls
<1>3. \A o \in Milestones : milestone'[o] = IF o = m THEN c ELSE milestone[o]
  BY <1>1 DEF MilestoneReached
<1>4. milestone' \in [Milestones -> Calls]
  BY <1>1, <1>2 DEF MilestoneReached
<1> HIDE DEF c
<1>5. UNCHANGED <<hostTitle, record, known, renamed, kept>>
  BY DEF MilestoneReached
<1>6. /\ excuse' = IF UnderWay = {} THEN excuse ELSE excuse \cup {"overlap"}
      /\ milestones' \in 0..MaxMilestones
  <2>1. milestones \in 0..MaxMilestones /\ MaxMilestones \in Nat
    BY TitleAssumption DEF TitleCore, TitleTypeOK
  <2>2. milestones < MaxMilestones /\ milestones' = milestones + 1
    BY DEF MilestoneReached
  <2>3. excuse' = IF UnderWay = {} THEN excuse ELSE excuse \cup {"overlap"}
    BY DEF MilestoneReached
  <2> QED
    BY <2>1, <2>2, <2>3
<1>7. TitleTypeOK'
  BY <1>4, <1>5, <1>6 DEF TitleCore, TitleTypeOK
<1>8. TitlesAreOwn'
  BY <1>2, <1>3, <1>5 DEF TitleCore, TitlesAreOwn
<1>9. OneAtATime'
  <2> SUFFICES ASSUME "overlap" \notin excuse'
               PROVE  \A o, q \in UnderWay' : o = q
    BY DEF OneAtATime
  <2>1. UnderWay = {}
    BY <1>6
  <2>2. UnderWay' \subseteq {m}
    BY <1>3, <2>1 DEF UnderWay
  <2> QED
    BY <2>2
<1>10. NothingForeign'
  <2> SUFFICES ASSUME ~renamed', excuse' \subseteq {"unread"}
               PROVE  NothingForeign'
    BY DEF NothingForeign
  <2>1. ~renamed /\ excuse \subseteq {"unread"}
    BY <1>5, <1>6
  <2>2. \A o \in Milestones :
          milestone'[o] = milestone[o] \/ milestone'[o].at = "reading"
    BY <1>2, <1>3
  <2>3. milestone[m].at = "none"
    BY <1>1, CallFacts
  <2>4. ReadBack' => ReadBack
    BY <1>5, <2>2 DEF ReadBack
  <2>5. \A o \in Milestones : milestone[o].at = "writing" => milestone'[o].at = "writing"
    BY <1>3, <2>3
  <2> QED
    BY <1>5, <2>1, <2>2, <2>4, <2>5 DEF TitleCore, NothingForeign
<1>11. UserIsHeeded'
  BY <1>2, <1>3, <1>5, <1>6 DEF TitleCore, UserIsHeeded
<1> QED
  BY <1>7, <1>8, <1>9, <1>10, <1>11 DEF TitleCore

\* A call that goes on or ends overlaps with no more calls than before.
LEMMA StillOneAtATime ==
    ASSUME OneAtATime, NEW m \in Milestones, milestone[m].at # "none",
           excuse \subseteq excuse',
           \A o \in Milestones : o # m => milestone'[o] = milestone[o]
    PROVE  OneAtATime'
<1>1. UnderWay' \subseteq UnderWay
  BY DEF UnderWay
<1> QED
  BY <1>1 DEF OneAtATime

LEMMA TitleReadStep ==
    ASSUME TitleCore, NEW m \in Milestones, TitleRead(m)
    PROVE  TitleCore'
<1> USE TitleFacts, CallFacts
<1>1. /\ milestone \in [Milestones -> Calls] /\ milestone[m].at = "reading"
      /\ milestone[m] \in Calls /\ milestone[m].title = NoTitle
      /\ hostTitle \in Titles
  BY DEF TitleCore, TitleTypeOK, TitlesAreOwn, TitleRead
<1>2. UNCHANGED <<hostTitle, record, milestones, known, renamed, kept>>
  BY DEF TitleRead
<1>3. PICK c \in Calls :
        /\ milestone' = [milestone EXCEPT ![m] = c]
        /\ \/ known /\ c.at = "read" /\ c.title = hostTitle /\ excuse' = excuse
           \/ /\ c = Calm \/ (c.at = "read" /\ c.title = NoTitle)
              /\ excuse' = excuse \cup {"unread"}
  <2>1. CASE /\ known
             /\ milestone' = [milestone EXCEPT ![m].at = "read",
                                               ![m].title = hostTitle]
             /\ UNCHANGED excuse
    <3> DEFINE c == [[milestone[m] EXCEPT !.at = "read"] EXCEPT !.title = hostTitle]
    <3>1. milestone' = [milestone EXCEPT ![m] = c]
      BY <1>1, <2>1
    <3>2. c \in Calls /\ c.at = "read" /\ c.title = hostTitle
      BY <1>1 DEF Calls
    <3> QED
      BY <2>1, <3>1, <3>2
  <2>2. CASE /\ milestone' = [milestone EXCEPT ![m] =
                   IF @.chat THEN Calm ELSE [@ EXCEPT !.at = "read"]]
             /\ excuse' = excuse \cup {"unread"}
    <3> DEFINE r == [milestone[m] EXCEPT !.at = "read"]
    <3>1. r \in Calls /\ r.at = "read" /\ r.title = NoTitle
      BY <1>1 DEF Calls
    <3>2. \/ milestone' = [milestone EXCEPT ![m] = Calm]
          \/ milestone' = [milestone EXCEPT ![m] = r]
      BY <2>2
    <3> HIDE DEF r
    <3> QED
      BY <2>2, <3>1, <3>2
  <2> QED
    BY <2>1, <2>2 DEF TitleRead
<1>4. \A o \in Milestones : milestone'[o] = IF o = m THEN c ELSE milestone[o]
  BY <1>1, <1>3
<1>5. excuse \subseteq excuse' /\ excuse' \subseteq excuse \cup {"unread"}
  BY <1>3
<1>6. c.at \in {"none", "read"} /\ (c.at = "none" => c.title = NoTitle)
  BY <1>3
<1>7. TitleTypeOK'
  BY <1>1, <1>2, <1>3, <1>5 DEF TitleCore, TitleTypeOK
<1>8. TitlesAreOwn'
  BY <1>2, <1>4, <1>6 DEF TitleCore, TitlesAreOwn
<1>9. OneAtATime'
  BY <1>1, <1>4, <1>5, StillOneAtATime DEF TitleCore
<1>10. NothingForeign'
  <2> SUFFICES ASSUME ~renamed', excuse' \subseteq {"unread"}
               PROVE  NothingForeign'
    BY DEF NothingForeign
  <2>1. /\ ~renamed /\ excuse \subseteq {"unread"}
        /\ OneAtATime /\ "overlap" \notin excuse
    BY <1>2, <1>5 DEF TitleCore
  <2>2. \A o \in Milestones : milestone[o].at # "none" => o = m
    BY <1>1, <2>1 DEF OneAtATime, UnderWay
  <2>3. \A o \in Milestones : o # m => milestone'[o].at = "none"
    BY <1>4, <2>2
  <2>4. \A o \in Milestones : milestone[o].at # "writing" /\ milestone'[o].at # "writing"
    BY <1>1, <1>4, <1>6, <2>2, <2>3
  <2>5. /\ ~record.optedOut
        /\ known /\ record.lastTitle # NoTitle =>
              \/ hostTitle = record.lastTitle
              \/ hostTitle = HostTitle /\ ~ReadBack
    BY <2>1, <2>4 DEF TitleCore, NothingForeign
  <2>6. record.lastTitle # HostTitle
    BY DEF TitleCore, TitlesAreOwn
  <2>7. ASSUME record.lastTitle # NoTitle, c.at = "read"
        PROVE  /\ c.title \in {NoTitle, record.lastTitle, HostTitle}
               /\ record.confirmed => c.title # HostTitle
    BY <1>3, <2>5, <2>6, <2>7 DEF ReadBack
  <2>8. known /\ record.lastTitle # NoTitle =>
          \/ hostTitle = record.lastTitle
          \/ hostTitle = HostTitle /\ ~ReadBack'
    <3> SUFFICES ASSUME known, record.lastTitle # NoTitle, hostTitle = HostTitle,
                        ~ReadBack, ReadBack'
                 PROVE  FALSE
      BY <2>5
    <3>1. c.at = "read" /\ c.title # NoTitle /\ c.title = record.lastTitle
      BY <1>2, <1>4, <2>3 DEF ReadBack
    <3> QED
      BY <1>3, <2>6, <3>1
  <2> QED
    BY <1>2, <1>4, <2>3, <2>4, <2>5, <2>7, <2>8 DEF NothingForeign
<1>11. UserIsHeeded'
  <2> SUFFICES ASSUME kept', "unread" \notin excuse' PROVE UserIsHeeded'
    BY DEF UserIsHeeded
  <2>1. known /\ c.at = "read" /\ c.title = hostTitle /\ excuse' = excuse
    BY <1>3
  <2> QED
    BY <1>2, <1>4, <2>1 DEF TitleCore, UserIsHeeded
<1> QED
  BY <1>7, <1>8, <1>9, <1>10, <1>11 DEF TitleCore

\* What the registry sets between decisions.
LEMMA ThrottleFacts ==
    ASSUME NEW r \in Records, NEW x \in BOOLEAN
    PROVE  LET s == [r EXCEPT !.recent = x]
           IN  /\ s \in Records /\ s.lastTitle = r.lastTitle
               /\ s.optedOut = r.optedOut /\ s.confirmed = r.confirmed
<1> DEFINE s == [r EXCEPT !.recent = x]
<1>1. s \in Records
  BY DEF Records
<1>2. s.lastTitle = r.lastTitle /\ s.optedOut = r.optedOut /\ s.confirmed = r.confirmed
  BY DEF Records
<1> QED
  BY <1>1, <1>2

LEMMA FreezeFacts ==
    ASSUME NEW r \in Records, NEW d \in {"never", "frozen", "expired"}
    PROVE  LET s == [r EXCEPT !.done = d]
           IN  /\ s \in Records /\ s.lastTitle = r.lastTitle
               /\ s.optedOut = r.optedOut /\ s.confirmed = r.confirmed
<1> DEFINE s == [r EXCEPT !.done = d]
<1>1. s \in Records
  BY DEF Records
<1>2. s.lastTitle = r.lastTitle /\ s.optedOut = r.optedOut /\ s.confirmed = r.confirmed
  BY DEF Records
<1> QED
  BY <1>1, <1>2

LEMMA ConfirmedFacts ==
    ASSUME NEW r \in Records, NEW x \in BOOLEAN
    PROVE  LET s == [r EXCEPT !.confirmed = x]
           IN  /\ s \in Records /\ s.lastTitle = r.lastTitle
               /\ s.optedOut = r.optedOut /\ s.confirmed = x
<1> DEFINE s == [r EXCEPT !.confirmed = x]
<1>1. s \in Records
  BY DEF Records
<1>2. s.lastTitle = r.lastTitle /\ s.optedOut = r.optedOut /\ s.confirmed = x
  BY DEF Records
<1> QED
  BY <1>1, <1>2

LEMMA OptedOutFacts ==
    ASSUME NEW r \in Records, NEW x \in BOOLEAN
    PROVE  LET s == [r EXCEPT !.optedOut = x]
           IN  /\ s \in Records /\ s.lastTitle = r.lastTitle
               /\ s.optedOut = x /\ s.confirmed = r.confirmed
<1> DEFINE s == [r EXCEPT !.optedOut = x]
<1>1. s \in Records
  BY DEF Records
<1>2. s.lastTitle = r.lastTitle /\ s.optedOut = x /\ s.confirmed = r.confirmed
  BY DEF Records
<1> QED
  BY <1>1, <1>2

LEMMA DispatchEndsStep ==
    ASSUME TitleCore, NEW m \in Milestones, DispatchEnds(m)
    PROVE  TitleCore'
<1> USE TitleFacts, CallFacts
<1>1. /\ milestone \in [Milestones -> Calls] /\ milestone[m].at = "read"
      /\ milestone' = [milestone EXCEPT ![m] = Calm]
      /\ UNCHANGED <<hostTitle, record, milestones, known, excuse, renamed, kept>>
  BY DEF TitleCore, TitleTypeOK, DispatchEnds
<1>2. \A o \in Milestones : milestone'[o] = IF o = m THEN Calm ELSE milestone[o]
  BY <1>1
<1>3. TitleTypeOK'
  BY <1>1 DEF TitleCore, TitleTypeOK
<1>4. TitlesAreOwn'
  BY <1>1, <1>2 DEF TitleCore, TitlesAreOwn
<1>5. OneAtATime'
  BY <1>1, <1>2, StillOneAtATime DEF TitleCore
<1>6. NothingForeign'
  <2>1. ReadBack' => ReadBack
    BY <1>1, <1>2 DEF ReadBack
  <2>2. \A o \in Milestones : milestone[o].at = "writing" => milestone'[o].at = "writing"
    BY <1>1, <1>2
  <2> QED
    BY <1>1, <1>2, <2>1, <2>2 DEF TitleCore, NothingForeign
<1>7. UserIsHeeded'
  BY <1>1, <1>2 DEF TitleCore, UserIsHeeded
<1> QED
  BY <1>3, <1>4, <1>5, <1>6, <1>7 DEF TitleCore

LEMMA DecidesStep ==
    ASSUME TitleCore, NEW m \in Milestones, NEW s \in Signals, Decides(m, s)
    PROVE  TitleCore'
<1> USE TitleFacts, CallFacts
<1> DEFINE current == milestone[m].title
<1>1. /\ milestone \in [Milestones -> Calls] /\ milestone[m].at = "read"
      /\ milestone[m] \in Calls /\ current \in Titles
      /\ record \in Records /\ record.lastTitle \in Titles
      /\ record.optedOut \in BOOLEAN
      /\ UNCHANGED <<hostTitle, milestones, known, excuse, renamed, kept>>
  BY DEF TitleCore, TitleTypeOK, Decides, Calls, Records
<1>2. record.confirmed => record.lastTitle # NoTitle
  BY DEF TitleCore, TitlesAreOwn
<1>3. /\ Observed(current) \in BOOLEAN
      /\ Observed(current) => record.lastTitle # NoTitle
      /\ Observed(current) <=> \/ record.confirmed
                               \/ record.lastTitle # NoTitle /\ current = record.lastTitle
  BY <1>1, <1>2 DEF Observed, Records
<1>4. PICK r \in Records, c \in Calls :
        /\ record' = r /\ milestone' = [milestone EXCEPT ![m] = c]
        /\ r.confirmed = Observed(current)
        /\ r.optedOut = (record.optedOut \/ OptsOut(current))
        /\ \/ r.lastTitle = record.lastTitle /\ c = Calm
           \/ /\ r.lastTitle \in OwnTitles /\ c.at = "writing"
              /\ c.title = r.lastTitle /\ ~OptsOut(current)
  <2> DEFINE b == [record EXCEPT !.confirmed = Observed(current)]
             a == [b EXCEPT !.optedOut = TRUE]
             d == [[milestone[m] EXCEPT !.at = "writing"]
                      EXCEPT !.title = Candidate(s, current)]
             ends == milestone' = [milestone EXCEPT ![m] = Calm]
  <2>0. OptsOut(current) \in BOOLEAN /\ (record.optedOut => OptsOut(current))
    BY <1>1 DEF OptsOut
  <2>1. /\ b \in Records /\ b.lastTitle = record.lastTitle
        /\ b.confirmed = Observed(current) /\ b.optedOut = record.optedOut
        /\ a \in Records /\ a.lastTitle = record.lastTitle
        /\ a.confirmed = Observed(current) /\ a.optedOut = TRUE
    <3>1. /\ b \in Records /\ b.lastTitle = record.lastTitle
          /\ b.confirmed = Observed(current) /\ b.optedOut = record.optedOut
      BY <1>1, <1>3, ConfirmedFacts, Zenon
    <3> HIDE DEF b
    <3>2. TRUE \in BOOLEAN
      OBVIOUS
    <3>3. /\ a \in Records /\ a.lastTitle = b.lastTitle
          /\ a.confirmed = b.confirmed /\ a.optedOut = TRUE
      BY <3>1, <3>2, OptedOutFacts, Zenon
    <3> QED
      BY <3>1, <3>3, Zenon
  <2>2. /\ Candidate(s, current) \in OwnTitles
        /\ Learned(s, current) \in Records
        /\ Learned(s, current).lastTitle = record.lastTitle
        /\ Learned(s, current).optedOut = record.optedOut
        /\ Learned(s, current).confirmed = Observed(current)
        /\ Written(s, current) \in Records
        /\ Written(s, current).lastTitle = Candidate(s, current)
        /\ Written(s, current).optedOut = record.optedOut
        /\ Written(s, current).confirmed = Observed(current)
    <3> HIDE DEF current
    <3> QED
      BY <1>1, DecisionFacts
  <2>3. Candidate(s, current) \in Titles
    BY <2>2
  <2>4. d \in Calls /\ d.at = "writing" /\ d.title = Candidate(s, current)
    BY <1>1, <2>3 DEF Calls
  <2>5. \/ OptsOut(current) /\ record' = a /\ ends
        \/ ~OptsOut(current) /\ record' = b /\ ends
        \/ ~OptsOut(current) /\ record' = Learned(s, current) /\ ends
        \/ /\ ~OptsOut(current) /\ record' = Written(s, current)
           /\ milestone' = [milestone EXCEPT ![m] = d]
    <3>1. d = [milestone[m] EXCEPT !.at = "writing", !.title = Candidate(s, current)]
      OBVIOUS
    <3>2. [milestone EXCEPT ![m].at = "writing", ![m].title = Candidate(s, current)]
            = [milestone EXCEPT ![m] = d]
      BY <1>1
    <3>3. a = [record EXCEPT !.confirmed = Observed(current), !.optedOut = TRUE]
      OBVIOUS
    <3> HIDE DEF d, a
    <3> QED
      BY <3>2, <3>3, Zenon DEF Decides
  <2> HIDE DEF a, b, d, current
  <2>6. CASE OptsOut(current) /\ record' = a /\ ends
    BY <1>1, <2>0, <2>1, <2>6
  <2>7. CASE ~OptsOut(current) /\ record' = b /\ ends
    BY <1>1, <2>0, <2>1, <2>7
  <2>8. CASE ~OptsOut(current) /\ record' = Learned(s, current) /\ ends
    BY <1>1, <2>0, <2>2, <2>8
  <2>9. CASE /\ ~OptsOut(current) /\ record' = Written(s, current)
             /\ milestone' = [milestone EXCEPT ![m] = d]
    BY <1>1, <2>0, <2>2, <2>4, <2>9
  <2> QED
    BY <2>5, <2>6, <2>7, <2>8, <2>9
<1>5. \A o \in Milestones : milestone'[o] = IF o = m THEN c ELSE milestone[o]
  BY <1>1, <1>4
<1>6. r.lastTitle.status \notin {"host", "user"}
  BY <1>4 DEF TitleCore, TitlesAreOwn, OwnTitles
<1> HIDE DEF current
<1>7. TitleTypeOK'
  BY <1>1, <1>4 DEF TitleCore, TitleTypeOK
<1>8. TitlesAreOwn'
  <2>1. r.confirmed => r.lastTitle # NoTitle
    BY <1>3, <1>4
  <2>2. c.at \in {"none", "writing"} /\ (c.at = "none" => c.title = NoTitle)
        /\ (c.at = "writing" => c.title.status \notin {"host", "user", "no title"})
    BY <1>4 DEF OwnTitles
  <2>3. ASSUME NEW o \in Milestones
        PROVE  /\ milestone'[o].at \in {"none", "reading"} => milestone'[o].title = NoTitle
               /\ milestone'[o].at = "writing" =>
                    milestone'[o].title.status \notin {"host", "user", "no title"}
    <3>1. CASE o = m
      BY <1>5, <2>2, <3>1
    <3>2. CASE o # m
      BY <1>5, <3>2 DEF TitleCore, TitlesAreOwn
    <3> QED
      BY <3>1, <3>2
  <2> QED
    BY <1>4, <1>6, <2>1, <2>3 DEF TitlesAreOwn
<1>9. OneAtATime'
  BY <1>1, <1>5, StillOneAtATime DEF TitleCore
<1>10. OptsOut(current) <=>
         record.optedOut \/ (/\ record.lastTitle # NoTitle /\ Observed(current)
                             /\ current \notin {NoTitle, record.lastTitle})
  BY DEF OptsOut
<1>11. NothingForeign'
  <2> SUFFICES ASSUME ~renamed, excuse \subseteq {"unread"}
               PROVE  NothingForeign'
    BY <1>1 DEF NothingForeign
  <2>1. OneAtATime /\ "overlap" \notin excuse
    BY DEF TitleCore
  <2>2. \A o \in Milestones : milestone[o].at # "none" => o = m
    BY <1>1, <2>1 DEF OneAtATime, UnderWay
  <2>3. \A o \in Milestones : o # m => milestone'[o].at = "none"
    BY <1>5, <2>2
  <2>4. /\ ~record.optedOut
        /\ record.lastTitle # NoTitle =>
              /\ current \in {NoTitle, record.lastTitle, HostTitle}
              /\ record.confirmed => current # HostTitle
        /\ known /\ record.lastTitle # NoTitle =>
              \/ \E o \in Milestones : milestone[o].at = "writing"
              \/ hostTitle = record.lastTitle
              \/ hostTitle = HostTitle /\ ~ReadBack
    BY <1>1 DEF TitleCore, NothingForeign, current
  <2>5. record.lastTitle # HostTitle
    BY DEF TitleCore, TitlesAreOwn
  <2>6. ~OptsOut(current)
    BY <1>3, <1>10, <2>4, <2>5
  <2>7. ~r.optedOut
    BY <1>4, <2>4, <2>6
  <2>8. CASE r.lastTitle = record.lastTitle /\ c = Calm
    <3>1. \A o \in Milestones : milestone'[o].at = "none"
      BY <1>5, <2>3, <2>8
    <3>2. \A o \in Milestones : milestone[o].at # "writing"
      BY <1>1, <2>2
    <3>3. ReadBack' => r.confirmed
      BY <1>4, <3>1 DEF ReadBack
    <3>4. r.confirmed => ReadBack
      BY <1>1, <1>3, <1>4 DEF ReadBack, current
    <3> QED
      BY <1>1, <1>4, <2>4, <2>7, <2>8, <3>1, <3>2, <3>3, <3>4 DEF NothingForeign
  <2>9. CASE c.at = "writing" /\ c.title = r.lastTitle
    <3>1. milestone'[m].at = "writing" /\ milestone'[m].title = record'.lastTitle
      BY <1>4, <1>5, <2>9
    <3> QED
      BY <1>4, <2>3, <2>7, <3>1 DEF NothingForeign
  <2> QED
    BY <1>4, <2>8, <2>9
<1>12. UserIsHeeded'
  <2> SUFFICES ASSUME kept, "unread" \notin excuse
               PROVE  UserIsHeeded'
    BY <1>1 DEF UserIsHeeded
  <2>1. hostTitle = UserTitle /\ renamed
    BY DEF TitleCore, UserIsHeeded
  <2>2. CASE ~known
    BY <1>1, <2>1, <2>2 DEF UserIsHeeded
  <2>3. CASE known
    <3>1. /\ \A o \in Milestones :
                /\ milestone[o].at # "writing"
                /\ milestone[o].at = "read" => milestone[o].title = UserTitle
          /\ record.optedOut \/ record.confirmed
      BY <2>3 DEF TitleCore, UserIsHeeded
    <3>2. current = UserTitle
      BY <1>1, <3>1 DEF current
    <3>3. record.lastTitle # UserTitle
      BY DEF TitleCore, TitlesAreOwn
    <3>4. OptsOut(current)
      BY <1>2, <1>3, <1>10, <3>1, <3>2, <3>3
    <3>5. r.optedOut /\ c = Calm
      BY <1>4, <3>4
    <3> QED
      BY <1>1, <1>4, <1>5, <2>1, <3>1, <3>5 DEF UserIsHeeded
  <2> QED
    BY <2>2, <2>3
<1> QED
  BY <1>7, <1>8, <1>9, <1>11, <1>12 DEF TitleCore

LEMMA TitleWrittenStep ==
    ASSUME TitleCore, NEW m \in Milestones, TitleWritten(m)
    PROVE  TitleCore'
<1> USE TitleFacts, CallFacts
<1>1. /\ milestone \in [Milestones -> Calls] /\ milestone[m].at = "writing"
      /\ milestone[m] \in Calls /\ milestone[m].title \in Titles
      /\ milestone' = [milestone EXCEPT ![m] = Calm]
      /\ UNCHANGED <<record, milestones, known, renamed, kept>>
      /\ \/ known /\ hostTitle' = milestone[m].title /\ excuse' = excuse
         \/ excuse' = excuse \cup {"write failed"} /\ hostTitle' = hostTitle
  BY DEF TitleCore, TitleTypeOK, TitleWritten, Calls
<1>2. \A o \in Milestones : milestone'[o] = IF o = m THEN Calm ELSE milestone[o]
  BY <1>1
<1>3. TitleTypeOK'
  BY <1>1 DEF TitleCore, TitleTypeOK
<1>4. TitlesAreOwn'
  BY <1>1, <1>2 DEF TitleCore, TitlesAreOwn
<1>5. OneAtATime'
  BY <1>1, <1>2, StillOneAtATime DEF TitleCore
<1>6. NothingForeign'
  <2> SUFFICES ASSUME ~renamed, excuse' \subseteq {"unread"}
               PROVE  NothingForeign'
    BY <1>1 DEF NothingForeign
  <2>1. /\ known /\ hostTitle' = milestone[m].title /\ excuse' = excuse
        /\ OneAtATime /\ "overlap" \notin excuse
    <3>1. "write failed" \notin excuse' /\ "overlap" \notin excuse'
      OBVIOUS
    <3>2. known /\ hostTitle' = milestone[m].title /\ excuse' = excuse
      BY <1>1, <3>1
    <3> QED
      BY <3>1, <3>2 DEF TitleCore
  <2>2. \A o \in Milestones : milestone[o].at # "none" => o = m
    BY <1>1, <2>1 DEF OneAtATime, UnderWay
  <2>3. \A o \in Milestones : milestone'[o].at = "none"
    BY <1>2, <2>2
  <2>4. ~record.optedOut /\ milestone[m].title = record.lastTitle
    BY <1>1, <2>1 DEF TitleCore, NothingForeign
  <2> QED
    BY <1>1, <2>1, <2>3, <2>4 DEF NothingForeign
<1>7. UserIsHeeded'
  BY <1>1, <1>2 DEF TitleCore, UserIsHeeded
<1> QED
  BY <1>3, <1>4, <1>5, <1>6, <1>7 DEF TitleCore

LEMMA TimerSteps ==
    ASSUME TitleCore, ThrottleEnds \/ FreezeEnds
    PROVE  TitleCore'
<1>1. record \in Records /\ record.optedOut \in BOOLEAN /\ record.confirmed \in BOOLEAN
  BY DEF TitleCore, TitleTypeOK, Records
<1>2. UNCHANGED <<hostTitle, milestone, milestones, known, excuse, renamed, kept>>
  BY DEF ThrottleEnds, FreezeEnds
<1>3. /\ record' \in Records /\ record'.lastTitle = record.lastTitle
      /\ record'.optedOut = record.optedOut /\ record'.confirmed = record.confirmed
  <2>1. \/ record' = [record EXCEPT !.recent = FALSE]
        \/ record' = [record EXCEPT !.done = "expired"]
    BY DEF ThrottleEnds, FreezeEnds
  <2> QED
    BY <1>1, <2>1, ThrottleFacts, FreezeFacts
<1>4. TitleTypeOK' /\ TitlesAreOwn' /\ OneAtATime'
  BY <1>2, <1>3 DEF TitleCore, TitleTypeOK, TitlesAreOwn, OneAtATime, UnderWay
<1>5. NothingForeign' /\ UserIsHeeded'
  BY <1>2, <1>3 DEF TitleCore, NothingForeign, UserIsHeeded, ReadBack
<1> QED
  BY <1>4, <1>5 DEF TitleCore

LEMMA UserRenamesStep == TitleCore /\ UserRenames => TitleCore'
<1> SUFFICES ASSUME TitleCore, UserRenames PROVE TitleCore'
  OBVIOUS
<1> USE TitleFacts
<1>1. /\ known /\ hostTitle' = UserTitle /\ renamed'
      /\ kept' = (kept \/ (record.confirmed /\ UnderWay = {}))
      /\ UNCHANGED <<record, milestone, milestones, known, excuse>>
  BY DEF UserRenames
<1>2. TitleTypeOK'
  <2>1. kept' \in BOOLEAN /\ renamed' \in BOOLEAN
    BY <1>1 DEF TitleCore, TitleTypeOK, UserRenames
  <2> QED
    BY <1>1, <2>1 DEF TitleCore, TitleTypeOK
<1>3. TitlesAreOwn' /\ OneAtATime' /\ NothingForeign'
  BY <1>1 DEF TitleCore, TitlesAreOwn, OneAtATime, UnderWay, NothingForeign
<1>4. UserIsHeeded'
  BY <1>1 DEF TitleCore, UserIsHeeded, UnderWay
<1> QED
  BY <1>2, <1>3, <1>4 DEF TitleCore

LEMMA HostRenamesStep == TitleCore /\ HostRenames => TitleCore'
<1> SUFFICES ASSUME TitleCore, HostRenames PROVE TitleCore'
  OBVIOUS
<1> USE TitleFacts
<1>1. /\ known /\ ~renamed /\ hostTitle' = HostTitle
      /\ excuse' = IF ReadBack THEN excuse \cup {"late host title"} ELSE excuse
      /\ UNCHANGED <<record, milestone, milestones, known, renamed, kept>>
  BY DEF HostRenames
<1>2. TitleTypeOK' /\ TitlesAreOwn'
  BY <1>1 DEF TitleCore, TitleTypeOK, TitlesAreOwn
<1>3. OneAtATime' /\ UserIsHeeded'
  BY <1>1 DEF TitleCore, OneAtATime, UnderWay, UserIsHeeded
<1>4. NothingForeign'
  <2> SUFFICES ASSUME excuse' \subseteq {"unread"} PROVE NothingForeign'
    BY DEF NothingForeign
  <2>1. ~ReadBack /\ excuse \subseteq {"unread"}
    BY <1>1
  <2>2. ReadBack' <=> ReadBack
    BY <1>1 DEF ReadBack
  <2> QED
    BY <1>1, <2>1, <2>2 DEF TitleCore, NothingForeign
<1> QED
  BY <1>2, <1>3, <1>4 DEF TitleCore

LEMMA SessionForgottenStep == TitleCore /\ SessionForgotten => TitleCore'
<1> SUFFICES ASSUME TitleCore, SessionForgotten PROVE TitleCore'
  OBVIOUS
<1> USE TitleFacts, CallFacts
<1>1. /\ known' = FALSE /\ record' = NewRecord
      /\ UNCHANGED <<hostTitle, milestone, milestones, excuse, renamed, kept>>
  BY DEF SessionForgotten
<1>2. TitleTypeOK' /\ TitlesAreOwn'
  BY <1>1 DEF TitleCore, TitleTypeOK, TitlesAreOwn
<1>3. OneAtATime' /\ UserIsHeeded' /\ NothingForeign'
  BY <1>1 DEF TitleCore, OneAtATime, UnderWay, UserIsHeeded, NothingForeign
<1> QED
  BY <1>2, <1>3 DEF TitleCore

LEMMA TitleStep == TitleInv /\ [TitleNext]_titleVars => TitleInv'
<1> SUFFICES ASSUME TitleCore, [TitleNext]_titleVars PROVE TitleCore'
  <2>1. (TitleInv <=> TitleCore)'
    BY TitleInvSplits, PTL
  <2> QED
    BY <2>1, TitleInvSplits
<1>1. CASE UNCHANGED titleVars
  BY <1>1 DEF titleVars, TitleCore, TitleTypeOK, TitlesAreOwn, OneAtATime,
              UnderWay, NothingForeign, UserIsHeeded, ReadBack
<1> QED
  BY <1>1, ReachedStep, TitleReadStep, DispatchEndsStep, DecidesStep,
     TitleWrittenStep, TimerSteps, UserRenamesStep, HostRenamesStep,
     SessionForgottenStep DEF TitleNext

\* A step from a title the user gave with everything in order leaves it.
LEMMA UserTitleStays ==
    TitleInv /\ [TitleNext]_titleVars =>
        (kept /\ "unread" \notin excuse /\ hostTitle = UserTitle
            => hostTitle' = UserTitle)
<1> SUFFICES ASSUME TitleInv, [TitleNext]_titleVars, kept, "unread" \notin excuse
             PROVE  hostTitle' = UserTitle
  OBVIOUS
<1>1. hostTitle = UserTitle /\ renamed
      /\ (known => \A m \in Milestones : milestone[m].at # "writing")
  BY DEF TitleInv, UserIsHeeded
<1>2. CASE UNCHANGED titleVars
  BY <1>1, <1>2 DEF titleVars
<1>3. ASSUME NEW m \in Milestones, TitleWritten(m) PROVE hostTitle' = hostTitle
  BY <1>1, <1>3 DEF TitleWritten
<1>4. ~HostRenames
  BY <1>1 DEF HostRenames
<1> QED
  BY <1>1, <1>2, <1>3, <1>4 DEF TitleNext, MilestoneReached, Decides, TitleRead,
     DispatchEnds, ThrottleEnds, FreezeEnds, UserRenames, SessionForgotten

-----------------------------------------------------------------------------
(* Fetch tracker: the cache with its limit, what was shown and refused.    *)

\* What is left of the cache without one of its entries.
LEMMA RemovedFacts ==
    ASSUME NEW S, NEW s \in Seq(S), NEW i \in 1..Len(s)
    PROVE  /\ RemoveAt(s, i) \in Seq(S) /\ Len(RemoveAt(s, i)) = Len(s) - 1
           /\ \A j \in 1..Len(RemoveAt(s, i)) :
                \E l \in 1..Len(s) : RemoveAt(s, i)[j] = s[l]
<1> DEFINE a == SubSeq(s, 1, i - 1)
           b == SubSeq(s, i + 1, Len(s))
<1>1. RemoveAt(s, i) = a \o b
  BY DEF RemoveAt
<1>2. /\ a \in Seq(S) /\ Len(a) = i - 1
      /\ \A j \in 1..(i - 1) : a[j] = s[j]
  <2>1. \A j \in 1..(i - 1) : s[j] \in S
    BY ElementOfSeq, LenProperties
  <2> QED
    BY <2>1, SubSeqProperties, LenProperties, Z3
<1>3. /\ b \in Seq(S) /\ Len(b) = Len(s) - i
      /\ \A j \in 1..(Len(s) - i) : b[j] = s[i + j]
  <2>1. \A j \in (i + 1)..Len(s) : s[j] \in S
    BY ElementOfSeq, LenProperties
  <2> QED
    BY <2>1, SubSeqProperties, LenProperties, Z3
<1> HIDE DEF a, b
<1>4. /\ a \o b \in Seq(S) /\ Len(a \o b) = Len(s) - 1
      /\ \A j \in 1..(Len(s) - 1) :
           (a \o b)[j] = IF j <= i - 1 THEN a[j] ELSE b[j - (i - 1)]
  <2>1. Len(s) \in Nat /\ Len(a) + Len(b) = Len(s) - 1
    BY <1>2, <1>3, LenProperties
  <2>2. /\ a \o b \in Seq(S) /\ Len(a \o b) = Len(a) + Len(b)
        /\ \A j \in 1..Len(a) + Len(b) :
             (a \o b)[j] = IF j <= Len(a) THEN a[j] ELSE b[j - Len(a)]
    BY <1>2, <1>3, ConcatProperties
  <2> QED
    BY <1>2, <2>1, <2>2
<1>5. \A j \in 1..(Len(s) - 1) : \E l \in 1..Len(s) : (a \o b)[j] = s[l]
  <2> SUFFICES ASSUME NEW j \in 1..(Len(s) - 1)
               PROVE  \E l \in 1..Len(s) : (a \o b)[j] = s[l]
    OBVIOUS
  <2> USE LenProperties
  <2>1. CASE j <= i - 1
    <3>1. j \in 1..Len(s) /\ (a \o b)[j] = s[j]
      BY <2>1, <1>2, <1>4
    <3> QED
      BY <3>1
  <2>2. CASE ~(j <= i - 1)
    <3>1. j + 1 \in 1..Len(s) /\ j - (i - 1) \in 1..(Len(s) - i)
          /\ i + (j - (i - 1)) = j + 1
      BY <2>2
    <3>2. (a \o b)[j] = s[j + 1]
      BY <2>2, <3>1, <1>3, <1>4
    <3> QED
      BY <3>1, <3>2
  <2> QED
    BY <2>1, <2>2
<1> QED
  BY <1>1, <1>4, <1>5

LEMMA WithoutFacts ==
    ASSUME cached \in Seq(Entries), NEW k \in Resources
    PROVE  /\ Without(k) \in Seq(Entries)
           /\ Len(Without(k)) <= Len(cached)
           /\ Has(k) => Len(Without(k)) = Len(cached) - 1
           /\ \A e \in ToSet(Without(k)) : e \in ToSet(cached)
<1>1. CASE ~Has(k)
  BY <1>1, LenProperties DEF Without
<1>2. CASE Has(k)
  <2>1. PlaceOf(k) \in 1..Len(cached)
    BY <1>2, LenProperties DEF Has, PlaceOf, ToSet
  <2> DEFINE w == RemoveAt(cached, PlaceOf(k))
  <2>2. /\ w \in Seq(Entries) /\ Len(w) = Len(cached) - 1
        /\ \A j \in 1..Len(w) : \E l \in 1..Len(cached) : w[j] = cached[l]
    BY <2>1, RemovedFacts
  <2>3. Without(k) = w
    BY <1>2 DEF Without
  <2> HIDE DEF w
  <2>4. \A e \in ToSet(w) : e \in ToSet(cached)
    BY <2>2, LenProperties DEF ToSet
  <2> QED
    BY <1>2, <2>2, <2>3, <2>4, LenProperties
<1> QED
  BY <1>1, <1>2

LEMMA AppendedFacts ==
    ASSUME NEW S, NEW s \in Seq(S), NEW e \in S
    PROVE  /\ Append(s, e) \in Seq(S) /\ Len(Append(s, e)) = Len(s) + 1
           /\ \A d \in ToSet(Append(s, e)) : d \in ToSet(s) \/ d = e
<1>1. Append(s, e) \in Seq(S) /\ Len(Append(s, e)) = Len(s) + 1
  BY LenProperties
<1>2. \A i \in 1..(Len(s) + 1) : \/ i \in 1..Len(s) /\ Append(s, e)[i] = s[i]
                                 \/ Append(s, e)[i] = e
  BY LenProperties
<1> QED
  BY <1>1, <1>2, LenProperties DEF ToSet

LEMMA EntryFacts ==
    ASSUME cached \in Seq(Entries), NEW k \in Resources, Has(k)
    PROVE  EntryOf(k) \in ToSet(cached) /\ EntryOf(k) \in Entries /\ EntryOf(k).key = k
<1>1. EntryOf(k) \in ToSet(cached) /\ EntryOf(k).key = k
  BY DEF Has, EntryOf
<1>2. ToSet(cached) \subseteq Entries
  BY ElementOfSeq, LenProperties DEF ToSet
<1> QED
  BY <1>1, <1>2

LEMMA StoredFacts ==
    ASSUME cached \in Seq(Entries), Len(cached) <= MaxEntries,
           NEW k \in Resources, NEW v \in 1..MaxVersion
    PROVE  /\ Stored(k, v) \in Seq(Entries) /\ Len(Stored(k, v)) <= MaxEntries
           /\ \A e \in ToSet(Stored(k, v)) :
                e \in ToSet(cached) \/ e = [key |-> k, version |-> v]
<1> DEFINE new == [key |-> k, version |-> v]
           rest == IF ~Has(k) /\ Len(cached) >= MaxEntries
                   THEN Tail(cached) ELSE Without(k)
<1>0. MaxEntries \in Nat /\ MaxEntries > 0 /\ Len(cached) \in Nat
  BY FetchAssumption, LenProperties
<1>1. new \in Entries
  BY DEF Entries
<1>2. /\ rest \in Seq(Entries) /\ Len(rest) < MaxEntries
      /\ \A e \in ToSet(rest) : e \in ToSet(cached)
  <2>1. CASE ~Has(k) /\ Len(cached) >= MaxEntries
    <3>1. cached # <<>>
      BY <1>0, <2>1
    <3>2. /\ Tail(cached) \in Seq(Entries) /\ Len(Tail(cached)) = Len(cached) - 1
          /\ \A i \in 1..Len(Tail(cached)) : Tail(cached)[i] = cached[i + 1]
      BY <3>1, HeadTailProperties
    <3>3. \A e \in ToSet(Tail(cached)) : e \in ToSet(cached)
      BY <3>2, <1>0, LenProperties DEF ToSet
    <3> QED
      BY <1>0, <2>1, <3>2, <3>3
  <2>2. CASE Has(k)
    <3>1. Len(cached) > 0
      BY <2>2, <1>0, LenProperties DEF Has, ToSet
    <3> QED
      BY <2>2, <3>1, <1>0, WithoutFacts
  <2>3. CASE ~Has(k) /\ ~(Len(cached) >= MaxEntries)
    BY <2>3, <1>0, WithoutFacts DEF Without
  <2> QED
    BY <2>1, <2>2, <2>3
<1>3. Stored(k, v) = Append(rest, new)
  BY DEF Stored
<1> HIDE DEF rest
<1>4. /\ Append(rest, new) \in Seq(Entries) /\ Len(Append(rest, new)) = Len(rest) + 1
      /\ \A d \in ToSet(Append(rest, new)) : d \in ToSet(rest) \/ d = new
  BY <1>1, <1>2, AppendedFacts
<1> QED
  BY <1>0, <1>2, <1>3, <1>4, LenProperties

LEMMA FetchStart == FetchInit => FetchInv
<1> SUFFICES ASSUME FetchInit PROVE FetchInv
  OBVIOUS
<1>1. MaxVersion >= 1 /\ MaxVersion \in Nat /\ MaxCalls \in Nat /\ MaxEntries \in Nat
  BY FetchAssumption
<1>2. cached \in Seq(Entries) /\ Len(cached) <= MaxEntries /\ ToSet(cached) = {}
  BY <1>1 DEF FetchInit, ToSet
<1>3. FetchTypeOK
  BY <1>1, <1>2 DEF FetchInit, FetchTypeOK
<1>4. ShownBefore /\ CountedWasShown
  BY <1>1, <1>2 DEF FetchInit, ShownBefore, CountedWasShown
<1> QED
  BY <1>3, <1>4 DEF FetchInv

\* How the count of a call moves.
LEMMA CountFacts ==
    ASSUME FetchTypeOK, NEW k \in Resources
    PROVE  /\ Count(k) \in 0..(MaxCalls + 1) /\ Count(k) > 0
           /\ Count(k) > MaxCalls => calls[k] > 0
<1>1. calls[k] \in 0..(MaxCalls + 1) /\ MaxCalls \in Nat /\ MaxCalls > 0
  BY FetchAssumption DEF FetchTypeOK
<1> QED
  BY <1>1 DEF Count

\* A version that is shown is added to those the conversation was shown.
LEMMA ShownGrows ==
    ASSUME FetchInv, NEW k \in Resources, NEW v \in 1..MaxVersion,
           shown' = [shown EXCEPT ![k] = @ \cup {v}]
    PROVE  /\ shown' \in [Resources -> SUBSET (1..MaxVersion)]
           /\ v \in shown'[k] /\ \A d \in Resources : shown[d] \subseteq shown'[d]
BY DEF FetchInv, FetchTypeOK

LEMMA FetchBlockedStep ==
    ASSUME FetchInv, NEW k \in Resources, FetchBlocked(k)
    PROVE  FetchInv'
<1>1. /\ Count(k) \in 0..(MaxCalls + 1)
      /\ Count(k) > MaxCalls => calls[k] > 0
  BY CountFacts DEF FetchInv
<1>2. FetchTypeOK'
  BY <1>1 DEF FetchInv, FetchTypeOK, FetchBlocked
<1>3. shown[k] # {} \/ k \in empty
  BY <1>1 DEF FetchInv, CountedWasShown, FetchBlocked
<1>4. ShownBefore'
  BY <1>3 DEF FetchInv, ShownBefore, FetchBlocked
<1>5. CountedWasShown'
  BY <1>3 DEF FetchInv, FetchTypeOK, CountedWasShown, FetchBlocked
<1> QED
  BY <1>2, <1>4, <1>5 DEF FetchInv

LEMMA FetchCachedStep ==
    ASSUME FetchInv, NEW k \in Resources, FetchCached(k)
    PROVE  FetchInv'
<1> DEFINE e == EntryOf(k)
<1>1. Count(k) \in 0..(MaxCalls + 1)
  BY CountFacts DEF FetchInv
<1>2. Has(k) /\ cached \in Seq(Entries) /\ Len(cached) \in Nat
      /\ Len(cached) <= MaxEntries
  BY LenProperties DEF FetchInv, FetchTypeOK, FetchCached
<1>3. e \in ToSet(cached) /\ e \in Entries /\ e.key = k
  BY <1>2, EntryFacts
<1>4. /\ Without(k) \in Seq(Entries) /\ Len(Without(k)) = Len(cached) - 1
      /\ \A d \in ToSet(Without(k)) : d \in ToSet(cached)
  BY <1>2, WithoutFacts
<1>5. /\ cached' \in Seq(Entries) /\ Len(cached') = Len(Without(k)) + 1
      /\ \A d \in ToSet(cached') : d \in ToSet(Without(k)) \/ d = e
  BY <1>3, <1>4, AppendedFacts DEF FetchCached
<1>6. Len(cached') <= MaxEntries
  BY <1>2, <1>4, <1>5, FetchAssumption
<1>7. e.version \in 1..MaxVersion
  BY <1>3 DEF Entries
<1>8. /\ shown' \in [Resources -> SUBSET (1..MaxVersion)]
      /\ e.version \in shown'[k]
      /\ \A d \in Resources : shown[d] \subseteq shown'[d]
  BY <1>7, ShownGrows DEF FetchCached
<1>9. FetchTypeOK'
  BY <1>1, <1>5, <1>6, <1>8 DEF FetchInv, FetchTypeOK, FetchCached
<1>10. ShownBefore'
  <2>1. blocked \subseteq Resources /\ blocked' = blocked /\ empty' = empty
    BY DEF FetchInv, FetchTypeOK, FetchCached
  <2>2. \A d \in ToSet(cached) : d.key \in Resources /\ d.version \in shown[d.key]
    <3>1. ToSet(cached) \subseteq Entries
      BY <1>2, ElementOfSeq, LenProperties DEF ToSet
    <3> QED
      BY <3>1 DEF FetchInv, ShownBefore, Entries
  <2>3. \A b \in blocked : shown[b] # {} \/ b \in empty
    BY DEF FetchInv, ShownBefore
  <2> HIDE DEF e
  <2> QED
    BY <1>3, <1>4, <1>5, <1>8, <2>1, <2>2, <2>3 DEF ShownBefore
<1>11. CountedWasShown'
  <2>1. shown'[k] # {}
    BY <1>8
  <2> QED
    BY <1>8, <2>1 DEF FetchInv, FetchTypeOK, CountedWasShown, FetchCached
<1> QED
  BY <1>9, <1>10, <1>11 DEF FetchInv

LEMMA FetchStoredStep ==
    ASSUME FetchInv, NEW k \in Resources, NEW result \in {"some", "none"},
           FetchStored(k, result)
    PROVE  FetchInv'
<1>1. Count(k) \in 0..(MaxCalls + 1)
  BY CountFacts DEF FetchInv
<1>2. /\ cached \in Seq(Entries) /\ Len(cached) \in Nat
      /\ Len(cached) <= MaxEntries /\ version[k] \in 1..MaxVersion
      /\ ToSet(cached) \subseteq Entries
  BY LenProperties, ElementOfSeq DEF FetchInv, FetchTypeOK, ToSet
<1>3. \A d \in ToSet(cached) : d.key \in Resources /\ d.version \in shown[d.key]
  BY <1>2 DEF FetchInv, ShownBefore, Entries
<1>4. \A b \in blocked : shown[b] # {} \/ b \in empty
  BY DEF FetchInv, ShownBefore
<1>5. blocked \subseteq Resources /\ blocked' = blocked /\ version' = version
  BY DEF FetchInv, FetchTypeOK, FetchStored
<1>6. CASE result = "some"
  <2>1. /\ cached' = Stored(k, version[k]) /\ expired' = expired \ {k}
        /\ shown' = [shown EXCEPT ![k] = @ \cup {version[k]}]
        /\ empty' = empty
    BY <1>6 DEF FetchStored
  <2>2. /\ cached' \in Seq(Entries) /\ Len(cached') <= MaxEntries
        /\ \A e \in ToSet(cached') :
             e \in ToSet(cached) \/ e = [key |-> k, version |-> version[k]]
    BY <1>2, <2>1, StoredFacts
  <2>3. /\ shown' \in [Resources -> SUBSET (1..MaxVersion)]
        /\ version[k] \in shown'[k]
        /\ \A d \in Resources : shown[d] \subseteq shown'[d]
    BY <1>2, <2>1, ShownGrows
  <2>4. FetchTypeOK'
    BY <1>1, <1>5, <2>1, <2>2, <2>3 DEF FetchInv, FetchTypeOK, FetchStored
  <2>5. ShownBefore'
    <3>1. \A e \in ToSet(cached') : e.version \in shown'[e.key]
      BY <1>3, <2>2, <2>3
    <3>2. \A b \in blocked' : shown'[b] # {} \/ b \in empty'
      BY <1>4, <1>5, <2>1, <2>3
    <3> QED
      BY <3>1, <3>2 DEF ShownBefore
  <2>6. CountedWasShown'
    <3>1. shown'[k] # {}
      BY <2>3
    <3> QED
      BY <2>1, <2>3, <3>1 DEF FetchInv, FetchTypeOK, CountedWasShown, FetchStored
  <2> QED
    BY <2>4, <2>5, <2>6 DEF FetchInv
<1>7. CASE result # "some"
  <2>1. /\ cached' = IF Has(k) THEN Append(Without(k), EntryOf(k)) ELSE cached
        /\ expired' = expired /\ shown' = shown /\ empty' = empty \cup {k}
    BY <1>7 DEF FetchStored
  <2>2. /\ cached' \in Seq(Entries) /\ Len(cached') <= MaxEntries
        /\ \A e \in ToSet(cached') : e \in ToSet(cached)
    <3>1. CASE Has(k)
      <4>1. EntryOf(k) \in ToSet(cached) /\ EntryOf(k) \in Entries
        BY <1>2, <3>1, EntryFacts
      <4>2. /\ Without(k) \in Seq(Entries) /\ Len(Without(k)) = Len(cached) - 1
            /\ \A d \in ToSet(Without(k)) : d \in ToSet(cached)
        BY <1>2, <3>1, WithoutFacts
      <4>3. /\ cached' \in Seq(Entries) /\ Len(cached') = Len(Without(k)) + 1
            /\ \A d \in ToSet(cached') : d \in ToSet(Without(k)) \/ d = EntryOf(k)
        BY <2>1, <3>1, <4>1, <4>2, AppendedFacts
      <4>4. Len(cached') <= MaxEntries
        BY <1>2, <4>2, <4>3, FetchAssumption
      <4> QED
        BY <4>1, <4>2, <4>3, <4>4
    <3>2. CASE ~Has(k)
      BY <1>2, <2>1, <3>2
    <3> QED
      BY <3>1, <3>2
  <2>3. FetchTypeOK'
    BY <1>1, <1>5, <2>1, <2>2 DEF FetchInv, FetchTypeOK, FetchStored
  <2>4. ShownBefore'
    <3>1. \A e \in ToSet(cached') : e.version \in shown'[e.key]
      BY <1>3, <2>1, <2>2
    <3> QED
      BY <1>4, <1>5, <2>1, <3>1 DEF ShownBefore
  <2>5. CountedWasShown'
    BY <2>1 DEF FetchInv, FetchTypeOK, CountedWasShown, FetchStored
  <2> QED
    BY <2>3, <2>4, <2>5 DEF FetchInv
<1> QED
  BY <1>6, <1>7

LEMMA FetchStep == FetchInv /\ [FetchNext]_fetchVars => FetchInv'
<1> SUFFICES ASSUME FetchInv, [FetchNext]_fetchVars PROVE FetchInv'
  OBVIOUS
<1>1. CASE \E k \in Resources : EntryExpires(k)
  BY <1>1 DEF EntryExpires, FetchInv, FetchTypeOK, ShownBefore, CountedWasShown
<1>2. ASSUME NEW k \in Resources, ResourceChanges(k) PROVE FetchInv'
  <2>1. version' \in [Resources -> 1..MaxVersion]
    BY <1>2, FetchAssumption DEF ResourceChanges, FetchInv, FetchTypeOK
  <2> QED
    BY <1>2, <2>1
    DEF ResourceChanges, FetchInv, FetchTypeOK, ShownBefore, CountedWasShown
<1>3. CASE FetchesCleared
  <2>1. MaxCalls \in Nat /\ MaxEntries \in Nat
    BY FetchAssumption
  <2>2. cached' \in Seq(Entries) /\ Len(cached') <= MaxEntries /\ ToSet(cached') = {}
    BY <1>3, <2>1 DEF FetchesCleared, ToSet
  <2>3. FetchTypeOK'
    BY <1>3, <2>1, <2>2 DEF FetchesCleared, FetchInv, FetchTypeOK
  <2>4. ShownBefore' /\ CountedWasShown'
    BY <1>3, <2>2 DEF FetchesCleared, ShownBefore, CountedWasShown
  <2> QED
    BY <2>3, <2>4 DEF FetchInv
<1>4. CASE UNCHANGED fetchVars
  BY <1>4 DEF fetchVars, FetchInv, FetchTypeOK, ShownBefore, CountedWasShown
<1> QED
  BY <1>1, <1>2, <1>3, <1>4, FetchBlockedStep, FetchCachedStep, FetchStoredStep
  DEF FetchNext

-----------------------------------------------------------------------------
(* Constraint review: reviews of one file that overlap, and the override.  *)

LEMMA ReviewStart == ReviewInit => ReviewInv
<1> SUFFICES ASSUME ReviewInit PROVE ReviewInv
  OBVIOUS
<1>1. MaxRetries \in Nat /\ MaxOverrides \in Nat
  BY ReviewAssumption
<1>2. NoRetries \in Counts /\ \A f \in Files : NoRetries[f] = 0
  BY <1>1 DEF NoRetries, Counts
<1>3. ReviewTypeOK
  <2>1. review \in [Reviews -> [file : Files \cup {NoFile}, orphan : BOOLEAN]]
    BY DEF ReviewInit, Idle
  <2>2. {override, dropped} \subseteq BOOLEAN
    BY DEF ReviewInit
  <2>3. rejected \in [Files -> Nat]
    BY DEF ReviewInit, NoRetries
  <2>4. overrides \in 0..MaxOverrides /\ skipped \in Nat
    BY <1>1 DEF ReviewInit
  <2> QED
    BY <1>2, <2>1, <2>2, <2>3, <2>4 DEF ReviewInit, ReviewTypeOK
<1>4. RaisedInTime /\ OverrideIsUsedUp /\ OverridesAreCounted
  BY <1>1, <1>2 DEF ReviewInit, RaisedInTime, OverrideIsUsedUp, OverridesAreCounted, Idle
<1> QED
  BY <1>3, <1>4 DEF ReviewInv

\* A review that ends and leaves the counts of this session with its
\* rejections, each at most MaxRetries.
CountedTogether ==
    /\ retries' \in Counts /\ orphaned' \in Counts /\ rejected' \in [Files -> Nat]
    /\ \A f \in Files : rejected'[f] <= MaxRetries /\ rejected'[f] = retries'[f]

LEMMA ReviewEnds ==
    ASSUME ReviewInv, NEW r \in Reviews, Ends(r), CountedTogether,
           UNCHANGED <<override, dropped, overrides, skipped>>
    PROVE  ReviewInv'
<1>1. review' \in [Reviews -> [file : Files \cup {NoFile}, orphan : BOOLEAN]]
      /\ \A q \in Reviews : review'[q] = review[q] \/ review'[q] = Idle
  BY DEF ReviewInv, ReviewTypeOK, Ends, Idle
<1>2. ReviewTypeOK'
  BY <1>1 DEF ReviewInv, ReviewTypeOK, CountedTogether
<1>3. RaisedInTime'
  BY DEF CountedTogether, RaisedInTime
<1>4. OverrideIsUsedUp' /\ OverridesAreCounted'
  BY <1>1 DEF ReviewInv, OverrideIsUsedUp, OverridesAreCounted, Idle
<1> QED
  BY <1>2, <1>3, <1>4 DEF ReviewInv

\* What a review does to the count of its file, in the state it holds.
LEMMA CountsMove ==
    ASSUME ReviewInv, NEW r \in Reviews, review[r] # Idle,
           NEW n \in 0..MaxRetries,
           CountsBecome(r, [CountsOf(r) EXCEPT ![review[r].file] = n]),
           ~review[r].orphan => rejected' = [rejected EXCEPT ![review[r].file] = n]
    PROVE  CountedTogether
<1>1. MaxRetries \in Nat
  BY ReviewAssumption
<1>2. retries \in Counts /\ orphaned \in Counts /\ rejected \in [Files -> Nat]
  BY DEF ReviewInv, ReviewTypeOK
<1>3. \A f \in Files : rejected[f] <= MaxRetries /\ rejected[f] = retries[f]
  BY DEF ReviewInv, RaisedInTime
<1>4. CASE review[r].orphan
  <2>1. /\ orphaned' = [orphaned EXCEPT ![review[r].file] = n]
        /\ retries' = retries /\ rejected' = rejected
    BY <1>4 DEF CountsBecome, CountsOf
  <2> QED
    BY <1>1, <1>2, <1>3, <2>1 DEF CountedTogether, Counts
<1>5. CASE ~review[r].orphan
  <2>1. /\ retries' = [retries EXCEPT ![review[r].file] = n]
        /\ orphaned' = orphaned
        /\ rejected' = [rejected EXCEPT ![review[r].file] = n]
    BY <1>5 DEF CountsBecome, CountsOf
  <2>2. retries' \in Counts /\ orphaned' \in Counts /\ rejected' \in [Files -> Nat]
    <3>1. n \in Nat
      BY <1>1
    <3> QED
      BY <1>2, <2>1, <3>1 DEF Counts
  <2>3. \A f \in Files : rejected'[f] <= MaxRetries /\ rejected'[f] = retries'[f]
    BY <1>1, <1>2, <1>3, <2>1 DEF Counts
  <2> QED
    BY <2>2, <2>3 DEF CountedTogether
<1> QED
  BY <1>4, <1>5

LEMMA ReviewVerdicts ==
    ASSUME ReviewInv, NEW r \in Reviews, Passed(r) \/ Retried(r) \/ Raised(r)
    PROVE  ReviewInv'
<1> DEFINE f == review[r].file
<1>1. MaxRetries \in Nat
  BY ReviewAssumption
<1>2. /\ Ends(r) /\ review[r] # Idle
      /\ UNCHANGED <<override, dropped, overrides, skipped>>
  BY DEF Passed, Retried, Raised
<1>3. CASE Passed(r) \/ Raised(r)
  <2>1. /\ CountsBecome(r, [CountsOf(r) EXCEPT ![f] = 0])
        /\ ~review[r].orphan => rejected' = [rejected EXCEPT ![f] = 0]
    BY <1>3 DEF Passed, Raised
  <2> QED
    BY <1>1, <1>2, <2>1, CountsMove, ReviewEnds
<1>4. CASE Retried(r)
  <2> DEFINE n == CountsOf(r)[f] + 1
  <2>1. f \in Files /\ CountsOf(r) \in Counts
    <3>1. review[r] \in [file : Files \cup {NoFile}, orphan : BOOLEAN]
      BY DEF ReviewInv, ReviewTypeOK
    <3>2. review[r].orphan => f \in Files
      BY DEF ReviewInv, OverridesAreCounted
    <3>3. ~review[r].orphan => f # NoFile
      BY <1>2, <3>1 DEF Idle
    <3> QED
      BY <3>1, <3>2, <3>3 DEF ReviewInv, ReviewTypeOK, CountsOf
  <2>2. CountsOf(r)[f] < MaxRetries
    BY <1>4 DEF Retried
  <2>3. n \in 0..MaxRetries
    BY <1>1, <2>1, <2>2 DEF Counts
  <2>4. CountsBecome(r, [CountsOf(r) EXCEPT ![f] = n])
    BY <1>4 DEF Retried
  <2>5. ~review[r].orphan => rejected' = [rejected EXCEPT ![f] = n]
    <3> SUFFICES ASSUME ~review[r].orphan
                 PROVE  rejected' = [rejected EXCEPT ![f] = n]
      OBVIOUS
    <3>1. rejected' = [rejected EXCEPT ![f] = rejected[f] + 1]
      BY <1>4 DEF Retried
    <3>2. rejected[f] = CountsOf(r)[f]
      BY <2>1 DEF CountsOf, ReviewInv, RaisedInTime
    <3> QED
      BY <3>1, <3>2
  <2> HIDE DEF n
  <2> QED
    BY <1>2, <2>3, <2>4, <2>5, CountsMove, ReviewEnds
<1> QED
  BY <1>3, <1>4

LEMMA ReviewStep == ReviewInv /\ [ReviewNext]_reviewVars => ReviewInv'
<1> SUFFICES ASSUME ReviewInv, [ReviewNext]_reviewVars PROVE ReviewInv'
  OBVIOUS
<1>1. MaxRetries \in Nat /\ MaxOverrides \in Nat
  BY ReviewAssumption
<1>2. CASE WriteSkipped
  <2>1. skipped \in Nat /\ overrides \in Nat /\ skipped < overrides
    BY <1>1, <1>2 DEF WriteSkipped, ReviewInv, ReviewTypeOK, OverridesAreCounted
  <2>2. ReviewTypeOK'
    <3>1. {override', dropped'} \subseteq BOOLEAN
      BY <1>2 DEF WriteSkipped, ReviewInv, ReviewTypeOK
    <3>2. skipped' \in Nat
      BY <1>2, <2>1 DEF WriteSkipped
    <3> QED
      BY <1>2, <3>1, <3>2 DEF WriteSkipped, ReviewInv, ReviewTypeOK
  <2>3. RaisedInTime' /\ OverrideIsUsedUp' /\ OverridesAreCounted'
    BY <1>2, <2>1 DEF WriteSkipped, ReviewInv, RaisedInTime, OverrideIsUsedUp,
                      OverridesAreCounted
  <2> QED
    BY <2>2, <2>3 DEF ReviewInv
<1>3. CASE OverrideGiven
  <2>1. /\ skipped \in Nat /\ overrides \in Nat /\ skipped <= overrides
        /\ overrides' = overrides + 1 /\ overrides' \in 0..MaxOverrides
    BY <1>1, <1>3 DEF OverrideGiven, ReviewInv, ReviewTypeOK, OverrideIsUsedUp
  <2>2. ReviewTypeOK'
    BY <1>3, <2>1 DEF OverrideGiven, ReviewInv, ReviewTypeOK
  <2>3. RaisedInTime' /\ OverrideIsUsedUp' /\ OverridesAreCounted'
    BY <1>3, <2>1 DEF OverrideGiven, ReviewInv, RaisedInTime, OverrideIsUsedUp,
                      OverridesAreCounted
  <2> QED
    BY <2>2, <2>3 DEF ReviewInv
<1>4. CASE ReviewsCleaned
  <2>1. /\ NoRetries \in Counts /\ NoRetries \in [Files -> Nat]
        /\ \A f \in Files : NoRetries[f] = 0
    BY <1>1 DEF NoRetries, Counts
  <2>2. /\ review' \in [Reviews -> [file : Files \cup {NoFile}, orphan : BOOLEAN]]
        /\ \A r \in Reviews : /\ review'[r].file = review[r].file
                              /\ review'[r].orphan <=> review[r] # Idle
    BY <1>4 DEF ReviewsCleaned, ReviewInv, ReviewTypeOK
  <2>3. \A r \in Reviews : review'[r].orphan => review'[r].file \in Files
    <3> SUFFICES ASSUME NEW r \in Reviews, review'[r].orphan
                 PROVE  review[r].file \in Files
      BY <2>2
    <3>1. review[r] \in [file : Files \cup {NoFile}, orphan : BOOLEAN] /\ review[r] # Idle
      BY <2>2 DEF ReviewInv, ReviewTypeOK
    <3>2. review[r].orphan => review[r].file \in Files
      BY DEF ReviewInv, OverridesAreCounted
    <3> QED
      BY <3>1, <3>2 DEF Idle
  <2>4. ReviewTypeOK'
    BY <1>4, <2>1, <2>2 DEF ReviewsCleaned, ReviewInv, ReviewTypeOK
  <2>5. RaisedInTime' /\ OverrideIsUsedUp' /\ OverridesAreCounted'
    BY <1>1, <1>4, <2>1, <2>3 DEF ReviewsCleaned, ReviewInv, RaisedInTime,
                             OverrideIsUsedUp, OverridesAreCounted
  <2> QED
    BY <2>4, <2>5 DEF ReviewInv
<1>5. ASSUME NEW r \in Reviews, NEW f \in Files, ReviewStarts(r, f)
      PROVE  ReviewInv'
  <2>1. /\ review' \in [Reviews -> [file : Files \cup {NoFile}, orphan : BOOLEAN]]
        /\ \A q \in Reviews : review'[q] = review[q] \/ review'[q].orphan = FALSE
    BY <1>5 DEF ReviewStarts, ReviewInv, ReviewTypeOK
  <2>2. ReviewTypeOK'
    BY <1>5, <2>1 DEF ReviewStarts, ReviewInv, ReviewTypeOK
  <2>3. RaisedInTime' /\ OverrideIsUsedUp' /\ OverridesAreCounted'
    BY <1>5, <2>1 DEF ReviewStarts, ReviewInv, RaisedInTime, OverrideIsUsedUp,
                      OverridesAreCounted
  <2> QED
    BY <2>2, <2>3 DEF ReviewInv
<1>6. ASSUME NEW r \in Reviews, ReviewFails(r) PROVE ReviewInv'
  <2>1. CountedTogether
    BY <1>6 DEF ReviewFails, CountedTogether, ReviewInv, ReviewTypeOK, RaisedInTime
  <2> QED
    BY <1>6, <2>1, ReviewEnds DEF ReviewFails
<1>7. CASE UNCHANGED reviewVars
  BY <1>7 DEF reviewVars, ReviewInv, ReviewTypeOK, RaisedInTime, OverrideIsUsedUp,
              OverridesAreCounted
<1> QED
  BY <1>2, <1>3, <1>4, <1>5, <1>6, <1>7, ReviewVerdicts DEF ReviewNext

-----------------------------------------------------------------------------
(* Prompt injection: what requests that await share.                       *)

LEMMA InjectionStart == InjectionInit => InjectionInv
<1> SUFFICES ASSUME InjectionInit PROVE InjectionInv
  OBVIOUS
<1>1. MaxRequests \in Nat
  BY InjectionAssumption
<1>2. InjectionTypeOK
  <2>1. {freshRoot, abandoned} \subseteq BOOLEAN
    BY DEF InjectionInit
  <2>2. requests \in 0..MaxRequests
    BY <1>1 DEF InjectionInit
  <2>3. request \in [Sessions -> [at : Awaits, task : Tasks \cup {NoTask}]]
    BY DEF InjectionInit, NoRequest, Awaits
  <2> QED
    BY <2>1, <2>2, <2>3 DEF InjectionInit, InjectionTypeOK
<1>3. \A s \in Sessions : request[s] = NoRequest /\ request[s].at = "none"
  BY DEF InjectionInit, NoRequest
<1>4. PromptIsOwn /\ NothingIsLeft /\ LeftForSomeone
  BY <1>3 DEF InjectionInit, PromptIsOwn, NothingIsLeft, LeftForSomeone
<1>5. AloneHasItsOwn
  BY <1>3 DEF AloneHasItsOwn, Busy
<1> QED
  BY <1>2, <1>3, <1>4, <1>5 DEF InjectionInv, ExamplesAreMatched

\* A request that goes on to its next await.
LEMMA RequestGoes ==
    ASSUME InjectionTypeOK, NEW s \in Sessions, NEW at \in Awaits, Goes(s, at)
    PROVE  /\ request' \in [Sessions -> [at : Awaits, task : Tasks \cup {NoTask}]]
           /\ request'[s].at = at
           /\ \A p \in Sessions : request'[p].task = request[p].task
           /\ \A p \in Sessions \ {s} : request'[p] = request[p]
BY DEF Goes, InjectionTypeOK

LEMMA RequestStartsStep ==
    ASSUME InjectionInv, NEW s \in Sessions, NEW t \in Tasks \cup {NoTask},
           RequestStarts(s, t)
    PROVE  InjectionInv'
<1>1. /\ request' \in [Sessions -> [at : Awaits, task : Tasks \cup {NoTask}]]
      /\ request'[s] = [at |-> "mindmodel", task |-> t]
      /\ \A p \in Sessions \ {s} : request'[p] = request[p]
  BY DEF RequestStarts, InjectionInv, InjectionTypeOK, Awaits
<1>2. /\ Busy' = Busy \cup {s} /\ s \notin Busy
      /\ request[s].at \notin {"examples", "system", "params"}
  BY <1>1 DEF RequestStarts, Busy
<1>3. crossed' \subseteq Sessions
      /\ (Busy = {} /\ ~abandoned => crossed' = crossed \ {s})
      /\ (~(Busy = {} /\ ~abandoned) => crossed' = crossed \cup Busy \cup {s})
  BY <1>2 DEF RequestStarts, Busy, InjectionInv, InjectionTypeOK
<1>4. InjectionTypeOK'
  <2>1. requests' \in 0..MaxRequests
    BY InjectionAssumption DEF RequestStarts, InjectionInv, InjectionTypeOK
  <2> QED
    BY <1>1, <1>3, <2>1 DEF RequestStarts, InjectionInv, InjectionTypeOK
<1>5. PromptIsOwn'
  <2> SUFFICES ASSUME NEW p \in Sessions, request'[p].at = "sent", p \notin crossed'
               PROVE  Own(p)'
    BY DEF PromptIsOwn
  <2>1. p # s /\ request'[p] = request[p]
    BY <1>1
  <2>2. p \notin crossed
    BY <1>3, <2>1
  <2>3. Own(p)
    BY <2>1, <2>2 DEF InjectionInv, PromptIsOwn
  <2> QED
    BY <2>1, <2>3 DEF Own, Wanted, RequestStarts
<1>6. NothingIsLeft'
  BY <1>2 DEF NothingIsLeft
<1>7. LeftForSomeone'
  <2>1. \A p \in Sessions : request[p].at \in {"system", "params"} => request'[p] = request[p]
    BY <1>1, <1>2
  <2> QED
    BY <2>1 DEF RequestStarts, InjectionInv, LeftForSomeone
<1>8. AloneHasItsOwn'
  <2>1. CASE Busy = {} /\ ~abandoned
    <3>1. pending = NoTask
      BY <2>1 DEF InjectionInv, NothingIsLeft
    <3> QED
      BY <1>1, <1>2, <2>1, <3>1 DEF AloneHasItsOwn, RequestStarts
  <2>2. CASE ~(Busy = {} /\ ~abandoned)
    <3>1. Busy' \ crossed' = {}
      BY <1>2, <1>3, <2>2
    <3> QED
      BY <3>1 DEF AloneHasItsOwn
  <2> QED
    BY <2>1, <2>2
<1>9. ExamplesAreMatched'
  BY <1>1 DEF InjectionInv, ExamplesAreMatched
<1> QED
  BY <1>4, <1>5, <1>6, <1>7, <1>8, <1>9 DEF InjectionInv

\* A request between its first await and its prompt that goes on, with the
\* invariant of what it has so far.
LEMMA GoesOn ==
    ASSUME InjectionInv, NEW s \in Sessions,
           request[s].at \in {"mindmodel", "examples", "system"},
           NEW at \in {"examples", "system", "params"}, Goes(s, at),
           UNCHANGED <<loading, root, context, crossed, requests>>,
           freshRoot' = freshRoot, abandoned' \in BOOLEAN,
           abandoned' => abandoned,
           pending' \in Tasks \cup {NoTask}, matched' \subseteq Tasks,
           injected' \in [Sessions -> Tasks \cup {NoTask}],
           \A p \in Sessions \ {s} : injected'[p] = injected[p],
           pending' = NoTask \/ abandoned' \/ \E p \in Sessions : request'[p].at = "system",
           at = "examples" => request[s].task \in Matching,
           s \notin crossed =>
             /\ at = "examples" => pending' = NoTask
             /\ at = "system" => pending' = Wanted(s)
             /\ at = "params" => pending' = NoTask /\ injected'[s] = Wanted(s)
    PROVE  InjectionInv'
<1>1. /\ request' \in [Sessions -> [at : Awaits, task : Tasks \cup {NoTask}]]
      /\ request'[s].at = at
      /\ \A p \in Sessions : request'[p].task = request[p].task
      /\ \A p \in Sessions \ {s} : request'[p] = request[p]
  BY RequestGoes DEF InjectionInv, Awaits
<1>2. Busy' = Busy /\ s \in Busy
  BY <1>1 DEF Busy
<1>3. InjectionTypeOK'
  <2>1. {freshRoot', abandoned'} \subseteq BOOLEAN
    BY DEF InjectionInv, InjectionTypeOK
  <2> QED
    BY <1>1, <2>1 DEF InjectionInv, InjectionTypeOK
<1>4. PromptIsOwn'
  <2> SUFFICES ASSUME NEW p \in Sessions, request'[p].at = "sent", p \notin crossed'
               PROVE  Own(p)'
    BY DEF PromptIsOwn
  <2>1. p # s /\ request'[p] = request[p]
    BY <1>1
  <2>2. Own(p)
    BY <2>1 DEF InjectionInv, PromptIsOwn
  <2> QED
    BY <2>1, <2>2 DEF Own, Wanted
<1>5. NothingIsLeft'
  BY <1>2 DEF NothingIsLeft
<1>6. LeftForSomeone'
  <2>1. loading[s] = {}
    BY DEF InjectionInv, LeftForSomeone
  <2> QED
    BY <1>1, <2>1 DEF InjectionInv, LeftForSomeone
<1>7. AloneHasItsOwn'
  <2> SUFFICES ASSUME NEW p \in Busy \ crossed
               PROVE  /\ Busy = {p} /\ ~abandoned'
                      /\ request'[p].at \in {"mindmodel", "examples", "params"} => pending' = NoTask
                      /\ request'[p].at = "system" => pending' = Wanted(p)'
                      /\ request'[p].at = "params" => injected'[p] = Wanted(p)'
    BY <1>2 DEF AloneHasItsOwn
  <2>1. Busy = {p} /\ ~abandoned
    BY DEF InjectionInv, AloneHasItsOwn
  <2>2. p = s
    BY <1>2, <2>1
  <2>3. Wanted(p)' = Wanted(p)
    BY <1>1, <2>2 DEF Wanted
  <2> QED
    BY <1>1, <2>1, <2>2, <2>3
<1>8. ExamplesAreMatched'
  BY <1>1 DEF InjectionInv, ExamplesAreMatched
<1> QED
  BY <1>3, <1>4, <1>5, <1>6, <1>7, <1>8 DEF InjectionInv

LEMMA MatchedSteps ==
    ASSUME InjectionInv, NEW s \in Sessions,
           TaskMatched(s) \/ ExamplesLoaded(s) \/ SystemTransformed(s)
    PROVE  InjectionInv'
<1>1. /\ request[s].task \in Tasks \cup {NoTask} /\ Matching \subseteq Tasks
      /\ NoTask \notin Matching /\ pending \in Tasks \cup {NoTask}
      /\ matched \subseteq Tasks /\ abandoned \in BOOLEAN
      /\ injected \in [Sessions -> Tasks \cup {NoTask}]
  BY InjectionAssumption DEF InjectionInv, InjectionTypeOK
<1>2. s \in Busy \ crossed =>
        /\ request[s].at \in {"mindmodel", "examples", "params"} => pending = NoTask
        /\ request[s].at = "system" => pending = Wanted(s)
  BY DEF InjectionInv, AloneHasItsOwn
<1>3. request[s].at \in {"mindmodel", "examples", "system"} => s \in Busy
  BY DEF Busy
<1>4. ASSUME NEW at \in Awaits, Goes(s, at)
      PROVE  /\ request'[s].at = at
             /\ \A p \in Sessions : request[p].at = "system" /\ p # s
                                      => request'[p].at = "system"
  BY <1>4, RequestGoes DEF InjectionInv
<1>5. pending = NoTask \/ abandoned \/ \E p \in Sessions : request[p].at = "system"
  BY DEF InjectionInv, LeftForSomeone
<1>6. CASE TaskMatched(s)
  <2> DEFINE t == request[s].task
  <2>1. /\ request[s].at = "mindmodel"
        /\ UNCHANGED <<loading, root, context, crossed, requests>>
        /\ freshRoot' = freshRoot /\ abandoned' = abandoned /\ injected' = injected
    BY <1>6 DEF TaskMatched
  <2>2. CASE t = NoTask
    <3>1. Goes(s, "system") /\ pending' = pending /\ matched' = matched
      BY <1>6, <2>2 DEF TaskMatched
    <3>2. request'[s].at = "system"
      BY <3>1, <1>4 DEF Awaits
    <3>3. s \notin crossed => pending = NoTask /\ Wanted(s) = NoTask
      BY <1>1, <1>2, <1>3, <2>1, <2>2 DEF Wanted
    <3> QED
      BY <1>1, <2>1, <3>1, <3>2, <3>3, GoesOn
  <2>3. CASE t # NoTask /\ (t \in matched \/ t \notin Matching)
    <3>1. /\ Goes(s, "system") /\ matched' = matched \cup {t}
          /\ pending' = IF t \in Matching THEN t ELSE NoTask
      BY <1>6, <2>3 DEF TaskMatched
    <3>2. request'[s].at = "system"
      BY <3>1, <1>4 DEF Awaits
    <3>3. pending' = Wanted(s) /\ pending' \in Tasks \cup {NoTask} /\ matched' \subseteq Tasks
      BY <1>1, <2>3, <3>1 DEF Wanted
    <3> QED
      BY <1>1, <2>1, <3>1, <3>2, <3>3, GoesOn
  <2>4. CASE t # NoTask /\ ~(t \in matched \/ t \notin Matching)
    <3>1. Goes(s, "examples") /\ pending' = pending /\ matched' = matched
      BY <1>6, <2>4 DEF TaskMatched
    <3>2. s \notin crossed => pending = NoTask
      BY <1>2, <1>3, <2>1
    <3>3. pending' = NoTask \/ abandoned' \/ \E p \in Sessions : request'[p].at = "system"
      BY <1>4, <1>5, <2>1, <3>1 DEF Awaits
    <3> QED
      BY <1>1, <2>1, <2>4, <3>1, <3>2, <3>3, GoesOn
  <2> QED
    BY <2>2, <2>3, <2>4
<1>7. CASE ExamplesLoaded(s)
  <2>1. /\ request[s].at = "examples" /\ Goes(s, "system")
        /\ pending' = request[s].task /\ matched' = matched \cup {request[s].task}
        /\ UNCHANGED <<loading, root, context, crossed, requests>>
        /\ freshRoot' = freshRoot /\ abandoned' = abandoned /\ injected' = injected
    BY <1>7 DEF ExamplesLoaded
  <2>2. request'[s].at = "system"
    BY <2>1, <1>4 DEF Awaits
  <2>3. request[s].task \in Matching
    BY <2>1 DEF InjectionInv, ExamplesAreMatched
  <2>4. pending' = Wanted(s)
    BY <2>1, <2>3 DEF Wanted
  <2>5. matched' \subseteq Tasks /\ pending' \in Tasks \cup {NoTask}
    BY <1>1, <2>1, <2>3
  <2> QED
    BY <1>1, <2>1, <2>2, <2>4, <2>5, GoesOn
<1>8. CASE SystemTransformed(s)
  <2>1. /\ request[s].at = "system" /\ Goes(s, "params")
        /\ injected' = [injected EXCEPT ![s] = pending]
        /\ pending' = NoTask /\ abandoned' = FALSE /\ matched' = matched
        /\ UNCHANGED <<loading, root, context, crossed, requests>>
        /\ freshRoot' = freshRoot
    BY <1>8 DEF SystemTransformed
  <2>2. /\ injected' \in [Sessions -> Tasks \cup {NoTask}] /\ injected'[s] = pending
        /\ \A p \in Sessions \ {s} : injected'[p] = injected[p]
    BY <1>1, <2>1
  <2>3. s \notin crossed => injected'[s] = Wanted(s)
    BY <1>2, <1>3, <2>1, <2>2
  <2> QED
    BY <1>1, <2>1, <2>2, <2>3, GoesOn
<1> QED
  BY <1>6, <1>7, <1>8

\* A request whose block of context is built from the map as it then is.
LEMMA PromptBuilt ==
    ASSUME InjectionInv, NEW s \in Sessions, request[s].at = "params",
           Goes(s, "sent"), loading' \in [Sessions -> SUBSET RootFiles],
           loading'[s] = {}, \A p \in Sessions \ {s} : loading'[p] = loading[p],
           root' \subseteq RootFiles, root \subseteq root',
           context' = [context EXCEPT ![s] = root'],
           \A file \in RootFiles :
              file \in root' \/ \E p \in Sessions : file \in loading'[p],
           freshRoot' = freshRoot,
           UNCHANGED <<pending, matched, injected, crossed, abandoned, requests>>
    PROVE  InjectionInv'
<1>1. /\ request' \in [Sessions -> [at : Awaits, task : Tasks \cup {NoTask}]]
      /\ request'[s].at = "sent"
      /\ \A p \in Sessions : request'[p].task = request[p].task
      /\ \A p \in Sessions \ {s} : request'[p] = request[p]
  BY RequestGoes DEF InjectionInv, Awaits
<1>2. Busy' = Busy \ {s} /\ s \in Busy
  BY <1>1 DEF Busy
<1>3. /\ context' \in [Sessions -> SUBSET RootFiles] /\ context'[s] = root'
      /\ \A p \in Sessions \ {s} : context'[p] = context[p]
  BY DEF InjectionInv, InjectionTypeOK
<1>4. InjectionTypeOK'
  BY <1>1, <1>3 DEF InjectionInv, InjectionTypeOK
<1>5. \A p \in Sessions : loading'[p] # {} => p # s /\ request'[p].at = "params"
  BY <1>1 DEF InjectionInv, LeftForSomeone
<1>6. Busy' = {} => root' = RootFiles
  <2> SUFFICES ASSUME Busy' = {} PROVE root' = RootFiles
    OBVIOUS
  <2>1. \A p \in Sessions : loading'[p] = {}
    BY <1>5 DEF Busy
  <2> QED
    BY <2>1
<1>7. PromptIsOwn'
  <2> SUFFICES ASSUME NEW p \in Sessions, request'[p].at = "sent", p \notin crossed'
               PROVE  Own(p)'
    BY DEF PromptIsOwn
  <2>1. CASE p = s
    <3>1. Busy = {s} /\ injected[s] = Wanted(s)
      BY <1>2, <2>1 DEF InjectionInv, AloneHasItsOwn
    <3>2. context'[s] = RootFiles
      BY <1>2, <1>3, <1>6, <3>1
    <3> QED
      BY <1>1, <2>1, <3>1, <3>2 DEF Own, Wanted
  <2>2. CASE p # s
    <3>1. Own(p)
      BY <1>1, <2>2 DEF InjectionInv, PromptIsOwn
    <3> QED
      BY <1>1, <1>3, <2>2, <3>1 DEF Own, Wanted
  <2> QED
    BY <2>1, <2>2
<1>8. NothingIsLeft'
  <2> SUFFICES ASSUME Busy' = {}, ~abandoned' PROVE pending' = NoTask
    BY <1>6 DEF NothingIsLeft
  <2>1. \A p \in Sessions : request'[p].at # "system"
    BY DEF Busy
  <2>2. \A p \in Sessions : request[p].at # "system"
    BY <1>1, <2>1
  <2> QED
    BY <2>2 DEF InjectionInv, LeftForSomeone
<1>9. LeftForSomeone'
  <2>1. \A p \in Sessions : request[p].at = "system" => request'[p].at = "system"
    BY <1>1
  <2> QED
    BY <1>5, <2>1 DEF InjectionInv, LeftForSomeone
<1>10. AloneHasItsOwn'
  <2>1. \A p \in Busy' \ crossed' : FALSE
    BY <1>2 DEF InjectionInv, AloneHasItsOwn
  <2> QED
    BY <2>1 DEF AloneHasItsOwn
<1>11. ExamplesAreMatched'
  BY <1>1 DEF InjectionInv, ExamplesAreMatched
<1> QED
  BY <1>4, <1>7, <1>8, <1>9, <1>10, <1>11 DEF InjectionInv

\* Requests stay where they are while the map of root files changes.
LEMMA MapMoves ==
    ASSUME InjectionInv, NEW s \in Sessions, request[s].at = "params",
           loading' \in [Sessions -> SUBSET RootFiles],
           \A p \in Sessions \ {s} : loading'[p] = loading[p],
           root' \subseteq RootFiles, freshRoot' \in BOOLEAN,
           \/ root' = {} /\ \A p \in Sessions : loading'[p] = {}
           \/ \A file \in RootFiles :
                file \in root' \/ \E p \in Sessions : file \in loading'[p],
           UNCHANGED <<request, context, pending, matched, injected, crossed,
                       abandoned, requests>>
    PROVE  InjectionInv'
<1>1. Busy' = Busy /\ s \in Busy
  BY DEF Busy
<1>2. InjectionTypeOK'
  <2>1. {freshRoot', abandoned'} \subseteq BOOLEAN
    BY DEF InjectionInv, InjectionTypeOK
  <2> QED
    BY <2>1 DEF InjectionInv, InjectionTypeOK
<1>3. PromptIsOwn'
  BY DEF InjectionInv, PromptIsOwn, Own, Wanted
<1>4. NothingIsLeft'
  BY <1>1 DEF NothingIsLeft
<1>5. LeftForSomeone'
  BY DEF InjectionInv, LeftForSomeone
<1>6. AloneHasItsOwn' /\ ExamplesAreMatched'
  BY <1>1 DEF InjectionInv, AloneHasItsOwn, Wanted, ExamplesAreMatched
<1> QED
  BY <1>2, <1>3, <1>4, <1>5, <1>6 DEF InjectionInv

LEMMA RootAskedStep ==
    ASSUME InjectionInv, NEW s \in Sessions, RootAsked(s)
    PROVE  InjectionInv'
<1>1. /\ request[s].at = "params" /\ loading[s] = {}
      /\ UNCHANGED <<pending, matched, injected, crossed, abandoned, requests>>
  BY DEF RootAsked
<1>2. loading \in [Sessions -> SUBSET RootFiles] /\ root \subseteq RootFiles
  BY DEF InjectionInv, InjectionTypeOK
<1>3. CASE freshRoot /\ root # {}
  <2>1. /\ context' = [context EXCEPT ![s] = root] /\ Goes(s, "sent")
        /\ UNCHANGED <<loading, root, freshRoot>>
    BY <1>3 DEF RootAsked
  <2>2. \A file \in RootFiles : file \in root \/ \E p \in Sessions : file \in loading[p]
    BY <1>3 DEF InjectionInv, LeftForSomeone
  <2> QED
    BY <1>1, <1>2, <2>1, <2>2, PromptBuilt
<1>4. CASE ~(freshRoot /\ root # {})
  <2>1. /\ loading' = [loading EXCEPT ![s] = RootFiles] /\ root' = {}
        /\ freshRoot' = TRUE /\ UNCHANGED <<context, request>>
    BY <1>4 DEF RootAsked
  <2>2. /\ loading' \in [Sessions -> SUBSET RootFiles] /\ loading'[s] = RootFiles
        /\ \A p \in Sessions \ {s} : loading'[p] = loading[p]
    BY <1>2, <2>1
  <2> QED
    BY <1>1, <2>1, <2>2, MapMoves
<1> QED
  BY <1>3, <1>4

LEMMA RootFileLoadedStep ==
    ASSUME InjectionInv, NEW s \in Sessions, NEW file \in RootFiles,
           RootFileLoaded(s, file)
    PROVE  InjectionInv'
<1>1. /\ file \in loading[s] /\ root' = root \cup {file} /\ freshRoot' = freshRoot
      /\ loading' = [loading EXCEPT ![s] = loading[s] \ {file}]
      /\ UNCHANGED <<pending, matched, injected, crossed, abandoned, requests>>
  BY DEF RootFileLoaded
<1>2. /\ loading' \in [Sessions -> SUBSET RootFiles]
      /\ loading'[s] = loading[s] \ {file}
      /\ \A p \in Sessions \ {s} : loading'[p] = loading[p]
      /\ root' \subseteq RootFiles /\ freshRoot' \in BOOLEAN
  BY <1>1 DEF InjectionInv, InjectionTypeOK
<1>3. request[s].at = "params"
  BY <1>1 DEF InjectionInv, LeftForSomeone
<1>4. \A f \in RootFiles : f \in root' \/ \E p \in Sessions : f \in loading'[p]
  <2>1. \A f \in RootFiles : f \in root \/ \E p \in Sessions : f \in loading[p]
    BY <1>1 DEF InjectionInv, LeftForSomeone
  <2> SUFFICES ASSUME NEW f \in RootFiles, f \notin root, f # file
               PROVE  \E p \in Sessions : f \in loading'[p]
    BY <1>1
  <2>2. PICK p \in Sessions : f \in loading[p]
    BY <2>1
  <2> QED
    BY <1>2, <2>2
<1>5. CASE loading[s] = {file}
  <2>1. context' = [context EXCEPT ![s] = root'] /\ Goes(s, "sent")
    BY <1>5 DEF RootFileLoaded
  <2> QED
    BY <1>1, <1>2, <1>3, <1>4, <1>5, <2>1, PromptBuilt
<1>6. CASE loading[s] # {file}
  <2>1. UNCHANGED <<context, request>>
    BY <1>6 DEF RootFileLoaded
  <2> QED
    BY <1>1, <1>2, <1>3, <1>4, <2>1, MapMoves
<1> QED
  BY <1>5, <1>6

LEMMA RequestAbandonedStep ==
    ASSUME InjectionInv, NEW s \in Sessions, RequestAbandoned(s)
    PROVE  InjectionInv'
<1>1. /\ request' \in [Sessions -> [at : Awaits, task : Tasks \cup {NoTask}]]
      /\ request'[s].at = "none"
      /\ \A p \in Sessions : request'[p].task = request[p].task
      /\ \A p \in Sessions \ {s} : request'[p] = request[p]
  BY RequestGoes DEF InjectionInv, Awaits, RequestAbandoned
<1>2. Busy' = Busy \ {s} /\ s \in Busy
  BY <1>1 DEF Busy, RequestAbandoned
<1>3. InjectionTypeOK'
  <2>1. {freshRoot', abandoned'} \subseteq BOOLEAN
    BY DEF RequestAbandoned, InjectionInv, InjectionTypeOK
  <2> QED
    BY <1>1, <2>1 DEF RequestAbandoned, InjectionInv, InjectionTypeOK
<1>4. PromptIsOwn'
  <2>1. \A p \in Sessions : request'[p].at = "sent" => p # s /\ request'[p] = request[p]
    BY <1>1
  <2> QED
    BY <2>1 DEF RequestAbandoned, InjectionInv, PromptIsOwn, Own, Wanted
<1>5. NothingIsLeft'
  BY DEF RequestAbandoned, NothingIsLeft
<1>6. LeftForSomeone'
  <2>1. \A p \in Sessions : request[p].at = "params" => request'[p].at = "params"
    BY <1>1 DEF RequestAbandoned
  <2> QED
    BY <2>1 DEF RequestAbandoned, InjectionInv, LeftForSomeone
<1>7. AloneHasItsOwn'
  <2>1. \A p \in Busy' \ crossed' : FALSE
    BY <1>2 DEF RequestAbandoned, InjectionInv, AloneHasItsOwn
  <2> QED
    BY <2>1 DEF AloneHasItsOwn
<1>8. ExamplesAreMatched'
  BY <1>1 DEF InjectionInv, ExamplesAreMatched
<1> QED
  BY <1>3, <1>4, <1>5, <1>6, <1>7, <1>8 DEF InjectionInv

LEMMA InjectionStep == InjectionInv /\ [InjectionNext]_injectionVars => InjectionInv'
<1> SUFFICES ASSUME InjectionInv, [InjectionNext]_injectionVars PROVE InjectionInv'
  OBVIOUS
<1>1. CASE RootExpires \/ UNCHANGED injectionVars
  <2>1. /\ UNCHANGED <<request, pending, matched, loading, root, injected,
                       context, crossed, abandoned, requests>>
        /\ freshRoot' = freshRoot \/ freshRoot' = FALSE
    BY <1>1 DEF RootExpires, injectionVars
  <2>2. Busy' = Busy
    BY <2>1 DEF Busy
  <2>3. InjectionTypeOK'
    <3>1. {freshRoot', abandoned'} \subseteq BOOLEAN
      BY <2>1 DEF InjectionInv, InjectionTypeOK
    <3> QED
      BY <2>1, <3>1 DEF InjectionInv, InjectionTypeOK
  <2>4. PromptIsOwn' /\ NothingIsLeft' /\ LeftForSomeone'
    BY <2>1, <2>2 DEF InjectionInv, PromptIsOwn, Own, Wanted, NothingIsLeft, LeftForSomeone
  <2>5. AloneHasItsOwn' /\ ExamplesAreMatched'
    BY <2>1, <2>2 DEF InjectionInv, AloneHasItsOwn, Wanted, ExamplesAreMatched
  <2> QED
    BY <2>3, <2>4, <2>5 DEF InjectionInv
<1> QED
  BY <1>1, RequestStartsStep, MatchedSteps, RootAskedStep, RequestAbandonedStep,
     RootFileLoadedStep DEF InjectionNext

-----------------------------------------------------------------------------
(* Chat pipeline: handlers that interleave, and the caches they fill.      *)

HandlerRecords ==
    [kind : HandlerKinds, session : ChatSessions \cup {AnySession},
     at : HandlerStages, reading : 0..MaxRatio, system : Seq(Blocks)]

LEMMA ChatFacts ==
    /\ MaxRatio \in Nat /\ Cooldown \in Nat /\ MaxHandlers \in Nat
    /\ MaxChatTime \in Nat /\ MaxChatTime >= 1
    /\ HandlerIdle \in HandlerRecords /\ HandlerIdle.kind = "none"
<1>1. /\ MaxRatio \in Nat /\ Cooldown \in Nat /\ MaxHandlers \in Nat
      /\ MaxChatTime \in Nat /\ MaxChatTime >= 1
  BY ChatAssumption
<1>2. <<>> \in Seq(Blocks) /\ NoReading \in 0..MaxRatio
  BY <1>1 DEF NoReading
<1> QED
  BY <1>1, <1>2 DEF HandlerIdle, HandlerRecords, HandlerKinds, HandlerStages

LEMMA ChatStart == ChatInit => ChatInv
<1> SUFFICES ASSUME ChatInit PROVE ChatInv
  OBVIOUS
<1>1. ChatTypeOK
  <2>1. /\ usageCache \in [ChatSessions -> 0..MaxRatio]
        /\ ratios \in [ChatSessions -> 0..MaxRatio]
        /\ warnedAt \in [ChatSessions -> 0..MaxChatTime]
        /\ chatTime \in 1..MaxChatTime /\ started \in 0..MaxHandlers
    BY ChatFacts DEF ChatInit, NoReading
  <2>2. /\ fileOps \in [ChatSessions -> SUBSET Ops]
        /\ summarised \in [ChatSessions -> SUBSET Ops]
        /\ toastTimes \in [ChatSessions -> Seq(1..MaxChatTime)]
    BY DEF ChatInit
  <2>3. handlers \in [Handlers -> HandlerRecords]
        /\ \A h \in Handlers : handlers[h] = HandlerIdle
    BY ChatFacts DEF ChatInit
  <2>4. ledgers \in BOOLEAN
    BY DEF ChatInit
  <2> QED
    BY <2>1, <2>2, <2>3, <2>4, ChatFacts DEF ChatInit, ChatTypeOK, HandlerRecords
<1>2. ForgottenUnlessLate /\ SummariesAreKept /\ LastToastIsRemembered
  BY DEF ChatInit, ForgottenUnlessLate, SummariesAreKept, LastToastIsRemembered
<1>3. ToastsAreApart
  BY DEF ChatInit, ToastsAreApart
<1>4. HandlersOfTheGone
  BY ChatFacts DEF ChatInit, HandlersOfTheGone
<1> QED
  BY <1>1, <1>2, <1>3, <1>4 DEF ChatInv

LEMMA HandlerTyped ==
    ASSUME ChatInv, NEW h \in Handlers
    PROVE  /\ handlers \in [Handlers -> HandlerRecords] /\ handlers[h] \in HandlerRecords
           /\ handlers[h].kind # "none"
                => handlers[h] # HandlerIdle /\ handlers[h].session \in ChatSessions
           /\ handlers[h].kind = "none" => handlers[h] = HandlerIdle
BY ChatFacts DEF ChatInv, ChatTypeOK, HandlerRecords

\* What every step does to the handlers: one of them starts, goes on with what
\* it is about, or returns.
StartsAs(h, kind, s) ==
    /\ handlers[h] = HandlerIdle /\ handlers' \in [Handlers -> HandlerRecords]
    /\ handlers'[h].kind = kind /\ handlers'[h].session = s
    /\ \A g \in Handlers \ {h} : handlers'[g] = handlers[g]
GoesOrReturns(h) ==
    /\ handlers' \in [Handlers -> HandlerRecords]
    /\ \/ handlers'[h] = HandlerIdle
       \/ /\ handlers'[h].kind = handlers[h].kind
          /\ handlers'[h].session = handlers[h].session
    /\ \A g \in Handlers \ {h} : handlers'[g] = handlers[g]

LEMMA HandlerStarts ==
    ASSUME ChatInv, NEW h \in Handlers, NEW s \in ChatSessions,
           NEW kind \in HandlerKinds \ {"none"}, NEW at \in HandlerStages,
           NEW reading \in 0..MaxRatio, Starts(h, kind, s, at, reading)
    PROVE  /\ StartsAs(h, kind, s) /\ started' \in 0..MaxHandlers
           /\ \A g \in Handlers : IF handlers'[g].kind = "none"
                                  THEN handlers'[g] = HandlerIdle
                                  ELSE handlers'[g].session \in ChatSessions
<1>1. <<"base">> \in Seq(Blocks)
  BY DEF Blocks
<1>2. /\ handlers[h] = HandlerIdle /\ started < MaxHandlers /\ started' = started + 1
      /\ handlers' = [handlers EXCEPT ![h] = [kind |-> kind, session |-> s,
                       at |-> at, reading |-> reading, system |-> <<"base">>]]
  BY DEF Starts
<1>3. handlers \in [Handlers -> HandlerRecords]
  BY HandlerTyped
<1>4. StartsAs(h, kind, s)
  BY <1>1, <1>2, <1>3 DEF StartsAs, HandlerRecords
<1>5. started' \in 0..MaxHandlers
  BY <1>2, ChatFacts DEF ChatInv, ChatTypeOK
<1> QED
  BY <1>4, <1>5 DEF StartsAs, ChatInv, ChatTypeOK

LEMMA HandlerReturns ==
    ASSUME ChatInv, NEW h \in Handlers, Returns(h)
    PROVE  GoesOrReturns(h)
<1>1. handlers \in [Handlers -> HandlerRecords]
  BY HandlerTyped
<1> QED
  BY <1>1, ChatFacts DEF Returns, GoesOrReturns

\* A handler that acts for its session, and not to forget it, keeps what is
\* said of sessions that are gone.
LEMMA HandlerActs ==
    ASSUME ChatInv, NEW h \in Handlers, handlers[h].kind \notin {"none", "deleted"},
           GoesOrReturns(h), UNCHANGED <<thinkMode, gone, late>>,
           \A p \in ChatSessions \ {handlers[h].session} :
             /\ usageCache'[p] = usageCache[p] /\ ratios'[p] = ratios[p]
             /\ warnedAt'[p] = warnedAt[p] /\ fileOps'[p] = fileOps[p]
    PROVE  /\ ForgottenUnlessLate' /\ HandlersOfTheGone'
           /\ \A g \in Handlers : IF handlers'[g].kind = "none"
                                  THEN handlers'[g] = HandlerIdle
                                  ELSE handlers'[g].session \in ChatSessions
<1> DEFINE s == handlers[h].session
<1>1. s \in ChatSessions /\ handlers[h] # HandlerIdle /\ s \notin gone \ late
  BY HandlerTyped DEF ChatInv, HandlersOfTheGone
<1>2. ForgottenUnlessLate'
  <2> SUFFICES ASSUME NEW p \in gone \ late, ~HandlersUnderWay(p)'
               PROVE  /\ p \notin thinkMode /\ usageCache'[p] = NoReading
                      /\ ratios'[p] = NoReading /\ warnedAt'[p] = 0
                      /\ fileOps'[p] = {}
    BY DEF ForgottenUnlessLate
  <2>1. p # s /\ p \in ChatSessions
    BY <1>1 DEF ChatInv, ChatTypeOK
  <2>2. ~HandlersUnderWay(p)
    BY <2>1 DEF HandlersUnderWay, GoesOrReturns
  <2> QED
    BY <2>1, <2>2 DEF ChatInv, ForgottenUnlessLate
<1>3. HandlersOfTheGone'
  <2>1. \A p \in gone' : p \notin thinkMode'
    BY DEF ChatInv, HandlersOfTheGone
  <2>2. ASSUME NEW g \in Handlers, handlers'[g].kind = "deleted"
        PROVE  handlers'[g].session \in gone'
    <3>1. g # h
      BY <2>2, ChatFacts DEF GoesOrReturns
    <3> QED
      BY <2>2, <3>1 DEF ChatInv, HandlersOfTheGone, GoesOrReturns
  <2>3. ASSUME NEW g \in Handlers, handlers'[g] # HandlerIdle,
               handlers'[g].session \in gone' \ late'
        PROVE  handlers'[g].kind = "deleted"
    <3>1. g # h
      BY <1>1, <2>3 DEF GoesOrReturns
    <3> QED
      BY <2>3, <3>1 DEF ChatInv, HandlersOfTheGone, GoesOrReturns
  <2> QED
    BY <2>1, <2>2, <2>3 DEF HandlersOfTheGone
<1>4. ASSUME NEW g \in Handlers
      PROVE  IF handlers'[g].kind = "none" THEN handlers'[g] = HandlerIdle
             ELSE handlers'[g].session \in ChatSessions
  BY <1>1, HandlerTyped, ChatFacts DEF GoesOrReturns
<1> QED
  BY <1>2, <1>3, <1>4

\* A handler that starts, of a session that lives, keeps the invariant.
LEMMA HandlerStartsStep ==
    ASSUME ChatInv, NEW h \in Handlers, NEW s \in ChatSessions, s \notin gone,
           NEW kind \in {"params", "search", "file", "updated"},
           NEW at \in HandlerStages, NEW reading \in 0..MaxRatio,
           Starts(h, kind, s, at, reading),
           UNCHANGED <<caches, chatFiles, history, chatTime>>
    PROVE  ChatInv'
<1>1. /\ StartsAs(h, kind, s) /\ started' \in 0..MaxHandlers
      /\ \A g \in Handlers : IF handlers'[g].kind = "none"
                             THEN handlers'[g] = HandlerIdle
                             ELSE handlers'[g].session \in ChatSessions
  BY HandlerStarts DEF HandlerKinds
<1>2. ChatTypeOK'
  BY <1>1 DEF ChatInv, ChatTypeOK, StartsAs, HandlerRecords, caches, chatFiles, history
<1>3. ForgottenUnlessLate'
  <2> SUFFICES ASSUME NEW p \in gone \ late, ~HandlersUnderWay(p)'
               PROVE  /\ p \notin thinkMode /\ usageCache[p] = NoReading
                      /\ ratios[p] = NoReading /\ warnedAt[p] = 0 /\ fileOps[p] = {}
    BY DEF ForgottenUnlessLate, caches, history
  <2>1. ~HandlersUnderWay(p)
    BY <1>1 DEF HandlersUnderWay, StartsAs
  <2> QED
    BY <2>1 DEF ChatInv, ForgottenUnlessLate
<1>4. HandlersOfTheGone'
  BY <1>1 DEF ChatInv, HandlersOfTheGone, StartsAs, caches, history
<1>5. ToastsAreApart' /\ SummariesAreKept' /\ LastToastIsRemembered'
  BY DEF ChatInv, ToastsAreApart, SummariesAreKept, LastToastIsRemembered, caches, history
<1> QED
  BY <1>2, <1>3, <1>4, <1>5 DEF ChatInv

LEMMA StartSteps ==
    ASSUME ChatInv, NEW h \in Handlers, NEW s \in ChatSessions,
           \/ ParamsAsked(h, s) \/ ToolReturns(h, s, "search") \/ ToolReturns(h, s, "file")
           \/ \E r \in 1..MaxRatio : MessageUpdated(h, s, r)
    PROVE  ChatInv'
<1>1. NoReading \in 0..MaxRatio
  BY ChatFacts DEF NoReading
<1>2. CASE ParamsAsked(h, s)
  BY <1>1, <1>2, HandlerStartsStep DEF ParamsAsked, HandlerStages
<1>3. CASE ToolReturns(h, s, "search")
  BY <1>1, <1>3, HandlerStartsStep DEF ToolReturns, HandlerStages
<1>4. CASE ToolReturns(h, s, "file")
  BY <1>1, <1>4, HandlerStartsStep DEF ToolReturns, HandlerStages
<1>5. ASSUME NEW r \in 1..MaxRatio, MessageUpdated(h, s, r) PROVE ChatInv'
  <2>1. r \in 0..MaxRatio
    BY ChatFacts
  <2> QED
    BY <2>1, <1>5, HandlerStartsStep DEF MessageUpdated, HandlerStages
<1> QED
  BY <1>2, <1>3, <1>4, <1>5

\* Building a prompt changes a handler and what is known of the fragments.
LEMMA BuildStep ==
    ASSUME ChatInv, NEW h \in Handlers, handlers[h].kind = "params",
           NEW system \in Seq(Blocks), NEW at \in HandlerStages,
           Builds(h, system, at) \/ Returns(h),
           fragmentCache' \in {"unread", "none", "some"},
           UNCHANGED <<caches, fragmentFile, ledgers, history, chatTime, started>>
    PROVE  ChatInv'
<1>1. GoesOrReturns(h)
  <2>1. CASE Builds(h, system, at)
    <3>1. handlers \in [Handlers -> HandlerRecords]
      BY HandlerTyped
    <3>2. handlers' = [handlers EXCEPT ![h] =
                         [handlers[h] EXCEPT !.system = system, !.at = at]]
      BY <2>1 DEF Builds
    <3> DEFINE next == [handlers[h] EXCEPT !.system = system, !.at = at]
    <3>3. /\ next \in HandlerRecords /\ next.kind = handlers[h].kind
          /\ next.session = handlers[h].session
      BY <3>1 DEF HandlerRecords
    <3> HIDE DEF next
    <3>4. handlers' = [handlers EXCEPT ![h] = next]
      BY <3>2 DEF next
    <3> QED
      BY <3>1, <3>3, <3>4 DEF GoesOrReturns
  <2>2. CASE Returns(h)
    BY <2>2, HandlerReturns
  <2> QED
    BY <2>1, <2>2
<1>2. /\ ForgottenUnlessLate' /\ HandlersOfTheGone'
      /\ \A g \in Handlers : IF handlers'[g].kind = "none"
                             THEN handlers'[g] = HandlerIdle
                             ELSE handlers'[g].session \in ChatSessions
  BY <1>1, HandlerActs DEF caches, history
<1>3. ChatTypeOK'
  BY <1>1, <1>2 DEF ChatInv, ChatTypeOK, GoesOrReturns, HandlerRecords, caches, history
<1>4. ToastsAreApart' /\ SummariesAreKept' /\ LastToastIsRemembered'
  BY DEF ChatInv, ToastsAreApart, SummariesAreKept, LastToastIsRemembered, caches, history
<1> QED
  BY <1>2, <1>3, <1>4 DEF ChatInv

LEMMA ParamsSteps ==
    ASSUME ChatInv, NEW h \in Handlers,
           \/ FragmentsInjected(h) \/ LedgerInjected(h) \/ AtlasInjected(h)
           \/ ContextInjected(h) \/ StatusInjected(h) \/ ParamsReturn(h)
    PROVE  ChatInv'
<1>1. handlers[h].kind = "params"
  BY DEF FragmentsInjected, LedgerInjected, AtlasInjected, ContextInjected,
         StatusInjected, ParamsReturn, At
<1>2. handlers[h].system \in Seq(Blocks)
  BY HandlerTyped DEF HandlerRecords
<1>3. ASSUME NEW block \in Blocks
      PROVE  Before(block, h) \in Seq(Blocks) /\ After(block, h) \in Seq(Blocks)
  BY <1>2, <1>3 DEF Before, After
<1>4. /\ fragmentCache \in {"unread", "none", "some"}
      /\ fragmentFile \in {"unread", "none", "some"}
  BY DEF ChatInv, ChatTypeOK
<1>5. CASE FragmentsInjected(h)
  <2>1. /\ Builds(h, IF fragmentCache' = "some" THEN Before("fragments", h)
                     ELSE handlers[h].system, "ledger")
        /\ fragmentCache' = ProjectFragments
        /\ UNCHANGED <<caches, fragmentFile, ledgers, history, chatTime, started>>
    BY <1>5 DEF FragmentsInjected
  <2>2. PICK system \in Seq(Blocks) : Builds(h, system, "ledger")
    BY <2>1, <1>2, <1>3 DEF Blocks
  <2>3. fragmentCache' \in {"unread", "none", "some"}
    BY <2>1, <1>4 DEF ProjectFragments
  <2> QED
    BY <1>1, <2>1, <2>2, <2>3, BuildStep DEF HandlerStages
<1>6. CASE LedgerInjected(h)
  <2>1. /\ Builds(h, IF ledgers THEN Before("ledger", h) ELSE handlers[h].system, "atlas")
        /\ UNCHANGED <<caches, fragmentCache, fragmentFile, ledgers, history, chatTime,
                       started>>
    BY <1>6 DEF LedgerInjected, chatFiles
  <2>2. PICK system \in Seq(Blocks) : Builds(h, system, "atlas")
    BY <2>1, <1>2, <1>3 DEF Blocks
  <2> QED
    BY <1>1, <1>4, <2>1, <2>2, BuildStep DEF HandlerStages
<1>7. CASE AtlasInjected(h)
  <2>1. PICK found \in BOOLEAN :
          Builds(h, IF found THEN Before("atlas", h) ELSE handlers[h].system, "context")
    BY <1>7 DEF AtlasInjected
  <2>2. UNCHANGED <<caches, fragmentCache, fragmentFile, ledgers, history, chatTime,
                    started>>
    BY <1>7 DEF AtlasInjected, chatFiles
  <2>3. PICK system \in Seq(Blocks) : Builds(h, system, "context")
    BY <2>1, <1>2, <1>3 DEF Blocks
  <2> QED
    BY <1>1, <1>4, <2>2, <2>3, BuildStep DEF HandlerStages
<1>8. CASE ContextInjected(h)
  <2>1. PICK found \in BOOLEAN :
          Builds(h, IF found THEN After("context", h) ELSE handlers[h].system, "status")
    BY <1>8 DEF ContextInjected
  <2>2. UNCHANGED <<caches, fragmentCache, fragmentFile, ledgers, history, chatTime,
                    started>>
    BY <1>8 DEF ContextInjected, chatFiles
  <2>3. PICK system \in Seq(Blocks) : Builds(h, system, "status")
    BY <2>1, <1>2, <1>3 DEF Blocks
  <2> QED
    BY <1>1, <1>4, <2>2, <2>3, BuildStep DEF HandlerStages
<1>9. CASE StatusInjected(h)
  <2>1. /\ Builds(h, IF Fills(handlers[h].session) THEN After("status", h)
                     ELSE handlers[h].system, "built")
        /\ UNCHANGED <<caches, fragmentCache, fragmentFile, ledgers, history, chatTime,
                       started>>
    BY <1>9 DEF StatusInjected, chatFiles
  <2>2. PICK system \in Seq(Blocks) : Builds(h, system, "built")
    BY <2>1, <1>2, <1>3 DEF Blocks
  <2> QED
    BY <1>1, <1>4, <2>1, <2>2, BuildStep DEF HandlerStages
<1>10. CASE ParamsReturn(h)
  <2>1. /\ Returns(h)
        /\ UNCHANGED <<caches, fragmentCache, fragmentFile, ledgers, history, chatTime,
                       started>>
    BY <1>10 DEF ParamsReturn, chatFiles
  <2>2. "end" \in HandlerStages
    BY DEF HandlerStages
  <2> QED
    BY <1>1, <1>2, <1>4, <2>1, <2>2, BuildStep
<1> QED
  BY <1>5, <1>6, <1>7, <1>8, <1>9, <1>10

\* What a handler reads of the token usage is put into its session's cache.
LEMMA UsageFacts ==
    ASSUME ChatInv, NEW h \in Handlers, NEW r \in 0..MaxRatio, UsageRead(h, r)
    PROVE  /\ usageCache' \in [ChatSessions -> 0..MaxRatio]
           /\ \A p \in ChatSessions \ {handlers[h].session} : usageCache'[p] = usageCache[p]
BY DEF ChatInv, ChatTypeOK, UsageRead

LEMMA UsageSteps ==
    ASSUME ChatInv, NEW h \in Handlers, NEW r \in 0..MaxRatio,
           SearchTruncated(h, r) \/ UsageFetched(h, r)
    PROVE  ChatInv'
<1>1. /\ handlers[h].kind \in {"search", "updated"} /\ UsageRead(h, r)
      /\ Returns(h) \/ GoTo(h, "monitor")
      /\ UNCHANGED <<thinkMode, ratios, warnedAt, fileOps, chatFiles, history,
                     chatTime, started>>
  BY DEF SearchTruncated, UsageFetched, At
<1>2. GoesOrReturns(h)
  <2>1. CASE Returns(h)
    BY <2>1, HandlerReturns
  <2>2. CASE GoTo(h, "monitor")
    <3>1. handlers \in [Handlers -> HandlerRecords]
      BY HandlerTyped
    <3>2. "monitor" \in HandlerStages
      BY DEF HandlerStages
    <3> QED
      BY <2>2, <3>1, <3>2 DEF GoTo, GoesOrReturns, HandlerRecords
  <2> QED
    BY <1>1, <2>1, <2>2
<1>3. /\ usageCache' \in [ChatSessions -> 0..MaxRatio]
      /\ \A p \in ChatSessions \ {handlers[h].session} : usageCache'[p] = usageCache[p]
  BY <1>1, UsageFacts
<1>4. /\ ForgottenUnlessLate' /\ HandlersOfTheGone'
      /\ \A g \in Handlers : IF handlers'[g].kind = "none"
                             THEN handlers'[g] = HandlerIdle
                             ELSE handlers'[g].session \in ChatSessions
  BY <1>1, <1>2, <1>3, HandlerActs DEF history
<1>5. ChatTypeOK'
  BY <1>1, <1>2, <1>3, <1>4
  DEF ChatInv, ChatTypeOK, GoesOrReturns, HandlerRecords, chatFiles, history
<1>6. ToastsAreApart' /\ SummariesAreKept' /\ LastToastIsRemembered'
  BY <1>1 DEF ChatInv, ToastsAreApart, SummariesAreKept, LastToastIsRemembered, history
<1> QED
  BY <1>4, <1>5, <1>6 DEF ChatInv

LEMMA FileOpTrackedStep ==
    ASSUME ChatInv, NEW h \in Handlers, NEW op \in Ops, FileOpTracked(h, op)
    PROVE  ChatInv'
<1> DEFINE s == handlers[h].session
<1>1. /\ handlers[h].kind = "file"
      /\ fileOps' = [fileOps EXCEPT ![s] = fileOps[s] \cup {op}]
      /\ UNCHANGED <<thinkMode, usageCache, ratios, warnedAt, chatFiles, history,
                     chatTime, started>>
  BY DEF FileOpTracked, At
<1>2. GoesOrReturns(h)
  BY HandlerReturns DEF FileOpTracked
<1>3. s \in ChatSessions
  BY <1>1, HandlerTyped
<1>4. /\ fileOps' \in [ChatSessions -> SUBSET Ops]
      /\ \A p \in ChatSessions : fileOps[p] \subseteq fileOps'[p]
      /\ \A p \in ChatSessions \ {s} : fileOps'[p] = fileOps[p]
  BY <1>1, <1>3 DEF ChatInv, ChatTypeOK
<1>5. /\ ForgottenUnlessLate' /\ HandlersOfTheGone'
      /\ \A g \in Handlers : IF handlers'[g].kind = "none"
                             THEN handlers'[g] = HandlerIdle
                             ELSE handlers'[g].session \in ChatSessions
  BY <1>1, <1>2, <1>4, HandlerActs DEF history
<1>6. ChatTypeOK'
  BY <1>1, <1>2, <1>4, <1>5
  DEF ChatInv, ChatTypeOK, GoesOrReturns, HandlerRecords, chatFiles, history
<1>7. ToastsAreApart' /\ LastToastIsRemembered'
  BY <1>1 DEF ChatInv, ToastsAreApart, LastToastIsRemembered, history
<1>8. SummariesAreKept'
  BY <1>1, <1>4 DEF ChatInv, SummariesAreKept, history
<1> QED
  BY <1>5, <1>6, <1>7, <1>8 DEF ChatInv

\* A toast more, later than the last one by more than the cooldown.
LEMMA ToastAppended ==
    ASSUME NEW toasts \in Seq(1..MaxChatTime), NEW t \in 1..MaxChatTime,
           \A i \in 1..(Len(toasts) - 1) : toasts[i + 1] - toasts[i] > Cooldown,
           toasts # <<>> => t - toasts[Len(toasts)] > Cooldown
    PROVE  LET more == Append(toasts, t) IN
           /\ more \in Seq(1..MaxChatTime) /\ more # <<>> /\ more[Len(more)] = t
           /\ \A i \in 1..(Len(more) - 1) : more[i + 1] - more[i] > Cooldown
<1> DEFINE more == Append(toasts, t)
<1>1. /\ more \in Seq(1..MaxChatTime) /\ Len(toasts) \in Nat
      /\ Len(more) = Len(toasts) + 1 /\ more[Len(toasts) + 1] = t
      /\ \A i \in 1..Len(toasts) : more[i] = toasts[i]
  BY LenProperties
<1>2. more # <<>>
  BY <1>1
<1>3. ASSUME NEW i \in 1..(Len(more) - 1) PROVE more[i + 1] - more[i] > Cooldown
  <2>1. CASE i = Len(toasts)
    <3>1. toasts # <<>> /\ more[i] = toasts[Len(toasts)] /\ more[i + 1] = t
      BY <1>1, <2>1
    <3> QED
      BY <3>1
  <2>2. CASE i # Len(toasts)
    <3>1. /\ i \in 1..(Len(toasts) - 1) /\ i + 1 \in 1..Len(toasts)
          /\ i \in 1..Len(toasts)
      BY <1>1, <2>2
    <3>2. more[i] = toasts[i] /\ more[i + 1] = toasts[i + 1]
      BY <1>1, <3>1
    <3> QED
      BY <3>1, <3>2
  <2> QED
    BY <2>1, <2>2
<1> QED
  BY <1>1, <1>2, <1>3

LEMMA RatioSeenStep ==
    ASSUME ChatInv, NEW h \in Handlers, RatioSeen(h)
    PROVE  ChatInv'
<1> DEFINE s == handlers[h].session
<1>1. /\ handlers[h].kind = "updated"
      /\ ratios' = [ratios EXCEPT ![s] = handlers[h].reading]
      /\ warnedAt' = IF Warns(h) THEN [warnedAt EXCEPT ![s] = chatTime] ELSE warnedAt
      /\ toastTimes' = IF Warns(h)
                       THEN [toastTimes EXCEPT ![s] = Append(toastTimes[s], chatTime)]
                       ELSE toastTimes
      /\ UNCHANGED <<thinkMode, usageCache, fileOps, chatFiles, summarised, gone,
                     late, chatTime, started>>
  BY DEF RatioSeen, At
<1>2. GoesOrReturns(h)
  BY HandlerReturns DEF RatioSeen
<1>3. /\ s \in ChatSessions /\ handlers[h].reading \in 0..MaxRatio
      /\ chatTime \in 1..MaxChatTime /\ chatTime \in 0..MaxChatTime
  BY <1>1, HandlerTyped, ChatFacts DEF HandlerRecords, ChatInv, ChatTypeOK
<1>4. /\ ratios' \in [ChatSessions -> 0..MaxRatio]
      /\ \A p \in ChatSessions \ {s} : ratios'[p] = ratios[p]
  BY <1>1, <1>3 DEF ChatInv, ChatTypeOK
<1>5. /\ warnedAt' \in [ChatSessions -> 0..MaxChatTime]
      /\ \A p \in ChatSessions \ {s} : warnedAt'[p] = warnedAt[p]
  BY <1>1, <1>3 DEF ChatInv, ChatTypeOK
<1>6. /\ toastTimes' \in [ChatSessions -> Seq(1..MaxChatTime)]
      /\ ToastsAreApart' /\ LastToastIsRemembered'
  <2> DEFINE toasts == toastTimes[s]
  <2>1. toastTimes \in [ChatSessions -> Seq(1..MaxChatTime)]
    BY DEF ChatInv, ChatTypeOK
  <2>2. CASE ~Warns(h)
    BY <1>1, <2>1, <2>2 DEF ChatInv, ToastsAreApart, LastToastIsRemembered
  <2>3. CASE Warns(h)
    <3>1. toasts \in Seq(1..MaxChatTime)
      BY <1>3, <2>1
    <3>2. /\ \A i \in 1..(Len(toasts) - 1) : toasts[i + 1] - toasts[i] > Cooldown
          /\ warnedAt[s] = IF toasts = <<>> THEN 0 ELSE toasts[Len(toasts)]
      BY <1>3 DEF ChatInv, ToastsAreApart, LastToastIsRemembered
    <3>3. toasts # <<>> => chatTime - toasts[Len(toasts)] > Cooldown
      <4> SUFFICES ASSUME toasts # <<>>
                   PROVE  chatTime - toasts[Len(toasts)] > Cooldown
        OBVIOUS
      <4>1. Len(toasts) \in 1..Len(toasts)
        BY <3>1, LenProperties, EmptySeq
      <4>2. toasts[Len(toasts)] \in 1..MaxChatTime
        BY <3>1, <4>1, ElementOfSeq
      <4>3. warnedAt[s] = toasts[Len(toasts)] /\ warnedAt[s] # 0
        BY <3>2, <4>2
      <4> QED
        BY <2>3, <4>3 DEF Warns, Cooled
    <3> DEFINE more == Append(toasts, chatTime)
    <3>4. /\ more \in Seq(1..MaxChatTime) /\ more # <<>> /\ more[Len(more)] = chatTime
          /\ \A i \in 1..(Len(more) - 1) : more[i + 1] - more[i] > Cooldown
      BY <1>3, <3>1, <3>2, <3>3, ToastAppended
    <3>5. toastTimes' = [toastTimes EXCEPT ![s] = more]
          /\ warnedAt' = [warnedAt EXCEPT ![s] = chatTime]
      BY <1>1, <2>3
    <3> HIDE DEF more, toasts
    <3>6. /\ toastTimes' \in [ChatSessions -> Seq(1..MaxChatTime)]
          /\ toastTimes'[s] = more
          /\ \A p \in ChatSessions \ {s} : toastTimes'[p] = toastTimes[p]
      BY <1>3, <2>1, <3>4, <3>5
    <3>7. warnedAt'[s] = chatTime
      BY <1>3, <3>5 DEF ChatInv, ChatTypeOK
    <3>8. ToastsAreApart'
      BY <3>4, <3>6 DEF ChatInv, ToastsAreApart
    <3>9. LastToastIsRemembered'
      BY <1>5, <3>4, <3>6, <3>7 DEF ChatInv, LastToastIsRemembered
    <3> QED
      BY <3>6, <3>8, <3>9
  <2> QED
    BY <2>2, <2>3
<1>7. /\ ForgottenUnlessLate' /\ HandlersOfTheGone'
      /\ \A g \in Handlers : IF handlers'[g].kind = "none"
                             THEN handlers'[g] = HandlerIdle
                             ELSE handlers'[g].session \in ChatSessions
  BY <1>1, <1>2, <1>4, <1>5, HandlerActs
<1>8. ChatTypeOK'
  BY <1>1, <1>2, <1>4, <1>5, <1>6, <1>7
  DEF ChatInv, ChatTypeOK, GoesOrReturns, HandlerRecords, chatFiles
<1>9. SummariesAreKept'
  BY <1>1 DEF ChatInv, SummariesAreKept
<1> QED
  BY <1>6, <1>7, <1>8, <1>9 DEF ChatInv

LEMMA SessionDeletedStep ==
    ASSUME ChatInv, NEW h \in Handlers, NEW s \in ChatSessions, SessionDeleted(h, s)
    PROVE  ChatInv'
<1>1. /\ s \notin gone /\ gone' = gone \cup {s} /\ thinkMode' = thinkMode \ {s}
      /\ late' = IF HandlersUnderWay(s) THEN late \cup {s} ELSE late
      /\ UNCHANGED <<usageCache, ratios, warnedAt, fileOps, chatFiles, summarised,
                     toastTimes, chatTime>>
  BY DEF SessionDeleted
<1>2. /\ StartsAs(h, "deleted", s) /\ started' \in 0..MaxHandlers
      /\ \A g \in Handlers : IF handlers'[g].kind = "none"
                             THEN handlers'[g] = HandlerIdle
                             ELSE handlers'[g].session \in ChatSessions
  <2>1. NoReading \in 0..MaxRatio
    BY ChatFacts DEF NoReading
  <2> QED
    BY <2>1, HandlerStarts DEF SessionDeleted, HandlerKinds, HandlerStages
<1>3. ChatTypeOK'
  BY <1>1, <1>2 DEF ChatInv, ChatTypeOK, StartsAs, HandlerRecords, chatFiles
<1>4. ForgottenUnlessLate'
  <2> SUFFICES ASSUME NEW p \in gone' \ late', ~HandlersUnderWay(p)'
               PROVE  /\ p \notin thinkMode' /\ usageCache[p] = NoReading
                      /\ ratios[p] = NoReading /\ warnedAt[p] = 0 /\ fileOps[p] = {}
    BY <1>1 DEF ForgottenUnlessLate
  <2>1. p # s
    BY <1>2, ChatFacts DEF HandlersUnderWay, StartsAs
  <2>2. p \in gone \ late /\ ~HandlersUnderWay(p)
    BY <1>1, <1>2, <2>1 DEF HandlersUnderWay, StartsAs
  <2> QED
    BY <1>1, <2>2 DEF ChatInv, ForgottenUnlessLate
<1>5. HandlersOfTheGone'
  <2>1. \A p \in gone' : p \notin thinkMode'
    BY <1>1 DEF ChatInv, HandlersOfTheGone
  <2>2. \A g \in Handlers : handlers'[g].kind = "deleted" => handlers'[g].session \in gone'
    BY <1>1, <1>2 DEF ChatInv, HandlersOfTheGone, StartsAs
  <2>3. ASSUME NEW g \in Handlers, handlers'[g] # HandlerIdle,
               handlers'[g].session \in gone' \ late'
        PROVE  handlers'[g].kind = "deleted"
    <3>1. CASE g = h
      BY <1>2, <3>1 DEF StartsAs
    <3>2. CASE g # h
      <4>1. handlers'[g] = handlers[g] /\ handlers[g].session # s
        BY <1>1, <1>2, <2>3, <3>2 DEF StartsAs, HandlersUnderWay
      <4> QED
        BY <1>1, <2>3, <4>1 DEF ChatInv, HandlersOfTheGone
    <3> QED
      BY <3>1, <3>2
  <2> QED
    BY <2>1, <2>2, <2>3 DEF HandlersOfTheGone
<1>6. ToastsAreApart' /\ SummariesAreKept' /\ LastToastIsRemembered'
  BY <1>1 DEF ChatInv, ToastsAreApart, SummariesAreKept, LastToastIsRemembered
<1> QED
  BY <1>3, <1>4, <1>5, <1>6 DEF ChatInv

LEMMA ChatForgottenStep ==
    ASSUME ChatInv, NEW h \in Handlers, ChatForgotten(h)
    PROVE  ChatInv'
<1> DEFINE s == handlers[h].session
<1>1. /\ handlers[h].kind = "deleted"
      /\ usageCache' = [usageCache EXCEPT ![s] = NoReading]
      /\ ratios' = [ratios EXCEPT ![s] = NoReading]
      /\ warnedAt' = [warnedAt EXCEPT ![s] = 0]
      /\ fileOps' = [fileOps EXCEPT ![s] = {}]
      /\ toastTimes' = [toastTimes EXCEPT ![s] = <<>>]
      /\ UNCHANGED <<thinkMode, chatFiles, summarised, gone, late, chatTime, started>>
  BY DEF ChatForgotten, At
<1>2. GoesOrReturns(h) /\ handlers'[h] = HandlerIdle
  BY HandlerReturns, HandlerTyped DEF ChatForgotten, Returns
<1>3. s \in gone /\ s \in ChatSessions /\ s \notin thinkMode
  BY <1>1 DEF ChatInv, ChatTypeOK, HandlersOfTheGone
<1>4. /\ usageCache' \in [ChatSessions -> 0..MaxRatio] /\ usageCache'[s] = NoReading
      /\ ratios' \in [ChatSessions -> 0..MaxRatio] /\ ratios'[s] = NoReading
      /\ \A p \in ChatSessions \ {s} :
           usageCache'[p] = usageCache[p] /\ ratios'[p] = ratios[p]
  BY <1>1, <1>3, ChatFacts DEF ChatInv, ChatTypeOK, NoReading
<1>5. /\ warnedAt' \in [ChatSessions -> 0..MaxChatTime] /\ warnedAt'[s] = 0
      /\ \A p \in ChatSessions \ {s} : warnedAt'[p] = warnedAt[p]
  BY <1>1, <1>3, ChatFacts DEF ChatInv, ChatTypeOK
<1>6. /\ fileOps' \in [ChatSessions -> SUBSET Ops] /\ fileOps'[s] = {}
      /\ \A p \in ChatSessions \ {s} : fileOps'[p] = fileOps[p]
  BY <1>1, <1>3 DEF ChatInv, ChatTypeOK
<1>7. /\ toastTimes' \in [ChatSessions -> Seq(1..MaxChatTime)] /\ toastTimes'[s] = <<>>
      /\ \A p \in ChatSessions \ {s} : toastTimes'[p] = toastTimes[p]
  BY <1>1, <1>3 DEF ChatInv, ChatTypeOK
<1>8. ChatTypeOK'
  <2>1. \A g \in Handlers : IF handlers'[g].kind = "none"
                            THEN handlers'[g] = HandlerIdle
                            ELSE handlers'[g].session \in ChatSessions
    BY <1>2, HandlerTyped, ChatFacts DEF GoesOrReturns
  <2> QED
    BY <1>1, <1>2, <1>4, <1>5, <1>6, <1>7, <2>1
    DEF ChatInv, ChatTypeOK, GoesOrReturns, HandlerRecords, chatFiles
<1>9. ForgottenUnlessLate'
  <2> SUFFICES ASSUME NEW p \in gone \ late, ~HandlersUnderWay(p)'
               PROVE  /\ p \notin thinkMode /\ usageCache'[p] = NoReading
                      /\ ratios'[p] = NoReading /\ warnedAt'[p] = 0
                      /\ fileOps'[p] = {}
    BY <1>1 DEF ForgottenUnlessLate
  <2>1. CASE p = s
    BY <2>1, <1>3, <1>4, <1>5, <1>6
  <2>2. CASE p # s
    <3>1. p \in ChatSessions /\ ~HandlersUnderWay(p)
      BY <1>2, <2>2 DEF HandlersUnderWay, GoesOrReturns, ChatInv, ChatTypeOK
    <3> QED
      BY <2>2, <3>1, <1>4, <1>5, <1>6 DEF ChatInv, ForgottenUnlessLate
  <2> QED
    BY <2>1, <2>2
<1>10. HandlersOfTheGone'
  BY <1>1, <1>2, ChatFacts DEF ChatInv, HandlersOfTheGone, GoesOrReturns
<1>11. ToastsAreApart'
  <2> SUFFICES ASSUME NEW p \in ChatSessions, NEW i \in 1..(Len(toastTimes'[p]) - 1)
               PROVE  toastTimes'[p][i + 1] - toastTimes'[p][i] > Cooldown
    BY DEF ToastsAreApart
  <2>1. CASE p = s
    BY <1>7, <2>1
  <2>2. CASE p # s
    BY <1>7, <2>2 DEF ChatInv, ToastsAreApart
  <2> QED
    BY <2>1, <2>2
<1>12. SummariesAreKept'
  BY <1>1, <1>3, <1>6 DEF ChatInv, SummariesAreKept
<1>13. LastToastIsRemembered'
  BY <1>3, <1>5, <1>7 DEF ChatInv, LastToastIsRemembered
<1> QED
  BY <1>8, <1>9, <1>10, <1>11, <1>12, <1>13 DEF ChatInv

LEMMA ChatStep == ChatInv /\ [ChatNext]_chatVars => ChatInv'
<1> SUFFICES ASSUME ChatInv, [ChatNext]_chatVars PROVE ChatInv'
  OBVIOUS
<1>1. ASSUME NEW s \in ChatSessions, NEW thinks \in BOOLEAN, MessageArrives(s, thinks)
      PROVE  ChatInv'
  <2>1. /\ s \notin gone /\ thinkMode' \subseteq thinkMode \cup {s}
        /\ UNCHANGED <<usageCache, ratios, warnedAt, fileOps, chatFiles, history,
                       handlers, chatTime, started>>
    BY <1>1 DEF MessageArrives
  <2>2. ChatTypeOK'
    BY <2>1 DEF ChatInv, ChatTypeOK, chatFiles, history
  <2>3. ForgottenUnlessLate'
    BY <2>1 DEF ChatInv, ForgottenUnlessLate, HandlersUnderWay, history
  <2>4. HandlersOfTheGone'
    BY <2>1 DEF ChatInv, HandlersOfTheGone, history
  <2>5. ToastsAreApart' /\ SummariesAreKept' /\ LastToastIsRemembered'
    BY <2>1 DEF ChatInv, ToastsAreApart, SummariesAreKept, LastToastIsRemembered, history
  <2> QED
    BY <2>2, <2>3, <2>4, <2>5 DEF ChatInv
<1>2. ASSUME NEW s \in ChatSessions, Compacting(s) PROVE ChatInv'
  <2>1. /\ summarised' = [summarised EXCEPT ![s] = fileOps[s]]
        /\ UNCHANGED <<caches, chatFiles, handlers, gone, late, toastTimes,
                       chatTime, started>>
    BY <1>2 DEF Compacting
  <2>2. ChatTypeOK'
    BY <2>1 DEF ChatInv, ChatTypeOK, caches, chatFiles
  <2>3. ForgottenUnlessLate' /\ HandlersOfTheGone'
    BY <2>1 DEF ChatInv, ForgottenUnlessLate, HandlersOfTheGone, HandlersUnderWay, caches
  <2>4. SummariesAreKept'
    BY <2>1 DEF ChatInv, ChatTypeOK, SummariesAreKept, caches
  <2>5. ToastsAreApart' /\ LastToastIsRemembered'
    BY <2>1 DEF ChatInv, ToastsAreApart, LastToastIsRemembered, caches
  <2> QED
    BY <2>2, <2>3, <2>4, <2>5 DEF ChatInv
<1>3. CASE FilesChange \/ ChatTick \/ UNCHANGED chatVars
  <2>1. /\ UNCHANGED <<caches, fragmentCache, history, handlers, started>>
        /\ fragmentFile' \in {"none", "some"} /\ ledgers' \in BOOLEAN
    BY <1>3 DEF FilesChange, ChatTick, chatVars, caches, chatFiles, history,
                ChatInv, ChatTypeOK
  <2>2. chatTime' \in 1..MaxChatTime
    BY <1>3, ChatFacts DEF FilesChange, ChatTick, chatVars, ChatInv, ChatTypeOK
  <2>3. ChatTypeOK'
    BY <2>1, <2>2 DEF ChatInv, ChatTypeOK, caches, history
  <2>4. ForgottenUnlessLate' /\ HandlersOfTheGone'
    BY <2>1 DEF ChatInv, ForgottenUnlessLate, HandlersOfTheGone, HandlersUnderWay,
                caches, history
  <2>5. ToastsAreApart' /\ SummariesAreKept' /\ LastToastIsRemembered'
    BY <2>1 DEF ChatInv, ToastsAreApart, SummariesAreKept, LastToastIsRemembered,
                caches, history
  <2> QED
    BY <2>3, <2>4, <2>5 DEF ChatInv
<1> QED
  BY <1>1, <1>2, <1>3, StartSteps, ParamsSteps, UsageSteps, FileOpTrackedStep,
     RatioSeenStep, SessionDeletedStep, ChatForgottenStep DEF ChatNext

-----------------------------------------------------------------------------
(* The skill autopilot: evidence, the locks of names and what is written.  *)

RunStages == {"idle", "next", "locking", "stealing", "locked", "writing", "sweeping"}

\* Stages in which a candidate has been judged worth a skill.
Judged == {"locking", "stealing", "locked", "writing"}

GoodRun(r) ==
    /\ r \in Runs /\ r.at \in RunStages
    /\ r.at \notin {"idle", "next"} => r.name \in Names
    /\ r.at \notin {"idle", "sweeping"} => r.issue \in SkillIssues

LEMMA SkillFacts ==
    /\ MinIssues \in Nat /\ Free \notin Processes
    /\ NoSkill \in Texts /\ NoSkill.kind = "absent"
    /\ NoCounts \in CountTables /\ \A c \in Candidates : NoCounts[c].issues = {}
    /\ Unlocked \in [by : Processes \cup {Free}, stale : BOOLEAN]
    /\ \A p \in Processes :
         /\ [by |-> p, stale |-> FALSE] \in [by : Processes \cup {Free}, stale : BOOLEAN]
         /\ [by |-> p, stale |-> FALSE] # Unlocked
    /\ ~Unlocked.stale
BY SkillAssumption DEF NoSkill, Texts, Kinds, NoCounts, CountTables, Unlocked

LEMMA IdleRunFacts ==
    GoodRun(IdleRun) /\ IdleRun.at = "idle" /\ IdleRun.counts = NoCounts
<1>1. IdleRun.at = "idle" /\ IdleRun.counts = NoCounts
  BY DEF IdleRun
<1>2. IdleRun \in Runs
  BY SkillFacts DEF IdleRun, Runs
<1> QED
  BY <1>1, <1>2 DEF GoodRun, RunStages

\* A run that goes on keeps all but its stage.
LEMMA GoesFacts ==
    ASSUME NEW r \in Runs, NEW at \in RunStages
    PROVE  LET s == [r EXCEPT !.at = at]
           IN  /\ s \in Runs /\ s.at = at
               /\ s.name = r.name /\ s.issue = r.issue /\ s.counts = r.counts
               /\ s.cause = r.cause /\ s.text = r.text
BY DEF Runs, RunStages

LEMMA GoesGood ==
    ASSUME NEW q, GoodRun(q), q.at \notin {"idle", "next", "sweeping"},
           NEW at \in {"next", "stealing", "locked", "writing"}
    PROVE  LET s == [q EXCEPT !.at = at]
           IN  /\ GoodRun(s) /\ s.at = at /\ s.name = q.name
               /\ s.counts = q.counts /\ s.cause = q.cause /\ s.text = q.text
<1> DEFINE s == [q EXCEPT !.at = at]
<1>1. q \in Runs /\ q.name \in Names /\ q.issue \in SkillIssues /\ at \in RunStages
  BY DEF GoodRun, RunStages
<1>2. /\ s \in Runs /\ s.at = at /\ s.name = q.name /\ s.issue = q.issue
      /\ s.counts = q.counts /\ s.cause = q.cause /\ s.text = q.text
  BY <1>1, GoesFacts
<1> HIDE DEF s
<1>3. GoodRun(s)
  BY <1>1, <1>2 DEF GoodRun
<1> QED
  BY <1>2, <1>3 DEF s

SkillTyped ==
    /\ skill \in [Names -> Texts]
    /\ locks \in [Names -> [by : Processes \cup {Free}, stale : BOOLEAN]]
    /\ counts \in CountTables
    /\ rejections \subseteq Candidates /\ index \subseteq Names
    /\ run \in [Processes -> Runs] /\ \A p \in Processes : GoodRun(run[p])
    /\ happened \in [commits : Nat, edits : Nat, sweeps : Nat]
    /\ seen \in [Candidates -> SUBSET SkillIssues]
    /\ \A c \in Candidates : IsFiniteSet(seen[c])

LEMMA SkillTyping == SkillTypeOK <=> SkillTyped
<1>1. \A r \in Runs : r.at \in RunStages
  BY DEF Runs, RunStages
<1> QED
  BY <1>1 DEF SkillTypeOK, SkillTyped, GoodRun

LEMMA OneWriterFollows == LocksAreHeld => OneWriter
<1> SUFFICES ASSUME LocksAreHeld, NEW p \in Processes, NEW o \in Processes,
                    p # o, run[p].name = run[o].name,
                    {run[p].at, run[o].at} \subseteq {"locked", "writing"},
                    run[p].name \notin disputed
             PROVE  FALSE
  BY DEF OneWriter
<1>1. /\ locks[run[p].name] = [by |-> p, stale |-> FALSE]
      /\ locks[run[p].name] = [by |-> o, stale |-> FALSE]
  BY DEF LocksAreHeld
<1> QED
  BY <1>1

\* One process goes from its run to r; the others stay.
Moves(p, r) == GoodRun(r) /\ run' = [run EXCEPT ![p] = r]

LEMMA MovesFacts ==
    ASSUME SkillTypeOK, NEW p \in Processes, NEW r, Moves(p, r)
    PROVE  /\ run' \in [Processes -> Runs] /\ \A o \in Processes : GoodRun(run'[o])
           /\ \A o \in Processes : run'[o] = IF o = p THEN r ELSE run[o]
BY SkillTyping DEF SkillTyped, Moves, GoodRun

LEMMA TypingKept ==
    ASSUME SkillTypeOK, NEW p \in Processes, NEW r, Moves(p, r),
           skill' \in [Names -> Texts],
           locks' \in [Names -> [by : Processes \cup {Free}, stale : BOOLEAN]],
           counts' \in CountTables,
           rejections' \subseteq Candidates, index' \subseteq Names,
           happened' \in [commits : Nat, edits : Nat, sweeps : Nat],
           seen' \in [Candidates -> SUBSET SkillIssues],
           \A c \in Candidates : IsFiniteSet(seen'[c])
    PROVE  SkillTypeOK'
<1>1. run' \in [Processes -> Runs] /\ \A o \in Processes : GoodRun(run'[o])
  BY MovesFacts
<1>2. \A o \in Processes : GoodRun(run[o])'
  BY <1>1 DEF GoodRun
<1>3. SkillTyped'
  BY <1>1, <1>2 DEF SkillTyped
<1>4. (SkillTypeOK <=> SkillTyped)'
  BY SkillTyping, PTL
<1> QED
  BY <1>3, <1>4

LEMMA EvidenceKept ==
    ASSUME SkillTypeOK, EvidenceIsReal, NEW p \in Processes, NEW r, Moves(p, r),
           seen' = seen,
           \A c \in Candidates : counts'[c].issues \subseteq seen[c],
           \A c \in Candidates : r.counts[c].issues \subseteq seen[c],
           r.at \in Judged => run[p].at \in Judged /\ r.cause = run[p].cause
    PROVE  EvidenceIsReal'
<1>1. \A o \in Processes : run'[o] = IF o = p THEN r ELSE run[o]
  BY MovesFacts
<1>2. ASSUME NEW o \in Processes, NEW c \in Candidates
      PROVE  /\ run'[o].counts[c].issues \subseteq seen[c]
             /\ run'[o].at \in Judged /\ c \in run'[o].cause
                  => Cardinality(seen[c]) >= MinIssues
  <2>1. CASE o = p
    BY <1>1, <2>1 DEF EvidenceIsReal, Judged
  <2>2. CASE o # p
    BY <1>1, <2>2 DEF EvidenceIsReal, Judged
  <2> QED
    BY <2>1, <2>2
<1> QED
  BY <1>2 DEF EvidenceIsReal, Judged

LEMMA LocksKept ==
    ASSUME SkillTypeOK, LocksAreHeld, NEW p \in Processes, NEW r, Moves(p, r),
           UNCHANGED <<locks, disputed>>, r.at # "stealing",
           r.at \in {"locked", "writing"} =>
               run[p].at \in {"locked", "writing"} /\ r.name = run[p].name
    PROVE  LocksAreHeld'
<1>1. \A o \in Processes : run'[o] = IF o = p THEN r ELSE run[o]
  BY MovesFacts
<1>2. ASSUME NEW o \in Processes, run'[o].name \notin disputed
      PROVE  /\ run'[o].at \in {"locked", "writing"} =>
                   locks[run'[o].name] = [by |-> o, stale |-> FALSE]
             /\ run'[o].at = "stealing" =>
                   /\ locks[run'[o].name].stale
                   /\ \A q \in Processes :
                        run'[q].at = "stealing" /\ run'[q].name = run'[o].name => q = o
  <2>1. CASE o = p
    BY <1>1, <1>2, <2>1 DEF LocksAreHeld
  <2>2. CASE o # p
    BY <1>1, <1>2, <2>2 DEF LocksAreHeld
  <2> QED
    BY <2>1, <2>2
<1> QED
  BY <1>2 DEF LocksAreHeld

LEMMA LocksReleased ==
    ASSUME SkillTypeOK, LocksAreHeld, NEW p \in Processes, NEW r, Moves(p, r),
           UNCHANGED disputed, Releases(p), run[p].at \in {"locked", "writing"},
           r.at \notin {"locked", "writing", "stealing"}
    PROVE  LocksAreHeld'
<1>1. \A o \in Processes : run'[o] = IF o = p THEN r ELSE run[o]
  BY MovesFacts
<1> DEFINE n == run[p].name
<1>2. n \notin disputed => locks[n] = [by |-> p, stale |-> FALSE]
  BY DEF LocksAreHeld
<1>3. \A k : k # n => locks'[k] = locks[k]
  BY SkillTyping DEF SkillTyped, Releases
<1>4. ASSUME NEW o \in Processes, run'[o].name \notin disputed
      PROVE  /\ run'[o].at \in {"locked", "writing"} =>
                   locks'[run'[o].name] = [by |-> o, stale |-> FALSE]
             /\ run'[o].at = "stealing" =>
                   /\ locks'[run'[o].name].stale
                   /\ \A q \in Processes :
                        run'[q].at = "stealing" /\ run'[q].name = run'[o].name => q = o
  <2>1. CASE o = p
    BY <1>1, <2>1
  <2>2. CASE o # p
    <3>1. run'[o] = run[o]
      BY <1>1, <2>2
    <3>2. /\ run[o].at \in {"locked", "writing"} =>
                locks[run[o].name] = [by |-> o, stale |-> FALSE]
          /\ run[o].at = "stealing" =>
                /\ locks[run[o].name].stale
                /\ \A q \in Processes :
                     run[q].at = "stealing" /\ run[q].name = run[o].name => q = o
      BY <1>4, <3>1 DEF LocksAreHeld
    <3>3. run[o].at \in {"locked", "writing", "stealing"} => run[o].name # n
      BY <1>2, <1>4, <2>2, <3>1, <3>2
    <3>4. \A q \in Processes : run'[q].at = "stealing" => run'[q] = run[q]
      BY <1>1
    <3> QED
      BY <1>3, <3>1, <3>2, <3>3, <3>4
  <2> QED
    BY <2>1, <2>2
<1> QED
  BY <1>4 DEF LocksAreHeld

LEMMA FoundKept ==
    ASSUME SkillTypeOK, FoundIsThere, NEW p \in Processes, NEW r, Moves(p, r),
           UNCHANGED <<skill, raced>>, disputed \subseteq disputed',
           r.at = "writing" => MayWrite(r.name),
           r.at = "sweeping" => Parses(r.name) /\ r.text.kind = skill[r.name].kind
    PROVE  FoundIsThere'
<1>1. \A o \in Processes : run'[o] = IF o = p THEN r ELSE run[o]
  BY MovesFacts
<1>2. \A n : (MayWrite(n)' <=> MayWrite(n)) /\ (Parses(n)' <=> Parses(n))
  BY DEF MayWrite, Parses
<1>3. ASSUME NEW o \in Processes, run'[o].name \notin raced \cup disputed'
      PROVE  /\ run'[o].at = "writing" => MayWrite(run'[o].name)
             /\ run'[o].at = "sweeping" =>
                  /\ Parses(run'[o].name)
                  /\ run'[o].text.kind = skill[run'[o].name].kind
  <2>1. CASE o = p
    BY <1>1, <2>1
  <2>2. CASE o # p
    BY <1>1, <1>3, <2>2 DEF FoundIsThere
  <2> QED
    BY <2>1, <2>2
<1> QED
  BY <1>2, <1>3 DEF FoundIsThere, MayWrite, Parses

LEMMA SkillStart == SkillInit => SkillInv
<1> SUFFICES ASSUME SkillInit PROVE SkillInv
  OBVIOUS
<1>1. PICK c \in Candidates, held \in SUBSET SkillIssues :
        /\ IsFiniteSet(held) /\ Cardinality(held) < MinIssues
        /\ counts = [NoCounts EXCEPT ![c] = [hits |-> Cardinality(held),
                                             issues |-> held]]
        /\ seen = [d \in Candidates |-> IF d = c THEN held ELSE {}]
  BY DEF SkillInit
<1>2. Cardinality(held) \in Nat
  BY <1>1, FS_CardinalityType
<1>3. \A p \in Processes : run[p] = IdleRun
  BY DEF SkillInit
<1>4. counts \in CountTables
        /\ \A d \in Candidates : counts[d].issues = IF d = c THEN held ELSE {}
  BY <1>1, <1>2, SkillFacts DEF CountTables
<1>5. seen \in [Candidates -> SUBSET SkillIssues]
        /\ \A d \in Candidates : IsFiniteSet(seen[d])
  BY <1>1, FS_EmptySet
<1>6. SkillTypeOK
  <2>1. run \in [Processes -> Runs] /\ \A p \in Processes : GoodRun(run[p])
    BY IdleRunFacts DEF SkillInit, GoodRun
  <2>2. /\ skill \in [Names -> Texts]
        /\ locks \in [Names -> [by : Processes \cup {Free}, stale : BOOLEAN]]
    BY SkillFacts DEF SkillInit
  <2>3. /\ rejections \subseteq Candidates /\ index \subseteq Names
        /\ happened \in [commits : Nat, edits : Nat, sweeps : Nat]
    BY DEF SkillInit
  <2> QED
    BY <1>4, <1>5, <2>1, <2>2, <2>3, SkillTyping DEF SkillTyped
<1>7. EvidenceIsReal
  <2>1. \A d \in Candidates : counts[d].issues \subseteq seen[d]
    BY <1>1, <1>4
  <2>2. \A p \in Processes, d \in Candidates : run[p].counts[d].issues = {}
    BY <1>3, IdleRunFacts, SkillFacts
  <2>3. \A p \in Processes : run[p].at = "idle"
    BY <1>3, IdleRunFacts
  <2> QED
    BY <2>1, <2>2, <2>3 DEF EvidenceIsReal
<1>8. LocksAreHeld /\ FoundIsThere
  BY <1>3, IdleRunFacts DEF LocksAreHeld, FoundIsThere
<1> QED
  BY <1>6, <1>7, <1>8, OneWriterFollows DEF SkillInv

LEMMA HappensFacts ==
    ASSUME SkillTypeOK, NEW kind \in {"commits", "edits", "sweeps"}, NEW most,
           Happens(kind, most)
    PROVE  /\ happened' \in [commits : Nat, edits : Nat, sweeps : Nat]
           /\ kind = "edits" => happened'.edits > happened.edits
BY DEF SkillTypeOK, Happens

\* Evidence grows and a candidate is judged by it.
LEMMA EvidenceGrows ==
    ASSUME SkillTypeOK, EvidenceIsReal, NEW p \in Processes, NEW r, Moves(p, r),
           UNCHANGED counts,
           \A c \in Candidates : seen[c] \subseteq seen'[c] /\ IsFiniteSet(seen'[c]),
           \A c \in Candidates : r.counts[c].issues \subseteq seen'[c],
           \A c \in Candidates : r.at \in Judged /\ c \in r.cause
               => Cardinality(seen'[c]) >= MinIssues
    PROVE  EvidenceIsReal'
<1>1. \A o \in Processes : run'[o] = IF o = p THEN r ELSE run[o]
  BY MovesFacts
<1>2. \A c \in Candidates : /\ Cardinality(seen[c]) <= Cardinality(seen'[c])
                            /\ Cardinality(seen[c]) \in Nat
                            /\ Cardinality(seen'[c]) \in Nat
  BY FS_Subset, FS_CardinalityType
<1>3. ASSUME NEW o \in Processes, NEW c \in Candidates
      PROVE  /\ run'[o].counts[c].issues \subseteq seen'[c]
             /\ run'[o].at \in Judged /\ c \in run'[o].cause
                  => Cardinality(seen'[c]) >= MinIssues
  <2>1. CASE o = p
    BY <1>1, <2>1
  <2>2. CASE o # p
    <3>1. run[o].at \in Judged /\ c \in run[o].cause => Cardinality(seen[c]) >= MinIssues
      BY DEF EvidenceIsReal, Judged
    <3>2. run'[o] = run[o] /\ run[o].counts[c].issues \subseteq seen[c]
      BY <1>1, <2>2 DEF EvidenceIsReal
    <3>3. Cardinality(seen[c]) >= MinIssues => Cardinality(seen'[c]) >= MinIssues
      BY <1>2, SkillFacts
    <3> QED
      BY <3>1, <3>2, <3>3
  <2> QED
    BY <2>1, <2>2
<1> QED
  BY <1>3 DEF EvidenceIsReal, Judged

\* What all but the steps on locks, texts and evidence have in common.
LEMMA QuietMove ==
    ASSUME SkillInv, NEW p \in Processes, NEW r, Moves(p, r),
           UNCHANGED <<skill, locks, counts, rejections, index, seen, disputed, raced>>,
           happened' \in [commits : Nat, edits : Nat, sweeps : Nat],
           \A c \in Candidates : r.counts[c].issues \subseteq seen[c],
           r.at \in Judged => run[p].at \in Judged /\ r.cause = run[p].cause,
           r.at # "stealing",
           r.at \in {"locked", "writing"} =>
               run[p].at \in {"locked", "writing"} /\ r.name = run[p].name,
           r.at = "writing" => MayWrite(r.name),
           r.at = "sweeping" => Parses(r.name) /\ r.text.kind = skill[r.name].kind
    PROVE  SkillInv'
<1>1. /\ SkillTypeOK /\ EvidenceIsReal /\ LocksAreHeld /\ FoundIsThere
  BY DEF SkillInv
<1>2. SkillTypeOK'
  BY <1>1, SkillTyping, TypingKept DEF SkillTyped
<1>3. EvidenceIsReal'
  <2>1. \A c \in Candidates : counts[c].issues \subseteq seen[c]
    BY <1>1 DEF EvidenceIsReal
  <2> QED
    BY <1>1, <2>1, EvidenceKept
<1>4. LocksAreHeld'
  BY <1>1, LocksKept
<1>5. FoundIsThere'
  BY <1>1, FoundKept
<1>6. (LocksAreHeld => OneWriter)'
  BY OneWriterFollows, PTL
<1> QED
  BY <1>2, <1>3, <1>4, <1>5, <1>6 DEF SkillInv

LEMMA SkillParts ==
    SkillInv <=> SkillTypeOK /\ EvidenceIsReal /\ LocksAreHeld /\ FoundIsThere
BY OneWriterFollows DEF SkillInv

LEMMA RunBeginsStep ==
    ASSUME SkillInv, NEW p \in Processes, NEW issue \in SkillIssues,
           NEW mined \in Mined, RunBegins(p, issue, mined)
    PROVE  SkillInv'
<1>1. SkillTypeOK /\ EvidenceIsReal
  BY DEF SkillInv
<1> DEFINE found == {[name |-> n, about |-> About(n)] : n \in Discovered}
           r == [IdleRun EXCEPT !.at = "next", !.issue = issue, !.counts = counts,
                                !.todo = mined, !.existing = found]
<1>2. found \in SUBSET [name : Names, about : SUBSET Triggers]
  BY DEF Discovered, About, Names
<1>3. mined \in SUBSET Candidates /\ counts \in CountTables
  BY <1>1 DEF Mined, SkillTypeOK
<1>4. run' = [run EXCEPT ![p] = r]
  BY DEF RunBegins
<1> HIDE DEF found
<1>5. IdleRun \in Runs
  BY IdleRunFacts DEF GoodRun
<1>6. /\ r \in Runs /\ r.at = "next" /\ r.issue = issue /\ r.counts = counts
  BY <1>2, <1>3, <1>5 DEF Runs
<1> HIDE DEF r
<1>7. Moves(p, r)
  BY <1>4, <1>6 DEF Moves, GoodRun, RunStages
<1>8. happened' \in [commits : Nat, edits : Nat, sweeps : Nat]
  BY <1>1, HappensFacts DEF RunBegins
<1>9. UNCHANGED <<skill, locks, counts, rejections, index, seen, disputed, raced>>
  BY DEF RunBegins, files
<1>10. \A c \in Candidates : r.counts[c].issues \subseteq seen[c]
  BY <1>1, <1>6 DEF EvidenceIsReal
<1> QED
  BY <1>6, <1>7, <1>8, <1>9, <1>10, QuietMove DEF Judged

\* The run after a candidate has been weighed.
LEMMA WeighedFacts ==
    ASSUME SkillTypeOK, NEW p \in Processes, NEW c \in Candidates,
           run[p].at = "next", NEW n \in Names
    PROVE  LET d == Dropped(p, c)
               r == [d EXCEPT !.counts = Bumped(p, c)]
               goes == [r EXCEPT !.at = "locking",
                                 !.text = [kind |-> "written", deprecated |-> FALSE]]
               g == [goes EXCEPT !.name = n, !.cause = {c}]
           IN  /\ GoodRun(d) /\ d.at = "next" /\ d.counts = run[p].counts
               /\ GoodRun(r) /\ r.at = "next" /\ r.counts = Bumped(p, c)
               /\ GoodRun(g) /\ g.at = "locking" /\ g.counts = Bumped(p, c)
               /\ g.cause = {c}
<1> DEFINE q == run[p]
           d == Dropped(p, c)
           b == Bumped(p, c)
           r == [d EXCEPT !.counts = b]
           t == [kind |-> "written", deprecated |-> FALSE]
           goes == [r EXCEPT !.at = "locking", !.text = t]
           g == [goes EXCEPT !.name = n, !.cause = {c}]
<1>1. q \in Runs /\ q.at = "next" /\ q.issue \in SkillIssues /\ q.counts \in CountTables
  BY DEF SkillTypeOK, Runs
<1>2. b \in CountTables
  <2>1. q.counts[c].hits + 1 \in Nat /\ q.counts[c].issues \cup {q.issue} \in SUBSET SkillIssues
    BY <1>1 DEF CountTables
  <2>2. b = [q.counts EXCEPT ![c] = [hits |-> q.counts[c].hits + 1,
                                     issues |-> q.counts[c].issues \cup {q.issue}]]
    BY DEF Bumped
  <2> HIDE DEF b, q
  <2> QED
    BY <1>1, <2>1, <2>2 DEF CountTables
<1>3. d = [q EXCEPT !.at = "next", !.todo = q.todo \ {c}]
  BY DEF Dropped
<1>4. t \in Texts
  BY DEF Texts, Kinds
<1> HIDE DEF q, d, b, t
<1>5. d \in Runs /\ d.at = "next" /\ d.counts = q.counts /\ d.issue = q.issue
  BY <1>1, <1>3 DEF Runs
<1>6. r \in Runs /\ r.at = "next" /\ r.counts = b /\ r.issue = q.issue
  BY <1>2, <1>5 DEF Runs
<1> HIDE DEF r
<1>7. goes \in Runs /\ goes.at = "locking" /\ goes.counts = b /\ goes.issue = q.issue
  BY <1>4, <1>6 DEF Runs
<1> HIDE DEF goes
<1>8. /\ g \in Runs /\ g.at = "locking" /\ g.counts = b /\ g.issue = q.issue
      /\ g.cause = {c} /\ g.name = n
  BY <1>7 DEF Runs
<1> HIDE DEF g
<1>9. GoodRun(d) /\ GoodRun(r) /\ GoodRun(g)
  BY <1>1, <1>5, <1>6, <1>8 DEF GoodRun, RunStages
<1> QED
  BY <1>5, <1>6, <1>8, <1>9 DEF q, d, b, r, t, goes, g

LEMMA WeighsStep ==
    ASSUME SkillInv, NEW p \in Processes, NEW c \in Candidates, Weighs(p, c)
    PROVE  SkillInv'
<1>1. /\ SkillTypeOK /\ EvidenceIsReal /\ LocksAreHeld /\ FoundIsThere
      /\ run[p].at = "next" /\ run[p].issue \in SkillIssues /\ run[p] \in Runs
  BY DEF SkillInv, Weighs, SkillTypeOK
<1>2. /\ UNCHANGED <<skill, locks, counts, index, happened, disputed, raced>>
      /\ rejections' \subseteq Candidates
  BY <1>1 DEF Weighs, SkillTypeOK
<1>3. \E n \in Names : n = <<c.trigger, 1>>
  BY DEF Names, Candidates
<1> DEFINE d == Dropped(p, c)
           b == Bumped(p, c)
           r == [d EXCEPT !.counts = b]
           goes == [r EXCEPT !.at = "locking",
                             !.text = [kind |-> "written", deprecated |-> FALSE]]
           g(n) == [goes EXCEPT !.name = n, !.cause = {c}]
<1>4. \A e \in Candidates :
        b[e].issues = IF e = c THEN run[p].counts[c].issues \cup {run[p].issue}
                      ELSE run[p].counts[e].issues
  BY <1>1 DEF Bumped, Runs, CountTables
<1>5. PICK s : /\ run' = [run EXCEPT ![p] = s] /\ GoodRun(s)
               /\ s.at \in {"next", "locking"}
               /\ \/ s.counts = run[p].counts /\ s.at = "next" /\ seen' = seen
                  \/ /\ s.counts = b
                     /\ seen' = [seen EXCEPT ![c] = @ \cup {run[p].issue}]
                     /\ s.at = "locking" => Recurs(p, c) /\ s.cause = {c}
  <2>1. \A n \in Names :
          /\ GoodRun(d) /\ d.at = "next" /\ d.counts = run[p].counts
          /\ GoodRun(r) /\ r.at = "next" /\ r.counts = b
          /\ GoodRun(g(n)) /\ g(n).at = "locking" /\ g(n).counts = b
          /\ g(n).cause = {c}
    BY <1>1, WeighedFacts
  <2>2. NewName(p, c) \in Names /\ Patches(p, c) \subseteq Names
    BY <1>1 DEF NewName, Patches, Names, Candidates, Runs
  <2>3. \/ run' = [run EXCEPT ![p] = d] /\ seen' = seen
        \/ /\ seen' = [seen EXCEPT ![c] = @ \cup {run[p].issue}]
           /\ \/ run' = [run EXCEPT ![p] = r]
              \/ Recurs(p, c) /\ \E n \in Names : run' = [run EXCEPT ![p] = g(n)]
    BY <2>2, Zenon DEF Weighs
  <2> HIDE DEF d, b, r, goes, g
  <2> QED
    BY <1>3, <2>1, <2>3
<1>6. Moves(p, s)
  BY <1>5 DEF Moves
<1>7. /\ seen' \in [Candidates -> SUBSET SkillIssues]
      /\ \A e \in Candidates : seen[e] \subseteq seen'[e] /\ IsFiniteSet(seen'[e])
      /\ \A e \in Candidates : s.counts[e].issues \subseteq seen'[e]
  <2>1. /\ seen \in [Candidates -> SUBSET SkillIssues]
        /\ \A e \in Candidates : IsFiniteSet(seen[e])
        /\ \A e \in Candidates : run[p].counts[e].issues \subseteq seen[e]
    BY <1>1 DEF SkillTypeOK, EvidenceIsReal
  <2>2. CASE s.counts = run[p].counts /\ seen' = seen
    BY <2>1, <2>2
  <2>3. CASE /\ s.counts = b
             /\ seen' = [seen EXCEPT ![c] = @ \cup {run[p].issue}]
    <3> HIDE DEF b
    <3>1. \A e \in Candidates : seen'[e] = IF e = c THEN seen[c] \cup {run[p].issue} ELSE seen[e]
      BY <2>1, <2>3
    <3>2. IsFiniteSet(seen[c] \cup {run[p].issue})
      BY <2>1, FS_AddElement
    <3>3. seen' \in [Candidates -> SUBSET SkillIssues]
      BY <1>1, <2>1, <2>3
    <3> QED
      BY <1>4, <2>1, <2>3, <3>1, <3>2, <3>3
  <2> QED
    BY <1>5, <2>2, <2>3
<1>8. \A e \in Candidates : s.at \in Judged /\ e \in s.cause
          => Cardinality(seen'[e]) >= MinIssues
  <2> SUFFICES ASSUME s.at = "locking" PROVE Cardinality(seen'[c]) >= MinIssues
    BY <1>5 DEF Judged
  <2>1. b[c].issues \subseteq seen'[c] /\ Cardinality(b[c].issues) >= MinIssues
    BY <1>5, <1>7 DEF Recurs
  <2>2. /\ Cardinality(b[c].issues) <= Cardinality(seen'[c])
        /\ Cardinality(b[c].issues) \in Nat /\ Cardinality(seen'[c]) \in Nat
    BY <1>7, <2>1, FS_Subset, FS_CardinalityType
  <2> HIDE DEF b
  <2> QED
    BY <2>1, <2>2, SkillFacts
<1> HIDE DEF b
<1>9. SkillTypeOK'
  BY <1>1, <1>2, <1>6, <1>7, TypingKept DEF SkillTypeOK
<1>10. EvidenceIsReal'
  BY <1>1, <1>2, <1>6, <1>7, <1>8, EvidenceGrows
<1>11. LocksAreHeld'
  BY <1>1, <1>2, <1>5, <1>6, LocksKept
<1>12. FoundIsThere'
  BY <1>1, <1>2, <1>5, <1>6, FoundKept
<1>13. (SkillInv <=> SkillTypeOK /\ EvidenceIsReal /\ LocksAreHeld /\ FoundIsThere)'
  BY SkillParts, PTL
<1> QED
  BY <1>9, <1>10, <1>11, <1>12, <1>13

\* A process takes the lock of a name that nobody else holds or takes.
LEMMA LockTaken ==
    ASSUME SkillInv, NEW p \in Processes, NEW r, Moves(p, r), r.at = "locked",
           r.name = run[p].name, r.name \in Names,
           r.counts = run[p].counts, r.cause = run[p].cause, run[p].at \in Judged,
           locks' = [locks EXCEPT ![r.name] = [by |-> p, stale |-> FALSE]],
           UNCHANGED <<skill, counts, rejections, index, happened, seen, disputed,
                       raced>>,
           r.name \notin disputed => \A o \in Processes :
               o # p /\ run[o].name = r.name =>
                   run[o].at \notin {"locked", "writing", "stealing"}
    PROVE  SkillInv'
<1> DEFINE n == r.name
<1>1. /\ SkillTypeOK /\ EvidenceIsReal /\ LocksAreHeld /\ FoundIsThere
      /\ locks \in [Names -> [by : Processes \cup {Free}, stale : BOOLEAN]]
      /\ \A c \in Candidates : run[p].counts[c].issues \subseteq seen[c]
      /\ \A c \in Candidates : counts[c].issues \subseteq seen[c]
  BY DEF SkillInv, SkillTypeOK, EvidenceIsReal
<1>2. SkillTypeOK'
  <2>1. locks' \in [Names -> [by : Processes \cup {Free}, stale : BOOLEAN]]
    BY <1>1, SkillFacts
  <2> QED
    BY <1>1, <2>1, TypingKept DEF SkillTypeOK
<1>3. EvidenceIsReal'
  BY <1>1, EvidenceKept DEF Judged
<1>4. LocksAreHeld'
  <2>1. \A o \in Processes : run'[o] = IF o = p THEN r ELSE run[o]
    BY <1>1, MovesFacts
  <2>2. \A k : locks'[k] = IF k = n THEN [by |-> p, stale |-> FALSE] ELSE locks[k]
    BY <1>1
  <2>3. ASSUME NEW o \in Processes, run'[o].name \notin disputed
        PROVE  /\ run'[o].at \in {"locked", "writing"} =>
                     locks'[run'[o].name] = [by |-> o, stale |-> FALSE]
               /\ run'[o].at = "stealing" =>
                     /\ locks'[run'[o].name].stale
                     /\ \A q \in Processes :
                          run'[q].at = "stealing" /\ run'[q].name = run'[o].name => q = o
    <3>1. CASE o = p
      BY <2>1, <2>2, <3>1
    <3>2. CASE o # p
      <4>1. run'[o] = run[o]
        BY <2>1, <3>2
      <4>2. /\ run[o].at \in {"locked", "writing"} =>
                  locks[run[o].name] = [by |-> o, stale |-> FALSE]
            /\ run[o].at = "stealing" =>
                  /\ locks[run[o].name].stale
                  /\ \A q \in Processes :
                       run[q].at = "stealing" /\ run[q].name = run[o].name => q = o
        BY <1>1, <2>3, <4>1 DEF LocksAreHeld
      <4>3. run[o].at \in {"locked", "writing", "stealing"} => run[o].name # n
        BY <2>3, <3>2, <4>1
      <4>4. \A q \in Processes : run'[q].at = "stealing" => run'[q] = run[q]
        BY <2>1
      <4> QED
        BY <2>2, <4>1, <4>2, <4>3, <4>4
    <3> QED
      BY <3>1, <3>2
  <2> QED
    BY <2>3 DEF LocksAreHeld
<1>5. FoundIsThere'
  BY <1>1, FoundKept
<1>6. (SkillInv <=> SkillTypeOK /\ EvidenceIsReal /\ LocksAreHeld /\ FoundIsThere)'
  BY SkillParts, PTL
<1> QED
  BY <1>2, <1>3, <1>4, <1>5, <1>6

LEMMA LocksStep ==
    ASSUME SkillInv, NEW p \in Processes, Locks(p)
    PROVE  SkillInv'
<1> DEFINE n == run[p].name
           r(at) == [run[p] EXCEPT !.at = at]
<1>1. /\ SkillTypeOK /\ EvidenceIsReal /\ LocksAreHeld /\ FoundIsThere
      /\ run[p].at = "locking" /\ run[p] \in Runs /\ GoodRun(run[p]) /\ n \in Names
  BY SkillTyping DEF SkillInv, Locks, SkillTypeOK, SkillTyped
<1>2. UNCHANGED <<skill, counts, rejections, index, happened, seen, disputed, raced>>
  BY DEF Locks
<1>3. \A at \in {"next", "locked"} :
        /\ GoodRun(r(at)) /\ r(at).at = at /\ r(at).name = n
        /\ r(at).counts = run[p].counts /\ r(at).cause = run[p].cause
  <2>1. /\ GoodRun(r("next")) /\ r("next").at = "next" /\ r("next").name = n
        /\ r("next").counts = run[p].counts /\ r("next").cause = run[p].cause
    BY <1>1, GoesGood
  <2>2. /\ GoodRun(r("locked")) /\ r("locked").at = "locked" /\ r("locked").name = n
        /\ r("locked").counts = run[p].counts /\ r("locked").cause = run[p].cause
    BY <1>1, GoesGood
  <2> HIDE DEF r
  <2> QED
    BY <2>1, <2>2
<1>4. \/ run' = [run EXCEPT ![p] = r("next")] /\ locks' = locks
      \/ /\ run' = [run EXCEPT ![p] = r("locked")] /\ locks[n] = Unlocked
         /\ locks' = [locks EXCEPT ![n] = [by |-> p, stale |-> FALSE]]
  <2>1. run' = [run EXCEPT ![p] = r("next")] \/ run' = [run EXCEPT ![p] = r("locked")]
    BY <1>1 DEF Locks, RunGoes, SkillTypeOK
  <2>2. CASE locks[n] = Unlocked
    <3>1. [Unlocked EXCEPT !.by = p] = [by |-> p, stale |-> FALSE]
      <4> DEFINE u == [Unlocked EXCEPT !.by = p]
      <4>1. u \in [by : Processes \cup {Free}, stale : BOOLEAN] /\ u.by = p
        BY SkillFacts
      <4>2. ~u.stale
        BY SkillFacts
      <4> HIDE DEF u
      <4>3. u = [by |-> p, stale |-> FALSE]
        BY <4>1, <4>2
      <4> QED
        BY <4>3 DEF u
    <3>2. locks' = [locks EXCEPT ![n] = [Unlocked EXCEPT !.by = p]]
      BY <1>1, <2>2 DEF Locks, SkillTypeOK
    <3>3. run' = [run EXCEPT ![p] = r("locked")]
      BY <1>1, <2>2 DEF Locks, RunGoes, SkillTypeOK
    <3> QED
      BY <2>2, <3>1, <3>2, <3>3, Zenon
  <2>3. CASE locks[n] # Unlocked
    BY <1>1, <2>3 DEF Locks, RunGoes, SkillTypeOK
  <2> QED
    BY <2>2, <2>3
<1>5. /\ locks \in [Names -> [by : Processes \cup {Free}, stale : BOOLEAN]]
      /\ happened \in [commits : Nat, edits : Nat, sweeps : Nat]
      /\ \A c \in Candidates : run[p].counts[c].issues \subseteq seen[c]
      /\ \A c \in Candidates : counts[c].issues \subseteq seen[c]
  BY <1>1 DEF SkillTypeOK, EvidenceIsReal
<1> HIDE DEF r
<1>6. CASE run' = [run EXCEPT ![p] = r("next")] /\ locks' = locks
  <2>1. Moves(p, r("next"))
    BY <1>3, <1>6 DEF Moves
  <2> QED
    BY <1>2, <1>3, <1>5, <1>6, <2>1, QuietMove DEF Judged
<1>7. CASE /\ run' = [run EXCEPT ![p] = r("locked")] /\ locks[n] = Unlocked
           /\ locks' = [locks EXCEPT ![n] = [by |-> p, stale |-> FALSE]]
  <2>1. Moves(p, r("locked"))
    BY <1>3, <1>7 DEF Moves
  <2>2. \A o \in Processes : n \notin disputed /\ run[o].name = n =>
          run[o].at \notin {"locked", "writing", "stealing"}
    BY <1>1, <1>7, SkillFacts DEF LocksAreHeld
  <2>3. run[p].at \in Judged
    BY <1>1 DEF Judged
  <2> QED
    BY <1>1, <1>2, <1>3, <1>7, <2>1, <2>2, <2>3, LockTaken
<1> QED
  BY <1>4, <1>6, <1>7

LEMMA SeesStaleLockStep ==
    ASSUME SkillInv, NEW p \in Processes, SeesStaleLock(p)
    PROVE  SkillInv'
<1> DEFINE n == run[p].name
           r == [run[p] EXCEPT !.at = "stealing"]
<1>1. /\ SkillTypeOK /\ EvidenceIsReal /\ LocksAreHeld /\ FoundIsThere
      /\ run[p].at = "locking" /\ run[p] \in Runs /\ GoodRun(run[p])
      /\ n \in Names /\ locks[n].stale
  BY SkillTyping DEF SkillInv, SeesStaleLock, SkillTypeOK, SkillTyped
<1>2. /\ UNCHANGED <<skill, locks, counts, rejections, index, happened, seen, raced>>
      /\ disputed' = disputed \cup
             {k \in {n} : \E o \in Processes : run[o].at = "stealing" /\ run[o].name = k}
  BY DEF SeesStaleLock, files
<1>3. /\ GoodRun(r) /\ r.at = "stealing" /\ r.name = n
      /\ r.counts = run[p].counts /\ r.cause = run[p].cause
  BY <1>1, GoesGood
<1>4. Moves(p, r)
  BY <1>3 DEF Moves, SeesStaleLock, RunGoes
<1> HIDE DEF r
<1>5. SkillTypeOK'
  BY <1>1, <1>2, <1>4, TypingKept DEF SkillTypeOK
<1>6. EvidenceIsReal'
  <2>1. /\ \A c \in Candidates : run[p].counts[c].issues \subseteq seen[c]
        /\ \A c \in Candidates : counts[c].issues \subseteq seen[c]
    BY <1>1 DEF EvidenceIsReal
  <2> QED
    BY <1>1, <1>2, <1>3, <1>4, <2>1, EvidenceKept DEF Judged
<1>7. LocksAreHeld'
  <2>1. \A o \in Processes : run'[o] = IF o = p THEN r ELSE run[o]
    BY <1>1, <1>4, MovesFacts
  <2>2. ASSUME NEW o \in Processes, run'[o].name \notin disputed'
        PROVE  /\ run'[o].at \in {"locked", "writing"} =>
                     locks[run'[o].name] = [by |-> o, stale |-> FALSE]
               /\ run'[o].at = "stealing" =>
                     /\ locks[run'[o].name].stale
                     /\ \A q \in Processes :
                          run'[q].at = "stealing" /\ run'[q].name = run'[o].name => q = o
    <3>1. CASE o = p
      <4>1. \A q \in Processes : run[q].at = "stealing" => run[q].name # n
        BY <1>2, <1>3, <2>1, <2>2, <3>1
      <4> QED
        BY <1>1, <1>3, <2>1, <3>1, <4>1
    <3>2. CASE o # p
      <4>1. run'[o] = run[o] /\ run[o].name \notin disputed
        BY <1>2, <2>1, <2>2, <3>2
      <4>2. /\ run[o].at \in {"locked", "writing"} =>
                  locks[run[o].name] = [by |-> o, stale |-> FALSE]
            /\ run[o].at = "stealing" =>
                  /\ locks[run[o].name].stale
                  /\ \A q \in Processes :
                       run[q].at = "stealing" /\ run[q].name = run[o].name => q = o
        BY <1>1, <4>1 DEF LocksAreHeld
      <4>3. run[o].at = "stealing" => run[o].name # n
        BY <1>2, <2>2, <4>1
      <4> QED
        BY <1>3, <2>1, <4>1, <4>2, <4>3
    <3> QED
      BY <3>1, <3>2
  <2> QED
    BY <1>2, <2>2 DEF LocksAreHeld
<1>8. FoundIsThere'
  BY <1>1, <1>2, <1>3, <1>4, FoundKept
<1>9. (SkillInv <=> SkillTypeOK /\ EvidenceIsReal /\ LocksAreHeld /\ FoundIsThere)'
  BY SkillParts, PTL
<1> QED
  BY <1>5, <1>6, <1>7, <1>8, <1>9

LEMMA StealsLockStep ==
    ASSUME SkillInv, NEW p \in Processes, StealsLock(p)
    PROVE  SkillInv'
<1> DEFINE n == run[p].name
           r(at) == [run[p] EXCEPT !.at = at]
<1>1. /\ SkillTypeOK /\ EvidenceIsReal /\ LocksAreHeld
      /\ run[p].at = "stealing" /\ GoodRun(run[p]) /\ n \in Names
      /\ happened \in [commits : Nat, edits : Nat, sweeps : Nat]
  BY SkillTyping DEF SkillInv, StealsLock, SkillTypeOK, SkillTyped
<1>2. UNCHANGED <<skill, counts, rejections, index, happened, seen, disputed, raced>>
  BY DEF StealsLock
<1>3. /\ GoodRun(r("next")) /\ r("next").at = "next" /\ r("next").name = n
      /\ r("next").counts = run[p].counts /\ r("next").cause = run[p].cause
  BY <1>1, GoesGood
<1>4. /\ GoodRun(r("locked")) /\ r("locked").at = "locked" /\ r("locked").name = n
      /\ r("locked").counts = run[p].counts /\ r("locked").cause = run[p].cause
  BY <1>1, GoesGood
<1>5. \/ run' = [run EXCEPT ![p] = r("next")] /\ locks' = locks
      \/ /\ run' = [run EXCEPT ![p] = r("locked")]
         /\ locks' = [locks EXCEPT ![n] = [by |-> p, stale |-> FALSE]]
  BY DEF StealsLock, RunGoes
<1> HIDE DEF r
<1>6. CASE run' = [run EXCEPT ![p] = r("next")] /\ locks' = locks
  <2>1. Moves(p, r("next"))
    BY <1>3, <1>6 DEF Moves
  <2>2. \A c \in Candidates : run[p].counts[c].issues \subseteq seen[c]
    BY <1>1 DEF EvidenceIsReal
  <2> QED
    BY <1>1, <1>2, <1>3, <1>6, <2>1, <2>2, QuietMove DEF Judged
<1>7. CASE /\ run' = [run EXCEPT ![p] = r("locked")]
           /\ locks' = [locks EXCEPT ![n] = [by |-> p, stale |-> FALSE]]
  <2>1. Moves(p, r("locked"))
    BY <1>4, <1>7 DEF Moves
  <2>2. \A o \in Processes : n \notin disputed /\ o # p /\ run[o].name = n =>
          run[o].at \notin {"locked", "writing", "stealing"}
    <3> SUFFICES ASSUME n \notin disputed, NEW o \in Processes, o # p,
                        run[o].name = n
                 PROVE  run[o].at \notin {"locked", "writing", "stealing"}
      OBVIOUS
    <3>1. /\ locks[n].stale
          /\ run[o].at = "stealing" => o = p
      BY <1>1 DEF LocksAreHeld
    <3>2. run[o].at \in {"locked", "writing"} => locks[n] = [by |-> o, stale |-> FALSE]
      BY <1>1 DEF LocksAreHeld
    <3>3. ~[by |-> o, stale |-> FALSE].stale
      OBVIOUS
    <3> QED
      BY <3>1, <3>2, <3>3
  <2>3. run[p].at \in Judged
    BY <1>1 DEF Judged
  <2> QED
    BY <1>1, <1>2, <1>4, <1>7, <2>1, <2>2, <2>3, LockTaken
<1> QED
  BY <1>5, <1>6, <1>7

\* The check of the file under the lock: the run goes on to write or lets go.
LEMMA ChecksSkillStep ==
    ASSUME SkillInv, NEW p \in Processes, ChecksSkill(p)
    PROVE  SkillInv'
<1> DEFINE n == run[p].name
           r(at) == [run[p] EXCEPT !.at = at]
<1>1. /\ SkillTypeOK /\ EvidenceIsReal /\ LocksAreHeld /\ FoundIsThere
      /\ run[p].at = "locked" /\ GoodRun(run[p]) /\ n \in Names
      /\ happened \in [commits : Nat, edits : Nat, sweeps : Nat]
      /\ locks \in [Names -> [by : Processes \cup {Free}, stale : BOOLEAN]]
      /\ \A c \in Candidates : run[p].counts[c].issues \subseteq seen[c]
      /\ \A c \in Candidates : counts[c].issues \subseteq seen[c]
  BY SkillTyping DEF SkillInv, ChecksSkill, SkillTypeOK, SkillTyped, EvidenceIsReal
<1>2. UNCHANGED <<skill, counts, rejections, index, happened, seen, disputed, raced>>
  BY DEF ChecksSkill
<1>3. /\ GoodRun(r("next")) /\ r("next").at = "next" /\ r("next").name = n
      /\ r("next").counts = run[p].counts /\ r("next").cause = run[p].cause
  BY <1>1, GoesGood
<1>4. /\ GoodRun(r("writing")) /\ r("writing").at = "writing" /\ r("writing").name = n
      /\ r("writing").counts = run[p].counts /\ r("writing").cause = run[p].cause
  BY <1>1, GoesGood
<1>5. \/ MayWrite(n) /\ run' = [run EXCEPT ![p] = r("writing")] /\ locks' = locks
      \/ run' = [run EXCEPT ![p] = r("next")] /\ Releases(p)
  BY DEF ChecksSkill, RunGoes
<1> HIDE DEF r
<1>6. CASE MayWrite(n) /\ run' = [run EXCEPT ![p] = r("writing")] /\ locks' = locks
  <2>1. Moves(p, r("writing"))
    BY <1>4, <1>6 DEF Moves
  <2>2. run[p].at \in Judged
    BY <1>1 DEF Judged
  <2> QED
    BY <1>1, <1>2, <1>4, <1>6, <2>1, <2>2, QuietMove
<1>7. CASE run' = [run EXCEPT ![p] = r("next")] /\ Releases(p)
  <2>1. Moves(p, r("next"))
    BY <1>3, <1>7 DEF Moves
  <2>2. SkillTypeOK'
    <3>1. locks' \in [Names -> [by : Processes \cup {Free}, stale : BOOLEAN]]
      BY <1>1, <1>7, SkillFacts DEF Releases
    <3> QED
      BY <1>1, <1>2, <2>1, <3>1, TypingKept DEF SkillTypeOK
  <2>3. EvidenceIsReal'
    BY <1>1, <1>2, <1>3, <2>1, EvidenceKept DEF Judged
  <2>4. LocksAreHeld'
    BY <1>1, <1>2, <1>3, <1>7, <2>1, LocksReleased
  <2>5. FoundIsThere'
    BY <1>1, <1>2, <1>3, <2>1, FoundKept
  <2>6. (SkillInv <=> SkillTypeOK /\ EvidenceIsReal /\ LocksAreHeld /\ FoundIsThere)'
    BY SkillParts, PTL
  <2> QED
    BY <2>2, <2>3, <2>4, <2>5, <2>6
<1> QED
  BY <1>5, <1>6, <1>7

LEMMA WritesSkillStep ==
    ASSUME SkillInv, NEW p \in Processes, WritesSkill(p)
    PROVE  SkillInv'
<1> DEFINE n == run[p].name
           r == [run[p] EXCEPT !.at = "next", !.writes = run[p].writes + 1]
<1>1. /\ SkillTypeOK /\ EvidenceIsReal /\ LocksAreHeld /\ FoundIsThere
      /\ run[p].at = "writing" /\ run[p] \in Runs /\ run[p].issue \in SkillIssues
      /\ n \in Names
      /\ locks \in [Names -> [by : Processes \cup {Free}, stale : BOOLEAN]]
      /\ skill \in [Names -> Texts] /\ run[p].text \in Texts
      /\ \A c \in Candidates : run[p].counts[c].issues \subseteq seen[c]
      /\ \A c \in Candidates : counts[c].issues \subseteq seen[c]
  BY DEF SkillInv, WritesSkill, SkillTypeOK, EvidenceIsReal, Runs
<1>2. /\ UNCHANGED <<counts, rejections, index, happened, seen, disputed, raced>>
      /\ skill' = [skill EXCEPT ![n] = run[p].text] /\ Releases(p)
      /\ run' = [run EXCEPT ![p] = r]
  BY <1>1 DEF WritesSkill, SkillTypeOK
<1>3. r \in Runs /\ r.at = "next" /\ r.counts = run[p].counts /\ r.issue = run[p].issue
  <2>1. run[p].writes + 1 \in Nat
    BY <1>1 DEF Runs
  <2> DEFINE w == run[p].writes + 1
             q == run[p]
  <2> HIDE DEF w, q
  <2>2. q \in Runs /\ w \in Nat
    BY <1>1, <2>1 DEF q, w
  <2>3. [q EXCEPT !.at = "next", !.writes = w] \in Runs
    BY <2>2 DEF Runs
  <2>4. r = [q EXCEPT !.at = "next", !.writes = w]
    BY DEF q, w
  <2> QED
    BY <2>2, <2>3, <2>4 DEF Runs, q
<1> HIDE DEF r
<1>4. Moves(p, r)
  BY <1>1, <1>2, <1>3 DEF Moves, GoodRun, RunStages
<1>5. SkillTypeOK'
  <2>1. locks' \in [Names -> [by : Processes \cup {Free}, stale : BOOLEAN]]
    BY <1>1, <1>2, SkillFacts DEF Releases
  <2>2. skill' \in [Names -> Texts]
    BY <1>1, <1>2
  <2> QED
    BY <1>1, <1>2, <1>4, <2>1, <2>2, TypingKept DEF SkillTypeOK
<1>6. EvidenceIsReal'
  BY <1>1, <1>2, <1>3, <1>4, EvidenceKept DEF Judged
<1>7. LocksAreHeld'
  BY <1>1, <1>2, <1>3, <1>4, LocksReleased
<1>8. FoundIsThere'
  <2>1. \A o \in Processes : run'[o] = IF o = p THEN r ELSE run[o]
    BY <1>1, <1>4, MovesFacts
  <2>2. \A k : k # n => skill'[k] = skill[k]
    BY <1>1, <1>2
  <2>3. n \notin raced \cup disputed => MayWrite(n) /\ ~Parses(n)
    BY <1>1 DEF FoundIsThere, MayWrite, Parses
  <2>4. n \notin disputed => locks[n] = [by |-> p, stale |-> FALSE]
    BY <1>1 DEF LocksAreHeld
  <2>5. ASSUME NEW o \in Processes, run'[o].name \notin raced \cup disputed
        PROVE  /\ run'[o].at = "writing" =>
                    skill'[run'[o].name].kind \in {"absent", "unparsed"}
               /\ run'[o].at = "sweeping" =>
                    /\ skill'[run'[o].name].kind \notin {"absent", "unparsed"}
                    /\ run'[o].text.kind = skill'[run'[o].name].kind
    <3>1. CASE o = p
      BY <1>3, <2>1, <3>1
    <3>2. CASE o # p
      <4>1. run'[o] = run[o]
        BY <2>1, <3>2
      <4>2. /\ run[o].at = "writing" => MayWrite(run[o].name)
            /\ run[o].at = "sweeping" =>
                 Parses(run[o].name) /\ run[o].text.kind = skill[run[o].name].kind
        BY <1>1, <2>5, <4>1 DEF FoundIsThere
      <4>3. run[o].at = "writing" => locks[run[o].name] = [by |-> o, stale |-> FALSE]
        BY <1>1, <2>5, <4>1 DEF LocksAreHeld
      <4>4. run[o].at \in {"writing", "sweeping"} => run[o].name # n
        BY <2>3, <2>4, <2>5, <3>2, <4>1, <4>2, <4>3
      <4> QED
        BY <2>2, <4>1, <4>2, <4>4 DEF MayWrite, Parses
    <3> QED
      BY <3>1, <3>2
  <2> QED
    BY <1>2, <2>5 DEF FoundIsThere, MayWrite, Parses
<1>9. (SkillInv <=> SkillTypeOK /\ EvidenceIsReal /\ LocksAreHeld /\ FoundIsThere)'
  BY SkillParts, PTL
<1> QED
  BY <1>5, <1>6, <1>7, <1>8, <1>9

LEMMA RunEndsStep ==
    ASSUME SkillInv, NEW p \in Processes, RunEnds(p)
    PROVE  SkillInv'
<1>1. /\ SkillTypeOK /\ EvidenceIsReal /\ LocksAreHeld /\ FoundIsThere
      /\ run[p] \in Runs /\ run[p].counts \in CountTables
      /\ \A c \in Candidates : run[p].counts[c].issues \subseteq seen[c]
  BY DEF SkillInv, SkillTypeOK, EvidenceIsReal, Runs
<1>2. /\ UNCHANGED <<skill, locks, rejections, happened, seen, disputed, raced>>
      /\ counts' = run[p].counts /\ index' \subseteq Names
      /\ run' = [run EXCEPT ![p] = IdleRun]
  BY <1>1 DEF RunEnds, Discovered, SkillTypeOK
<1>3. Moves(p, IdleRun)
  BY <1>2, IdleRunFacts DEF Moves
<1>4. \A c \in Candidates : IdleRun.counts[c].issues = {}
  BY IdleRunFacts, SkillFacts
<1>5. SkillTypeOK'
  BY <1>1, <1>2, <1>3, TypingKept DEF SkillTypeOK
<1>6. EvidenceIsReal'
  BY <1>1, <1>2, <1>3, <1>4, IdleRunFacts, EvidenceKept DEF Judged
<1>7. LocksAreHeld'
  BY <1>1, <1>2, <1>3, IdleRunFacts, LocksKept
<1>8. FoundIsThere'
  BY <1>1, <1>2, <1>3, IdleRunFacts, FoundKept
<1>9. (SkillInv <=> SkillTypeOK /\ EvidenceIsReal /\ LocksAreHeld /\ FoundIsThere)'
  BY SkillParts, PTL
<1> QED
  BY <1>5, <1>6, <1>7, <1>8, <1>9

LEMMA SweepReadsStep ==
    ASSUME SkillInv, NEW p \in Processes, NEW n \in Names, SweepReads(p, n)
    PROVE  SkillInv'
<1> DEFINE t == [skill[n] EXCEPT !.deprecated = TRUE]
           q == run[p]
           r == [q EXCEPT !.at = "sweeping", !.name = n, !.text = t]
<1>1. /\ SkillTypeOK /\ EvidenceIsReal /\ q \in Runs /\ skill[n] \in Texts
      /\ \A c \in Candidates : q.counts[c].issues \subseteq seen[c]
      /\ Parses(n)
  BY DEF SkillInv, SkillTypeOK, EvidenceIsReal, SweepReads, Discovered
<1>2. /\ UNCHANGED <<skill, locks, counts, rejections, index, seen, disputed, raced>>
      /\ run' = [run EXCEPT ![p] = r]
  BY <1>1 DEF SweepReads, SkillTypeOK, files
<1>3. t \in Texts /\ t.kind = skill[n].kind
  BY <1>1 DEF Texts
<1> HIDE DEF t, q
<1>4. r \in Runs
  BY <1>1, <1>3 DEF Runs
<1>5. r.at = "sweeping" /\ r.name = n /\ r.text = t /\ r.counts = q.counts
  BY <1>1 DEF Runs
<1> HIDE DEF r
<1>6. Moves(p, r)
  BY <1>2, <1>4, <1>5 DEF Moves, GoodRun, RunStages
<1>7. happened' \in [commits : Nat, edits : Nat, sweeps : Nat]
  BY <1>1, HappensFacts DEF SweepReads
<1> QED
  BY <1>1, <1>2, <1>3, <1>5, <1>6, <1>7, QuietMove DEF Judged

LEMMA SweepWritesStep ==
    ASSUME SkillInv, NEW p \in Processes, SweepWrites(p)
    PROVE  SkillInv'
<1> DEFINE n == run[p].name
<1>1. /\ SkillTypeOK /\ EvidenceIsReal /\ LocksAreHeld /\ FoundIsThere
      /\ run[p].at = "sweeping" /\ run[p] \in Runs /\ n \in Names
      /\ skill \in [Names -> Texts] /\ run[p].text \in Texts
      /\ \A c \in Candidates : counts[c].issues \subseteq seen[c]
  BY DEF SkillInv, SweepWrites, SkillTypeOK, EvidenceIsReal, Runs
<1>2. /\ UNCHANGED <<locks, counts, rejections, index, happened, seen, disputed, raced>>
      /\ skill' = [skill EXCEPT ![n] = run[p].text]
      /\ run' = [run EXCEPT ![p] = IdleRun]
  BY DEF SweepWrites
<1>3. Moves(p, IdleRun)
  BY <1>2, IdleRunFacts DEF Moves
<1>4. \A c \in Candidates : IdleRun.counts[c].issues = {}
  BY IdleRunFacts, SkillFacts
<1>5. SkillTypeOK'
  <2>1. skill' \in [Names -> Texts]
    BY <1>1, <1>2
  <2> QED
    BY <1>1, <1>2, <1>3, <2>1, TypingKept DEF SkillTypeOK
<1>6. EvidenceIsReal'
  BY <1>1, <1>2, <1>3, <1>4, IdleRunFacts, EvidenceKept DEF Judged
<1>7. LocksAreHeld'
  BY <1>1, <1>2, <1>3, IdleRunFacts, LocksKept
<1>8. FoundIsThere'
  <2>1. \A o \in Processes : run'[o] = IF o = p THEN IdleRun ELSE run[o]
    BY <1>1, <1>3, MovesFacts
  <2>2. \A k : k # n => skill'[k] = skill[k]
    BY <1>1, <1>2
  <2>3. n \notin raced \cup disputed =>
          skill[n].kind \notin {"absent", "unparsed"} /\ skill'[n].kind = skill[n].kind
    BY <1>1, <1>2 DEF FoundIsThere, Parses
  <2>4. ASSUME NEW o \in Processes, run'[o].name \notin raced \cup disputed
        PROVE  /\ run'[o].at = "writing" =>
                    skill'[run'[o].name].kind \in {"absent", "unparsed"}
               /\ run'[o].at = "sweeping" =>
                    /\ skill'[run'[o].name].kind \notin {"absent", "unparsed"}
                    /\ run'[o].text.kind = skill'[run'[o].name].kind
    <3>1. CASE o = p
      BY <2>1, <3>1, IdleRunFacts
    <3>2. CASE o # p
      <4>1. run'[o] = run[o]
        BY <2>1, <3>2
      <4>2. /\ run[o].at = "writing" => skill[run[o].name].kind \in {"absent", "unparsed"}
            /\ run[o].at = "sweeping" =>
                 /\ skill[run[o].name].kind \notin {"absent", "unparsed"}
                 /\ run[o].text.kind = skill[run[o].name].kind
        BY <1>1, <2>4, <4>1 DEF FoundIsThere, MayWrite, Parses
      <4>3. CASE run[o].name = n
        BY <2>3, <2>4, <4>1, <4>2, <4>3
      <4>4. CASE run[o].name # n
        BY <2>2, <4>1, <4>2, <4>4
      <4> QED
        BY <4>3, <4>4
    <3> QED
      BY <3>1, <3>2
  <2> QED
    BY <1>2, <2>4 DEF FoundIsThere, MayWrite, Parses
<1>9. (SkillInv <=> SkillTypeOK /\ EvidenceIsReal /\ LocksAreHeld /\ FoundIsThere)'
  BY SkillParts, PTL
<1> QED
  BY <1>5, <1>6, <1>7, <1>8, <1>9

LEMMA ProcessDiesStep ==
    ASSUME SkillInv, NEW p \in Processes, ProcessDies(p)
    PROVE  SkillInv'
<1>1. /\ UNCHANGED <<skill, locks, counts, rejections, index, happened, seen,
                     disputed, raced>>
      /\ run' = [run EXCEPT ![p] = IdleRun]
  BY DEF ProcessDies, files
<1>2. Moves(p, IdleRun)
  BY <1>1, IdleRunFacts DEF Moves
<1>3. \A c \in Candidates : IdleRun.counts[c].issues \subseteq seen[c]
  BY IdleRunFacts, SkillFacts
<1>4. happened \in [commits : Nat, edits : Nat, sweeps : Nat]
  BY DEF SkillInv, SkillTypeOK
<1> QED
  BY <1>1, <1>2, <1>3, <1>4, IdleRunFacts, QuietMove DEF Judged

\* Time and the user move no run.
LEMMA OutsideSteps ==
    ASSUME SkillInv, NEW n \in Names,
           LockAges(n) \/ \E kind \in Users \cup {"absent"} : UserChanges(n, kind)
    PROVE  SkillInv'
<1>1. /\ SkillTypeOK /\ EvidenceIsReal /\ LocksAreHeld /\ FoundIsThere
      /\ locks \in [Names -> [by : Processes \cup {Free}, stale : BOOLEAN]]
      /\ skill \in [Names -> Texts]
  BY DEF SkillInv, SkillTypeOK
<1>2. UNCHANGED <<counts, rejections, index, run, seen, disputed>>
  BY DEF LockAges, UserChanges
<1>3. EvidenceIsReal'
  BY <1>1, <1>2 DEF EvidenceIsReal
<1>4. (SkillInv <=> SkillTypeOK /\ EvidenceIsReal /\ LocksAreHeld /\ FoundIsThere)'
  BY SkillParts, PTL
<1>5. CASE LockAges(n)
  <2>1. /\ UNCHANGED <<skill, happened, raced>>
        /\ locks' = [locks EXCEPT ![n].stale = TRUE]
        /\ \A p \in Processes : run[p].name = n => run[p].at \notin {"locked", "writing"}
    BY <1>5 DEF LockAges
  <2> DEFINE l == [locks[n] EXCEPT !.stale = TRUE]
  <2>2. l \in [by : Processes \cup {Free}, stale : BOOLEAN] /\ l.stale
    BY <1>1
  <2>3. \A k : locks'[k] = IF k = n THEN l ELSE locks[k]
    BY <1>1, <2>1
  <2>4. locks' \in [Names -> [by : Processes \cup {Free}, stale : BOOLEAN]]
    <3>1. locks' = [locks EXCEPT ![n] = l]
      BY <1>1, <2>1
    <3> HIDE DEF l
    <3> QED
      BY <1>1, <2>2, <3>1
  <2> HIDE DEF l
  <2>5. SkillTypeOK'
    BY <1>1, <1>2, <2>1, <2>4 DEF SkillTypeOK
  <2>6. LocksAreHeld'
    <3>1. ASSUME NEW p \in Processes, run[p].name \notin disputed
          PROVE  /\ run[p].at \in {"locked", "writing"} =>
                       locks'[run[p].name] = [by |-> p, stale |-> FALSE]
                 /\ run[p].at = "stealing" => locks'[run[p].name].stale
      <4>1. /\ run[p].at \in {"locked", "writing"} =>
                  locks[run[p].name] = [by |-> p, stale |-> FALSE]
            /\ run[p].at = "stealing" => locks[run[p].name].stale
        BY <1>1, <3>1 DEF LocksAreHeld
      <4>2. CASE run[p].name = n
        BY <2>1, <2>2, <2>3, <4>2
      <4>3. CASE run[p].name # n
        BY <2>3, <4>1, <4>3
      <4> QED
        BY <4>2, <4>3
    <3> QED
      BY <1>1, <1>2, <3>1 DEF LocksAreHeld
  <2>7. FoundIsThere'
    BY <1>1, <1>2, <2>1 DEF FoundIsThere, MayWrite, Parses
  <2> QED
    BY <1>3, <1>4, <2>5, <2>6, <2>7
<1>6. ASSUME NEW kind \in Users \cup {"absent"}, UserChanges(n, kind)
      PROVE  SkillInv'
  <2>1. /\ locks' = locks
        /\ skill' = [skill EXCEPT ![n] = [kind |-> kind, deprecated |-> FALSE]]
        /\ raced' = raced \cup {run[p].name : p \in {q \in Processes :
                         run[q].at \in {"writing", "sweeping"}}}
        /\ happened' \in [commits : Nat, edits : Nat, sweeps : Nat]
    BY <1>1, <1>6, HappensFacts DEF UserChanges
  <2>2. [kind |-> kind, deprecated |-> FALSE] \in Texts
    BY DEF Texts, Kinds, Users
  <2>3. skill' \in [Names -> Texts]
    BY <1>1, <2>1, <2>2
  <2>4. SkillTypeOK'
    BY <1>1, <1>2, <2>1, <2>3 DEF SkillTypeOK
  <2>5. LocksAreHeld'
    BY <1>1, <1>2, <2>1 DEF LocksAreHeld
  <2>6. \A p \in Processes : run[p].at \in {"writing", "sweeping"} => run[p].name \in raced'
    BY <2>1
  <2>7. FoundIsThere'
    BY <1>2, <2>6 DEF FoundIsThere
  <2> QED
    BY <1>3, <1>4, <2>4, <2>5, <2>7
<1> QED
  BY <1>5, <1>6

LEMMA SkillStep == SkillInv /\ [SkillNext]_skillVars => SkillInv'
<1> SUFFICES ASSUME SkillInv, [SkillNext]_skillVars PROVE SkillInv'
  OBVIOUS
<1>1. CASE UNCHANGED skillVars
  BY <1>1 DEF skillVars, files, SkillInv, SkillTypeOK, EvidenceIsReal, OneWriter,
              LocksAreHeld, FoundIsThere, MayWrite, Parses
<1> QED
  BY <1>1, RunBeginsStep, WeighsStep, LocksStep, SeesStaleLockStep, StealsLockStep,
     ChecksSkillStep, WritesSkillStep, RunEndsStep, SweepReadsStep,
     SweepWritesStep, ProcessDiesStep, OutsideSteps DEF SkillNext

\* A step leaves a text that parses, unless the user makes it or the name was
\* raced for.
LEMMA SkillTextStays ==
    SkillInv /\ [SkillNext]_skillVars =>
        \A n \in Names :
            \/ ~Parses(n) \/ n \in raced \cup disputed
            \/ skill'[n].kind = skill[n].kind
            \/ happened'.edits > happened.edits
<1> SUFFICES ASSUME SkillInv, [SkillNext]_skillVars, NEW n \in Names, Parses(n),
                    n \notin raced \cup disputed
             PROVE  \/ skill'[n].kind = skill[n].kind
                    \/ happened'.edits > happened.edits
  OBVIOUS
<1>1. SkillTypeOK /\ FoundIsThere /\ skill \in [Names -> Texts]
  BY DEF SkillInv, SkillTypeOK
<1>2. CASE skill' = skill
  BY <1>2
<1>3. ASSUME NEW p \in Processes, WritesSkill(p) PROVE skill'[n].kind = skill[n].kind
  <2>1. run[p].name = n => MayWrite(n)
    BY <1>1, <1>3 DEF WritesSkill, FoundIsThere
  <2>2. run[p].name # n
    BY <2>1 DEF MayWrite, Parses
  <2> QED
    BY <1>1, <1>3, <2>2 DEF WritesSkill
<1>4. ASSUME NEW p \in Processes, SweepWrites(p) PROVE skill'[n].kind = skill[n].kind
  <2>1. run[p].name = n => run[p].text.kind = skill[n].kind
    BY <1>1, <1>4 DEF SweepWrites, FoundIsThere
  <2> QED
    BY <1>1, <1>4, <2>1 DEF SweepWrites
<1>5. ASSUME NEW k \in Names, NEW kind \in Users \cup {"absent"}, UserChanges(k, kind)
      PROVE  happened'.edits > happened.edits
  BY <1>1, <1>5, HappensFacts DEF UserChanges
<1> QED
  BY <1>2, <1>3, <1>4, <1>5 DEF SkillNext, skillVars, files, RunBegins, Weighs, Locks,
     SeesStaleLock, StealsLock, ChecksSkill, RunEnds, SweepReads, ProcessDies, LockAges

-----------------------------------------------------------------------------
(* Completion notices: the dedupe store and the courier sessions.          *)

NoticeRecords ==
    [at : {"idle", "creating", "prompting", "deleting", "recording"},
     key : NoticeKeys \cup {AnyKey}]

LEMMA NoticeFacts ==
    /\ {NoticeTtl, MaxNotices, MaxTime, MaxLosses} \subseteq Nat
    /\ NoticeTtl \in Nat /\ MaxNotices \in Nat /\ MaxTime \in Nat /\ MaxLosses \in Nat
    /\ Quiet \in NoticeRecords /\ Quiet.at = "idle" /\ Quiet.key = AnyKey
BY NoticeAssumption DEF Quiet, NoticeRecords

LEMMA NoticeStart == NoticeInit => NoticeInv
<1> SUFFICES ASSUME NoticeInit PROVE NoticeInv
  OBVIOUS
<1> USE NoticeFacts
<1>1. \A n \in Notifiers : notice[n].at = "idle"
  BY DEF NoticeInit
<1>2. NoticeTypeOK
  <2>1. recorded \in Seq(NoticeKeys) /\ recordedAt \in [NoticeKeys -> Nat]
    BY EmptySeq DEF NoticeInit
  <2>2. notice \in [Notifiers -> NoticeRecords]
    BY DEF NoticeInit
  <2>3. {couriers, time} \subseteq Nat /\ losses \in 0..MaxLosses
        /\ evicted \subseteq NoticeKeys
    BY DEF NoticeInit
  <2> QED
    BY <1>1, <2>1, <2>2, <2>3 DEF NoticeTypeOK, NoticeRecords
<1>3. RecentIsHeld
  <2>1. Len(recorded) = 0 /\ DOMAIN recorded = {}
    BY DEF NoticeInit
  <2>2. \A k \in NoticeKeys : IsExpired(k)
    BY DEF NoticeInit, IsExpired
  <2> QED
    BY <2>1, <2>2 DEF RecentIsHeld
<1>4. CouriersAreUsed
  <2>1. InUse = {}
    BY <1>1 DEF InUse
  <2> QED
    BY <2>1, FS_EmptySet DEF CouriersAreUsed, NoticeInit
<1> QED
  BY <1>2, <1>3, <1>4 DEF NoticeInv

LEMMA NotifyStep ==
    ASSUME NoticeInv, NEW n \in Notifiers, NEW k \in NoticeKeys, Notify(n, k)
    PROVE  NoticeInv'
<1> USE NoticeFacts
<1>1. PICK left \in SeqOf(NoticeKeys, Len(recorded)) :
        /\ IsUnexpired(left) /\ recorded' = left
        /\ notice' = IF Holds(left, k) THEN notice
                     ELSE [notice EXCEPT ![n] = [at |-> "creating", key |-> k]]
  BY DEF Notify
<1>2. /\ recorded \in Seq(NoticeKeys) /\ Len(recorded) \in Nat
      /\ notice \in [Notifiers -> NoticeRecords] /\ notice[n].at = "idle"
      /\ \A m \in Notifiers : notice[m].at # "idle" => notice[m].key \in NoticeKeys
      /\ NoticeTypeOK /\ RecentIsHeld /\ CouriersAreUsed
  BY LenProperties DEF NoticeInv, NoticeTypeOK, NoticeRecords, Notify
<1>3. UNCHANGED <<recordedAt, couriers, time, losses, evicted>>
  BY DEF Notify
<1>4. left \in Seq(NoticeKeys) /\ Len(left) <= Len(recorded)
      /\ DOMAIN left = 1..Len(left) /\ Len(left) \in Nat
  <2>1. PICK m \in 0..Len(recorded) : left \in [1..m -> NoticeKeys]
    BY DEF SeqOf
  <2>2. m \in Nat /\ m <= Len(recorded)
    BY <1>2, <2>1
  <2>3. left \in Seq(NoticeKeys)
    BY <2>1, <2>2, SeqDef
  <2>4. Len(left) \in Nat /\ DOMAIN left = 1..Len(left)
    BY <2>3, LenProperties
  <2>5. DOMAIN left = 1..m
    BY <2>1
  <2>6. Len(left) = m
    <3>0. PICK l \in Nat : l = Len(left)
      BY <2>4
    <3>1. \A i \in Nat : i \in 1..l <=> i \in 1..m
      BY <2>4, <2>5, <3>0
    <3>2. l = m
      BY <2>2, <3>1, Z3
    <3> QED
      BY <3>0, <3>2
  <2> QED
    BY <2>2, <2>3, <2>4, <2>6
<1>5. \A m \in Notifiers :
        \/ notice'[m] = notice[m]
        \/ m = n /\ notice'[m] = [at |-> "creating", key |-> k]
  BY <1>1, <1>2
<1>6. notice' \in [Notifiers -> NoticeRecords]
  <2>1. [at |-> "creating", key |-> k] \in NoticeRecords
    BY DEF NoticeRecords
  <2> QED
    BY <1>1, <1>2, <2>1
<1>7. NoticeTypeOK'
  <2>1. \A m \in Notifiers : notice'[m].at # "idle" => notice'[m].key \in NoticeKeys
    BY <1>2, <1>5
  <2> QED
    BY <1>1, <1>2, <1>3, <1>4, <1>6, <2>1 DEF NoticeTypeOK, NoticeRecords
<1>8. RecentIsHeld'
  <2>1. Len(left) <= MaxNotices
    BY <1>2, <1>4 DEF RecentIsHeld
  <2>2. \A i, j \in DOMAIN left : left[i] = left[j] => i = j
    <3>1. SUFFICES ASSUME NEW i \in DOMAIN left, NEW j \in DOMAIN left, i < j
                   PROVE  left[i] # left[j]
      BY <1>4
    <3>2. PICK a \in DOMAIN recorded, b \in DOMAIN recorded :
            a < b /\ recorded[a] = left[i] /\ recorded[b] = left[j]
      BY <1>1, <3>1 DEF IsUnexpired
    <3>3. a # b
      BY <1>2, <3>2, LenProperties
    <3> QED
      BY <1>2, <3>2, <3>3 DEF RecentIsHeld
  <2>3. \A j \in NoticeKeys : Holds(left, j) \/ IsExpired(j) \/ j \in evicted
    BY <1>1, <1>2 DEF RecentIsHeld, IsUnexpired
  <2>4. \A j \in NoticeKeys : IsExpired(j)' <=> IsExpired(j)
    BY <1>3 DEF IsExpired
  <2> QED
    BY <1>1, <1>3, <2>1, <2>2, <2>3, <2>4 DEF RecentIsHeld, Holds
<1>9. CouriersAreUsed'
  <2>1. InUse' = InUse
    BY <1>2, <1>5 DEF InUse
  <2> QED
    BY <1>2, <1>3, <2>1 DEF CouriersAreUsed
<1> QED
  BY <1>7, <1>8, <1>9 DEF NoticeInv

\* A delivery changes its own call, the couriers and the losses only.
LEMMA DeliveryMoves ==
    ASSUME NoticeInv, NEW n \in Notifiers, NEW r \in NoticeRecords,
           notice[n].at # "idle", r.key = notice[n].key,
           notice' = [notice EXCEPT ![n] = r],
           UNCHANGED <<recorded, recordedAt, time, evicted>>,
           couriers' \in Nat, losses' \in 0..MaxLosses
    PROVE  NoticeTypeOK' /\ RecentIsHeld'
<1>1. /\ NoticeTypeOK /\ RecentIsHeld
      /\ notice \in [Notifiers -> NoticeRecords]
      /\ \A m \in Notifiers : notice[m].at # "idle" => notice[m].key \in NoticeKeys
  BY DEF NoticeInv, NoticeTypeOK, NoticeRecords
<1>2. /\ notice' \in [Notifiers -> NoticeRecords]
      /\ \A m \in Notifiers : notice'[m].at # "idle" => notice'[m].key \in NoticeKeys
  BY <1>1
<1>3. NoticeTypeOK'
  BY <1>1, <1>2 DEF NoticeTypeOK, NoticeRecords
<1>4. RecentIsHeld'
  BY <1>1 DEF RecentIsHeld, Holds, IsExpired
<1> QED
  BY <1>3, <1>4

LEMMA DeliverySteps ==
    ASSUME NoticeInv, NEW n \in Notifiers, NEW failing \in BOOLEAN,
           \/ CourierCreated(n, failing) \/ CourierPrompted(n, failing)
           \/ CourierDeleted(n, failing)
    PROVE  NoticeInv'
<1> USE NoticeFacts
<1>1. /\ notice \in [Notifiers -> NoticeRecords]
      /\ couriers \in Nat /\ losses \in 0..MaxLosses
      /\ NoticeTypeOK /\ RecentIsHeld /\ CouriersAreUsed
  BY DEF NoticeInv, NoticeTypeOK, NoticeRecords
<1>2. /\ losses' \in 0..MaxLosses /\ losses' \in Nat /\ losses \in Nat
      /\ losses' = losses + (IF failing THEN 1 ELSE 0)
  BY <1>1 DEF CourierCreated, CourierPrompted, CourierDeleted, Fails
<1>3. /\ IsFiniteSet(InUse) /\ Cardinality(InUse) \in Nat
      /\ Cardinality(InUse) <= couriers
      /\ couriers <= losses + Cardinality(InUse)
  BY <1>1, FS_CardinalityType DEF CouriersAreUsed
<1> DEFINE r(at) == [notice[n] EXCEPT !.at = at]
<1>4. \A at \in {"idle", "creating", "prompting", "deleting", "recording"} :
        r(at) \in NoticeRecords /\ r(at).at = at /\ r(at).key = notice[n].key
  BY <1>1 DEF NoticeRecords
<1>5. UNCHANGED <<recorded, recordedAt, time, evicted>>
  BY DEF CourierCreated, CourierPrompted, CourierDeleted
<1> HIDE DEF r
<1>6. ASSUME NEW at \in {"idle", "creating", "prompting", "deleting", "recording"},
             notice[n].at # "idle", notice' = [notice EXCEPT ![n] = r(at)],
             couriers' \in Nat
      PROVE  /\ NoticeTypeOK' /\ RecentIsHeld'
             /\ notice[n].at \notin {"prompting", "deleting"} => n \notin InUse
             /\ notice[n].at \in {"prompting", "deleting"} => n \in InUse
             /\ at \notin {"prompting", "deleting"} => InUse' = InUse \ {n}
             /\ at \in {"prompting", "deleting"} => InUse' = InUse \cup {n}
  <2>1. NoticeTypeOK' /\ RecentIsHeld'
    BY <1>2, <1>4, <1>5, <1>6, DeliveryMoves
  <2>2. \A m \in Notifiers : notice'[m] = IF m = n THEN r(at) ELSE notice[m]
    BY <1>1, <1>6
  <2>3. \A m \in Notifiers : notice'[m].at = IF m = n THEN at ELSE notice[m].at
    BY <1>4, <2>2
  <2>4. /\ at \notin {"prompting", "deleting"} => InUse' = InUse \ {n}
        /\ at \in {"prompting", "deleting"} => InUse' = InUse \cup {n}
    BY <2>3, Zenon DEF InUse
  <2> QED
    BY <2>1, <2>4 DEF InUse
<1>7. /\ n \notin InUse => /\ IsFiniteSet(InUse \cup {n})
                           /\ Cardinality(InUse \cup {n}) = Cardinality(InUse) + 1
      /\ n \in InUse => /\ IsFiniteSet(InUse \ {n})
                        /\ Cardinality(InUse \ {n}) = Cardinality(InUse) - 1
  BY <1>3, FS_AddElement, FS_RemoveElement
<1>8. \/ InUse' = InUse /\ couriers' = couriers
      \/ InUse' = InUse \cup {n} /\ n \notin InUse /\ couriers' = couriers + 1
      \/ /\ InUse' = InUse \ {n} /\ n \in InUse
         /\ couriers' = IF failing THEN couriers ELSE couriers - 1
  <2>1. CASE CourierCreated(n, failing)
    <3>1. CASE failing
      <4>1. notice[n].at = "creating" /\ couriers' = couriers
            /\ notice' = [notice EXCEPT ![n] = r("recording")]
        BY <1>1, <2>1, <3>1 DEF CourierCreated, r
      <4> QED
        BY <1>1, <1>6, <4>1
    <3>2. CASE ~failing
      <4>1. notice[n].at = "creating" /\ couriers' = couriers + 1
            /\ notice' = [notice EXCEPT ![n] = r("prompting")]
        BY <1>1, <2>1, <3>2 DEF CourierCreated, r
      <4> QED
        BY <1>1, <1>6, <4>1
    <3> QED
      BY <3>1, <3>2
  <2>2. CASE CourierPrompted(n, failing)
    <3>1. notice[n].at = "prompting" /\ couriers' = couriers
          /\ notice' = [notice EXCEPT ![n] = r("deleting")]
      BY <2>2 DEF CourierPrompted, r
    <3> QED
      BY <1>1, <1>6, <3>1
  <2>3. CASE CourierDeleted(n, failing)
    <3>1. notice[n].at = "deleting"
          /\ couriers' = (IF failing THEN couriers ELSE couriers - 1)
          /\ notice' = [notice EXCEPT ![n] = r("recording")]
      BY <2>3 DEF CourierDeleted, r
    <3>2. n \in InUse
      BY <3>1 DEF InUse
    <3>3. couriers > 0
      BY <1>1, <1>3, <1>7, <3>2, FS_CardinalityType
    <3>4. couriers' \in Nat
      BY <1>1, <3>1, <3>3
    <3> QED
      BY <1>6, <3>1, <3>2, <3>4
  <2> QED
    BY <2>1, <2>2, <2>3
<1>9. couriers' \in Nat
  BY <1>1, <1>3, <1>7, <1>8, FS_CardinalityType
<1>10. NoticeTypeOK' /\ RecentIsHeld'
  <2>1. PICK at \in {"idle", "creating", "prompting", "deleting", "recording"} :
          notice[n].at # "idle" /\ notice' = [notice EXCEPT ![n] = r(at)]
    BY <1>1 DEF CourierCreated, CourierPrompted, CourierDeleted, r
  <2> QED
    BY <1>6, <1>9, <2>1
<1>11. CouriersAreUsed'
  <2>1. /\ IsFiniteSet(InUse')
        /\ Cardinality(InUse') <= couriers'
        /\ couriers' <= losses' + Cardinality(InUse')
    <3>1. CASE InUse' = InUse /\ couriers' = couriers
      BY <1>1, <1>2, <1>3, <3>1
    <3>2. CASE InUse' = InUse \cup {n} /\ n \notin InUse /\ couriers' = couriers + 1
      BY <1>1, <1>2, <1>3, <1>7, <3>2
    <3>3. CASE /\ InUse' = InUse \ {n} /\ n \in InUse
               /\ couriers' = IF failing THEN couriers ELSE couriers - 1
      BY <1>1, <1>2, <1>3, <1>7, <3>3
    <3> QED
      BY <1>8, <3>1, <3>2, <3>3
  <2> QED
    BY <2>1 DEF CouriersAreUsed
<1> QED
  BY <1>10, <1>11 DEF NoticeInv

\* The keys of the store after one more is entered.
LEMMA EnteredFacts ==
    ASSUME recorded \in Seq(NoticeKeys), NEW k \in NoticeKeys,
           \A i, j \in DOMAIN recorded : recorded[i] = recorded[j] => i = j
    PROVE  /\ Entered(k) \in Seq(NoticeKeys)
           /\ Len(Entered(k)) <= Len(recorded) + 1
           /\ \A i, j \in 1..Len(Entered(k)) :
                Entered(k)[i] = Entered(k)[j] => i = j
           /\ \A j \in NoticeKeys : Holds(recorded, j) \/ j = k =>
                \E i \in 1..Len(Entered(k)) : Entered(k)[i] = j
<1>1. Len(recorded) \in Nat /\ DOMAIN recorded = 1..Len(recorded)
  BY LenProperties
<1>2. CASE Holds(recorded, k)
  BY <1>1, <1>2 DEF Entered, Holds
<1>3. CASE ~Holds(recorded, k)
  <2> DEFINE all == Append(recorded, k)
  <2>1. /\ all \in Seq(NoticeKeys) /\ Len(all) = Len(recorded) + 1
        /\ all[Len(recorded) + 1] = k
        /\ \A i \in 1..Len(recorded) : all[i] = recorded[i]
    BY <1>1, AppendProperties
  <2>2. Entered(k) = all
    BY <1>3 DEF Entered
  <2> HIDE DEF all
  <2>3. \A i \in 1..Len(recorded) : recorded[i] # k
    BY <1>1, <1>3 DEF Holds
  <2>4. ASSUME NEW i \in 1..Len(all), NEW j \in 1..Len(all), all[i] = all[j]
        PROVE  i = j
    <3>1. CASE i \in 1..Len(recorded) /\ j \in 1..Len(recorded)
      BY <1>1, <2>1, <2>4, <3>1
    <3>2. CASE i \in 1..Len(recorded) /\ j = Len(recorded) + 1
      BY <1>1, <2>1, <2>3, <2>4, <3>2
    <3>3. CASE i = Len(recorded) + 1 /\ j \in 1..Len(recorded)
      BY <1>1, <2>1, <2>3, <2>4, <3>3
    <3>4. CASE i = Len(recorded) + 1 /\ j = Len(recorded) + 1
      BY <3>4
    <3> QED
      BY <1>1, <2>1, <3>1, <3>2, <3>3, <3>4
  <2>5. ASSUME NEW j \in NoticeKeys, Holds(recorded, j) \/ j = k
        PROVE  \E i \in 1..Len(all) : all[i] = j
    <3>1. CASE Holds(recorded, j)
      <4>1. PICK i \in 1..Len(recorded) : recorded[i] = j
        BY <1>1, <3>1 DEF Holds
      <4>2. i \in 1..Len(all)
        BY <1>1, <2>1
      <4> QED
        BY <2>1, <4>1, <4>2
    <3>2. CASE j = k
      <4>1. Len(recorded) + 1 \in 1..Len(all)
        BY <1>1, <2>1
      <4> QED
        BY <2>1, <3>2, <4>1
    <3> QED
      BY <2>5, <3>1, <3>2
  <2>6. Len(all) <= Len(recorded) + 1
    BY <1>1, <2>1
  <2> QED
    BY <2>1, <2>2, <2>4, <2>5, <2>6
<1> QED
  BY <1>2, <1>3

LEMMA CommitStep ==
    ASSUME NoticeInv, NEW n \in Notifiers, Commit(n)
    PROVE  NoticeInv'
<1> USE NoticeFacts
<1> DEFINE k == notice[n].key
           all == Entered(k)
           over == IF Len(all) > MaxNotices THEN Len(all) - MaxNotices ELSE 0
           out == {all[i] : i \in 1..over}
<1>1. /\ recorded' = SubSeq(all, over + 1, Len(all))
      /\ recordedAt' = [recordedAt EXCEPT ![k] = time]
      /\ notice' = [notice EXCEPT ![n] = Quiet]
      /\ evicted' = (evicted \ {k}) \cup {o \in out : o = k \/ ~IsExpired(o)}
      /\ UNCHANGED <<couriers, time, losses>>
      /\ notice[n].at = "recording"
  BY DEF Commit
<1>2. /\ NoticeTypeOK /\ RecentIsHeld /\ CouriersAreUsed
      /\ recorded \in Seq(NoticeKeys) /\ Len(recorded) \in Nat
      /\ Len(recorded) <= MaxNotices
      /\ recordedAt \in [NoticeKeys -> Nat] /\ time \in Nat
      /\ notice \in [Notifiers -> NoticeRecords]
      /\ \A m \in Notifiers : notice[m].at # "idle" => notice[m].key \in NoticeKeys
      /\ evicted \subseteq NoticeKeys
  BY LenProperties DEF NoticeInv, NoticeTypeOK, NoticeRecords, RecentIsHeld
<1>3. k \in NoticeKeys
  BY <1>1, <1>2
<1>4. /\ all \in Seq(NoticeKeys) /\ Len(all) \in Nat
      /\ Len(all) <= Len(recorded) + 1
      /\ \A i, j \in 1..Len(all) : all[i] = all[j] => i = j
      /\ \A j \in NoticeKeys : Holds(recorded, j) \/ j = k =>
            \E i \in 1..Len(all) : all[i] = j
      /\ \A i \in 1..Len(all) : all[i] \in NoticeKeys
  <2>1. \A i, j \in DOMAIN recorded : recorded[i] = recorded[j] => i = j
    BY <1>2 DEF RecentIsHeld
  <2>2. /\ all \in Seq(NoticeKeys) /\ Len(all) <= Len(recorded) + 1
        /\ \A i, j \in 1..Len(all) : all[i] = all[j] => i = j
        /\ \A j \in NoticeKeys : Holds(recorded, j) \/ j = k =>
              \E i \in 1..Len(all) : all[i] = j
    BY <1>2, <1>3, <2>1, EnteredFacts
  <2> HIDE DEF all
  <2> QED
    BY <2>2, ElementOfSeq, LenProperties
<1> HIDE DEF all
<1>5. over \in Nat /\ over <= Len(all) /\ Len(all) - over <= MaxNotices
  BY <1>4
<1> DEFINE left == SubSeq(all, over + 1, Len(all))
<1>6. /\ left \in Seq(NoticeKeys) /\ Len(left) = Len(all) - over
      /\ \A i \in 1..(Len(all) - over) : left[i] = all[over + i]
  <2> HIDE DEF over
  <2>1. over + 1 \in Int /\ Len(all) \in Int /\ \A i \in (over + 1)..Len(all) : i \in 1..Len(all)
    BY <1>4, <1>5
  <2> QED
    BY <1>4, <1>5, <2>1, SubSeqProperties, LenProperties, Z3
<1>7. out \subseteq NoticeKeys
  <2> HIDE DEF over
  <2> QED
    BY <1>4, <1>5
<1>8. \A j \in NoticeKeys : Holds(recorded, j) \/ j = k => Holds(left, j) \/ j \in out
  <2> HIDE DEF over, left
  <2> SUFFICES ASSUME NEW j \in NoticeKeys, Holds(recorded, j) \/ j = k,
                      j \notin out
               PROVE  Holds(left, j)
    OBVIOUS
  <2>1. PICK i \in 1..Len(all) : all[i] = j
    BY <1>4
  <2>2. ~(i \in 1..over)
    BY <2>1
  <2>3. i - over \in 1..(Len(all) - over) /\ over + (i - over) = i
    BY <1>4, <1>5, <2>1, <2>2
  <2>4. left[i - over] = j
    BY <1>6, <2>1, <2>3
  <2>5. i - over \in DOMAIN left
    BY <1>6, <2>3, LenProperties
  <2> QED
    BY <2>4, <2>5 DEF Holds
<1>9. recorded' = left
  BY <1>1
<1>10. \A i, j \in DOMAIN left : left[i] = left[j] => i = j
  <2> HIDE DEF over, left
  <2> SUFFICES ASSUME NEW i \in DOMAIN left, NEW j \in DOMAIN left, left[i] = left[j]
               PROVE  i = j
    OBVIOUS
  <2>1. i \in 1..(Len(all) - over) /\ j \in 1..(Len(all) - over)
    BY <1>6, LenProperties
  <2>2. over + i \in 1..Len(all) /\ over + j \in 1..Len(all)
    BY <1>4, <1>5, <2>1
  <2>3. over + i = over + j
    BY <1>4, <1>6, <2>1, <2>2
  <2> QED
    BY <1>5, <2>1, <2>3
<1> HIDE DEF left, over
<1>11. notice' \in [Notifiers -> NoticeRecords]
  BY <1>1, <1>2
<1>12. NoticeTypeOK'
  <2>1. \A m \in Notifiers : notice'[m].at # "idle" => notice'[m].key \in NoticeKeys
    BY <1>1, <1>2
  <2>2. recordedAt' \in [NoticeKeys -> Nat]
    BY <1>1, <1>2
  <2>3. evicted' \subseteq NoticeKeys
    <3> HIDE DEF out
    <3> QED
      BY <1>1, <1>2, <1>7
  <2>4. {couriers', time'} \subseteq Nat /\ losses' \in 0..MaxLosses
    BY <1>1, <1>2 DEF NoticeTypeOK
  <2> QED
    BY <1>6, <1>9, <1>11, <2>1, <2>2, <2>3, <2>4 DEF NoticeTypeOK, NoticeRecords
<1>13. RecentIsHeld'
  <2>1. Len(left) <= MaxNotices
    BY <1>5, <1>6
  <2>2. ASSUME NEW j \in NoticeKeys
        PROVE  Holds(left, j) \/ IsExpired(j)' \/ j \in evicted'
    <3> HIDE DEF out
    <3>1. CASE j = k
      BY <1>1, <1>8, <3>1
    <3>2. CASE j # k
      <4>1. IsExpired(j)' <=> IsExpired(j)
        BY <1>1, <1>2, <3>2 DEF IsExpired
      <4>2. Holds(recorded, j) \/ IsExpired(j) \/ j \in evicted
        BY <1>2 DEF RecentIsHeld
      <4> QED
        BY <1>1, <1>8, <3>2, <4>1, <4>2
    <3> QED
      BY <3>1, <3>2
  <2>3. \A j \in NoticeKeys : Holds(left, j) = Holds(recorded, j)'
    BY <1>9 DEF Holds
  <2> QED
    BY <1>9, <1>10, <2>1, <2>2, <2>3 DEF RecentIsHeld
<1>14. CouriersAreUsed'
  <2>1. \A m \in Notifiers : notice'[m].at \in {"prompting", "deleting"} <=>
                             notice[m].at \in {"prompting", "deleting"}
    BY <1>1, <1>2
  <2>2. InUse' = InUse
    BY <2>1, Zenon DEF InUse
  <2> QED
    BY <1>1, <1>2, <2>2 DEF CouriersAreUsed
<1> QED
  BY <1>12, <1>13, <1>14 DEF NoticeInv

LEMMA NoticeStep == NoticeInv /\ [NoticeNext]_noticeVars => NoticeInv'
<1> SUFFICES ASSUME NoticeInv, [NoticeNext]_noticeVars PROVE NoticeInv'
  OBVIOUS
<1>1. CASE UNCHANGED noticeVars
  BY <1>1 DEF noticeVars, NoticeInv, NoticeTypeOK, RecentIsHeld, CouriersAreUsed,
              InUse, Holds, IsExpired
<1>2. CASE TimePasses
  <2>1. NoticeTypeOK'
    BY <1>2 DEF TimePasses, NoticeInv, NoticeTypeOK
  <2>2. \A k \in NoticeKeys : IsExpired(k) => IsExpired(k)'
    BY <1>2, NoticeFacts DEF TimePasses, NoticeInv, NoticeTypeOK, IsExpired
  <2>3. RecentIsHeld'
    BY <1>2, <2>2 DEF TimePasses, NoticeInv, RecentIsHeld, Holds
  <2>4. CouriersAreUsed'
    BY <1>2 DEF TimePasses, NoticeInv, CouriersAreUsed, InUse
  <2> QED
    BY <2>1, <2>3, <2>4 DEF NoticeInv
<1> QED
  BY <1>1, <1>2, NotifyStep, DeliverySteps, CommitStep DEF NoticeNext

-----------------------------------------------------------------------------
(* Terminals: buffers, readers and the sessions that own them.             *)

\* The invariant, said of one terminal.
Kept(n) == IF n < MaxLines THEN n ELSE MaxLines
TailOf(n) == [i \in 1..Kept(n) |-> n - Kept(n) + i]
OpenStatuses == {"running", "exited", "killed"}
Readers == [at : Nat, seen : SUBSET Nat, slipped : BOOLEAN]
GoodTerminal(r, d, away) ==
    /\ r \in TerminalRecords /\ d \in Readers /\ d.at <= Len(r.lines)
    /\ r.status \in OpenStatuses => r.lines = TailOf(r.printed)
    /\ ~d.slipped => d.seen = {r.lines[i] : i \in 1..d.at}
    /\ r.alive /\ r.owner \in away => r.killed \/ r.late
    /\ r.status = "exited" => ~r.alive /\ ~r.killed
    /\ r.status = "unborn" => r = Unborn(r.owner)
    /\ r.status = "running" => ~r.killed
    /\ r.status = "killed" => r.killed
    /\ r.status = "removed" => r.lines = <<>> /\ (r.alive => r.killed)
    /\ r.status \notin OpenStatuses => d = NewReader

AllTerminalsGood ==
    /\ terminal \in [Terminals -> TerminalRecords]
    /\ reader \in [Terminals -> Readers] /\ departed \subseteq TerminalOwners
    /\ \A t \in Terminals : GoodTerminal(terminal[t], reader[t], departed)

LEMMA OpenAreListed ==
    \A t \in Terminals : terminal[t] \in TerminalRecords =>
        (Listed(t) <=> terminal[t].status \in OpenStatuses)
BY DEF Listed, TerminalRecords, OpenStatuses

LEMMA TerminalInvSplits == TerminalInv <=> AllTerminalsGood
<1>1. ASSUME TerminalInv PROVE AllTerminalsGood
  <2>1. /\ terminal \in [Terminals -> TerminalRecords]
        /\ reader \in [Terminals -> Readers] /\ departed \subseteq TerminalOwners
    BY <1>1 DEF TerminalInv, TerminalTypeOK, Readers
  <2>2. ASSUME NEW t \in Terminals
        PROVE  GoodTerminal(terminal[t], reader[t], departed)
    <3> DEFINE r == terminal[t]
               d == reader[t]
    <3>1. r \in TerminalRecords /\ d \in Readers
      BY <2>1
    <3>2. Listed(t) <=> r.status \in OpenStatuses
      BY <3>1, OpenAreListed
    <3>3. r.status \in OpenStatuses => r.lines = TailOf(r.printed)
      BY <1>1, <3>2 DEF TerminalInv, BufferIsTail, TailOf, Kept
    <3>4. ~d.slipped => d.seen = {r.lines[i] : i \in 1..d.at}
      BY <1>1 DEF TerminalInv, PagesAreComplete
    <3>5. /\ r.alive /\ r.owner \in departed => r.killed \/ r.late
          /\ r.status = "exited" => ~r.alive /\ ~r.killed
      BY <1>1 DEF TerminalInv, NoOrphanTerminal, ExitIsItsOwn
    <3>6. /\ r.status = "unborn" => r = Unborn(r.owner)
          /\ r.status = "running" => ~r.killed
          /\ r.status = "killed" => r.killed
          /\ r.status = "removed" => r.lines = <<>> /\ (r.alive => r.killed)
          /\ r.status \notin OpenStatuses => d = NewReader
          /\ d.at <= Len(r.lines)
      BY <1>1, <3>2 DEF TerminalInv, StatusIsTrue
    <3> HIDE DEF r, d
    <3>7. GoodTerminal(r, d, departed)
      BY <3>1, <3>3, <3>4, <3>5, <3>6 DEF GoodTerminal
    <3> QED
      BY <3>7 DEF r, d
  <2> QED
    BY <2>1, <2>2 DEF AllTerminalsGood
<1>2. ASSUME AllTerminalsGood PROVE TerminalInv
  <2>1. TerminalTypeOK
    BY <1>2 DEF AllTerminalsGood, TerminalTypeOK, Readers
  <2>2. \A t \in Terminals : Listed(t) <=> terminal[t].status \in OpenStatuses
    BY <1>2, OpenAreListed DEF AllTerminalsGood
  <2>3. BufferIsTail
    BY <1>2, <2>2 DEF AllTerminalsGood, GoodTerminal, BufferIsTail, TailOf, Kept
  <2>4. PagesAreComplete
    BY <1>2 DEF AllTerminalsGood, GoodTerminal, PagesAreComplete
  <2>5. NoOrphanTerminal /\ ExitIsItsOwn
    BY <1>2 DEF AllTerminalsGood, GoodTerminal, NoOrphanTerminal, ExitIsItsOwn
  <2>6. StatusIsTrue
    BY <1>2, <2>2 DEF AllTerminalsGood, GoodTerminal, StatusIsTrue
  <2> QED
    BY <2>1, <2>3, <2>4, <2>5, <2>6 DEF TerminalInv
<1> QED
  BY <1>1, <1>2

LEMMA TerminalFacts ==
    /\ MaxLines \in Nat /\ MaxLines > 0 /\ PageSize \in Nat /\ PageSize > 0
    /\ MaxPrinted \in Nat
    /\ NewReader \in Readers /\ NewReader.at = 0 /\ NewReader.seen = {}
    /\ ~NewReader.slipped
BY TerminalAssumption DEF NewReader, Readers

LEMMA UnbornFacts ==
    \A o \in TerminalOwners :
        /\ Unborn(o) \in TerminalRecords /\ Unborn(o).status = "unborn"
        /\ Unborn(o).owner = o /\ ~Unborn(o).alive /\ ~Unborn(o).killed
        /\ Unborn(o).lines = <<>> /\ Unborn(o).printed = 0
<1> SUFFICES ASSUME NEW o \in TerminalOwners
             PROVE  /\ Unborn(o) \in TerminalRecords /\ Unborn(o).status = "unborn"
                    /\ Unborn(o).owner = o /\ ~Unborn(o).alive /\ ~Unborn(o).killed
                    /\ Unborn(o).lines = <<>> /\ Unborn(o).printed = 0
  OBVIOUS
<1>1. <<>> \in Seq(Nat) /\ 0 \in 0..MaxPrinted
  BY TerminalFacts
<1> QED
  BY <1>1 DEF Unborn, TerminalRecords

LEMMA TerminalStart == TerminalInit => TerminalInv
<1> SUFFICES ASSUME TerminalInit PROVE AllTerminalsGood
  BY TerminalInvSplits
<1>1. /\ terminal \in [Terminals -> TerminalRecords]
      /\ reader \in [Terminals -> Readers] /\ departed = {}
  BY UnbornFacts, TerminalFacts DEF TerminalInit
<1>2. ASSUME NEW t \in Terminals
      PROVE  GoodTerminal(terminal[t], reader[t], departed)
  <2>1. PICK o \in TerminalOwners : terminal[t] = Unborn(o)
    BY DEF TerminalInit
  <2>2. reader[t] = NewReader
    BY DEF TerminalInit
  <2>3. 0 <= Len(<<>>) /\ {Unborn(o).lines[i] : i \in 1..0} = {}
    OBVIOUS
  <2>4. GoodTerminal(Unborn(o), NewReader, {})
    BY <2>3, UnbornFacts, TerminalFacts DEF GoodTerminal, OpenStatuses
  <2> QED
    BY <1>1, <2>1, <2>2, <2>4
<1> QED
  BY <1>1, <1>2 DEF AllTerminalsGood

\* A step that moves one terminal and its reader.
LEMMA TerminalMoves ==
    ASSUME AllTerminalsGood, NEW t \in Terminals, NEW r, NEW d,
           terminal' = [terminal EXCEPT ![t] = r],
           reader' = [reader EXCEPT ![t] = d], departed' = departed,
           GoodTerminal(r, d, departed)
    PROVE  TerminalInv'
<1>1. r \in TerminalRecords /\ d \in Readers
  BY DEF GoodTerminal
<1>2. /\ terminal' \in [Terminals -> TerminalRecords]
      /\ reader' \in [Terminals -> Readers] /\ departed' \subseteq TerminalOwners
  BY <1>1 DEF AllTerminalsGood
<1>3. ASSUME NEW p \in Terminals
      PROVE  GoodTerminal(terminal'[p], reader'[p], departed)
  <2>1. CASE p = t
    <3>1. terminal'[p] = r /\ reader'[p] = d
      BY <2>1 DEF AllTerminalsGood
    <3> QED
      BY <3>1
  <2>2. CASE p # t
    <3>1. terminal'[p] = terminal[p] /\ reader'[p] = reader[p]
      BY <2>2 DEF AllTerminalsGood
    <3> QED
      BY <3>1 DEF AllTerminalsGood
  <2> QED
    BY <2>1, <2>2
<1>4. AllTerminalsGood'
  BY <1>2, <1>3 DEF AllTerminalsGood
<1>5. (TerminalInv <=> AllTerminalsGood)'
  BY TerminalInvSplits, PTL
<1> QED
  BY <1>4, <1>5

\* What a buffer of the last MaxLines lines is after some more.
LEMMA AppendedIsTail ==
    ASSUME NEW p \in Nat, NEW n \in 1..2
    PROVE  LET lines == TailOf(p)
               new == [i \in 1..n |-> p + i]
           IN
           /\ Appended(lines, new) = TailOf(p + n)
           /\ Len(lines) = Kept(p) /\ Len(Appended(lines, new)) = Kept(p + n)
           /\ ~(Len(lines) + n > MaxLines) =>
                \A i \in 1..Len(lines) : Appended(lines, new)[i] = lines[i]
<1> DEFINE lines == TailOf(p)
           new == [i \in 1..n |-> p + i]
           k == Kept(p)
           kk == Kept(p + n)
           all == lines \o new
           from == IF Len(all) > MaxLines THEN Len(all) - MaxLines + 1 ELSE 1
<1>1. /\ k \in Nat /\ k <= MaxLines /\ k <= p /\ MaxLines \in Nat /\ n \in Nat
      /\ (p < MaxLines => k = p) /\ (p >= MaxLines => k = MaxLines)
  BY TerminalFacts DEF Kept
<1>0. (p + n < MaxLines => kk = p + n) /\ (p + n >= MaxLines => kk = MaxLines)
  BY <1>1 DEF Kept
<1>2. /\ lines \in Seq(Nat) /\ Len(lines) = k
      /\ \A i \in 1..k : lines[i] = p - k + i
  BY <1>1 DEF TailOf
<1>3. new \in Seq(Nat) /\ Len(new) = n /\ \A i \in 1..n : new[i] = p + i
  BY <1>1
<1> HIDE DEF lines, new, k, kk
<1>4. /\ all \in Seq(Nat) /\ Len(all) = k + n
      /\ \A i \in 1..(k + n) : all[i] = IF i <= k THEN lines[i] ELSE new[i - k]
  BY <1>2, <1>3, ConcatProperties
<1> HIDE DEF all
<1>5. \A i \in 1..(k + n) : all[i] = p - k + i
  <2> SUFFICES ASSUME NEW i \in 1..(k + n) PROVE all[i] = p - k + i
    OBVIOUS
  <2>1. CASE i <= k
    BY <2>1, <1>1, <1>2, <1>4
  <2>2. CASE ~(i <= k)
    <3>1. i - k \in 1..n
      BY <1>1, <2>2
    <3>2. all[i] = new[i - k] /\ new[i - k] = p + (i - k)
      BY <1>3, <1>4, <2>2, <3>1
    <3> QED
      BY <1>1, <3>2
  <2> QED
    BY <2>1, <2>2
<1>6. from \in 1..(k + n) /\ from = k + n + 1 - kk
      /\ kk \in Nat /\ kk > 0
  <2>1. MaxLines > 0 /\ p \in Nat
    BY TerminalFacts
  <2>2. CASE k + n > MaxLines
    <3>1. from = k + n - MaxLines + 1 /\ kk = MaxLines
      BY <1>0, <1>1, <1>4, <2>1, <2>2
    <3> QED
      BY <1>1, <2>1, <2>2, <3>1
  <2>3. CASE ~(k + n > MaxLines)
    <3>1. from = 1 /\ kk = k + n
      BY <1>0, <1>1, <1>4, <2>1, <2>3
    <3> QED
      BY <1>1, <2>1, <2>3, <3>1
  <2> QED
    BY <2>2, <2>3
<1> DEFINE rest == SubSeq(all, from, Len(all))
<1>7. /\ rest \in Seq(Nat) /\ Len(rest) = kk
      /\ \A i \in 1..kk : rest[i] = all[from + i - 1]
  <2>1. \A i \in from..Len(all) : all[i] \in Nat
    BY <1>4, <1>6, ElementOfSeq
  <2>2. from \in Int /\ Len(all) \in Int /\ from <= Len(all)
        /\ Len(all) - from + 1 = kk
    BY <1>1, <1>4, <1>6
  <2> HIDE DEF from
  <2>3. /\ rest \in Seq(Nat) /\ Len(rest) = Len(all) - from + 1
        /\ \A i \in 1..(Len(all) - from + 1) : rest[i] = all[from + i - 1]
    BY <2>1, <2>2, SubSeqProperties
  <2> QED
    BY <2>2, <2>3
<1>8. Appended(lines, new) = rest
  BY DEF Appended, all
<1> HIDE DEF rest
<1>9. \A i \in 1..kk : rest[i] = (p + n) - kk + i
  <2> SUFFICES ASSUME NEW i \in 1..kk
               PROVE  rest[i] = (p + n) - kk + i
    OBVIOUS
  <2> HIDE DEF from
  <2>1. from + i - 1 \in 1..(k + n)
    BY <1>1, <1>6
  <2>2. rest[i] = p - k + (from + i - 1)
    BY <1>5, <1>7, <2>1
  <2> QED
    BY <1>1, <1>6, <2>1, <2>2
<1>10. rest = TailOf(p + n)
  <2>1. rest \in [1..kk -> Nat]
    BY <1>7, LenProperties
  <2>2. rest = [i \in 1..kk |-> rest[i]]
    BY <2>1
  <2>3. rest = [i \in 1..kk |-> (p + n) - kk + i]
    BY <1>9, <2>2, Zenon
  <2> QED
    BY <2>3 DEF TailOf, kk
<1>11. ~(Len(lines) + n > MaxLines) => \A i \in 1..Len(lines) : rest[i] = lines[i]
  <2> SUFFICES ASSUME ~(k + n > MaxLines), NEW i \in 1..k PROVE rest[i] = lines[i]
    BY <1>2
  <2>1. from = 1 /\ kk = k + n
    BY <1>0, <1>1, <1>4, <1>6
  <2> HIDE DEF from
  <2>2. i \in 1..(k + n) /\ i \in 1..kk /\ i <= k /\ from + i - 1 = i
    BY <1>1, <2>1
  <2>3. rest[i] = all[i] /\ all[i] = lines[i]
    BY <1>4, <1>7, <2>2
  <2> QED
    BY <2>3
<1> QED
  BY <1>2, <1>7, <1>8, <1>10, <1>11 DEF lines, new, k, kk

LEMMA PrintsStep ==
    ASSUME AllTerminalsGood, NEW t \in Terminals, NEW n \in 1..2, Prints(t, n)
    PROVE  TerminalInv'
<1> DEFINE r == terminal[t]
           d == reader[t]
           new == [i \in 1..n |-> r.printed + i]
           lines == Appended(r.lines, new)
           s == [r EXCEPT !.printed = r.printed + n, !.lines = lines]
           e == [d EXCEPT !.slipped = d.slipped \/ (d.at > 0 /\ Len(r.lines) + n > MaxLines)]
<1>1. /\ terminal' = [terminal EXCEPT ![t] = s] /\ reader' = [reader EXCEPT ![t] = e]
      /\ departed' = departed /\ Listed(t) /\ r.printed + n <= MaxPrinted
  BY DEF Prints, AllTerminalsGood
<1>2. GoodTerminal(r, d, departed) /\ r \in TerminalRecords /\ d \in Readers
  BY DEF AllTerminalsGood
<1>3. r.status \in OpenStatuses /\ r.lines = TailOf(r.printed) /\ r.printed \in Nat
      /\ r.lines \in Seq(Nat) /\ Len(r.lines) \in Nat
  BY <1>1, <1>2, OpenAreListed, LenProperties DEF GoodTerminal, TerminalRecords
<1>4. /\ lines = TailOf(r.printed + n) /\ Len(r.lines) = Kept(r.printed)
      /\ Len(lines) = Kept(r.printed + n)
      /\ ~(Len(r.lines) + n > MaxLines) =>
           \A i \in 1..Len(r.lines) : lines[i] = r.lines[i]
  <2>1. r.lines = TailOf(r.printed) /\ r.printed \in Nat
    BY <1>3
  <2> HIDE DEF r
  <2> QED
    BY <2>1, AppendedIsTail
<1>5. lines \in Seq(Nat)
  <2>1. /\ MaxLines \in Nat /\ r.printed + n \in Nat
        /\ Kept(r.printed + n) \in Nat /\ Kept(r.printed + n) <= r.printed + n
    BY <1>3, TerminalFacts DEF Kept
  <2>2. TailOf(r.printed + n) \in [1..Kept(r.printed + n) -> Nat]
    BY <2>1 DEF TailOf
  <2> QED
    BY <1>4, <2>1, <2>2
<1>6. Len(r.lines) <= Len(lines)
  BY <1>3, <1>4, TerminalFacts DEF Kept
<1> HIDE DEF lines, new
<1>7. /\ s \in TerminalRecords /\ s.lines = lines /\ s.printed = r.printed + n
      /\ s.status = r.status /\ s.alive = r.alive /\ s.killed = r.killed
      /\ s.late = r.late /\ s.owner = r.owner
  <2>1. r.printed + n \in 0..MaxPrinted
    BY <1>1, <1>3, TerminalFacts
  <2> QED
    BY <1>2, <1>5, <2>1 DEF TerminalRecords
<1>8. /\ e \in Readers /\ e.at = d.at /\ e.seen = d.seen
      /\ ~e.slipped => ~d.slipped /\ ~(d.at > 0 /\ Len(r.lines) + n > MaxLines)
  BY <1>2 DEF Readers
<1> HIDE DEF s, e
<1>9. e.at \in Nat /\ e.at <= Len(r.lines) /\ e.at <= Len(s.lines)
  BY <1>2, <1>3, <1>4, <1>6, <1>7, <1>8, TerminalFacts DEF GoodTerminal, Readers, Kept
<1>10. ~e.slipped => e.seen = {s.lines[i] : i \in 1..e.at}
  <2> SUFFICES ASSUME ~e.slipped PROVE e.seen = {s.lines[i] : i \in 1..e.at}
    OBVIOUS
  <2>1. e.seen = {r.lines[i] : i \in 1..e.at}
    BY <1>2, <1>8 DEF GoodTerminal
  <2>2. \A i \in 1..e.at : s.lines[i] = r.lines[i]
    <3> SUFFICES ASSUME NEW i \in 1..e.at PROVE s.lines[i] = r.lines[i]
      OBVIOUS
    <3>1. e.at > 0 /\ i \in 1..Len(r.lines)
      BY <1>3, <1>9
    <3>2. ~(Len(r.lines) + n > MaxLines)
      BY <1>8, <3>1
    <3> QED
      BY <1>4, <1>7, <3>1, <3>2
  <2> QED
    BY <2>1, <2>2
<1>11. GoodTerminal(s, e, departed)
  BY <1>2, <1>3, <1>4, <1>7, <1>8, <1>9, <1>10 DEF GoodTerminal, OpenStatuses
<1> QED
  BY <1>1, <1>11, TerminalMoves

LEMMA ProcessSteps ==
    ASSUME AllTerminalsGood, NEW t \in Terminals,
           TerminalSpawned(t) \/ ProcessEnds(t) \/ ExitSeen(t)
    PROVE  TerminalInv'
<1> DEFINE r == terminal[t]
           d == reader[t]
<1>1. /\ GoodTerminal(r, d, departed) /\ r \in TerminalRecords /\ d \in Readers
      /\ departed' = departed /\ reader' = [reader EXCEPT ![t] = d]
  BY DEF AllTerminalsGood, TerminalSpawned, ProcessEnds, ExitSeen
<1>2. CASE TerminalSpawned(t)
  <2> DEFINE s == [r EXCEPT !.status = "running", !.alive = TRUE,
                            !.late = r.owner \in departed]
  <2>1. terminal' = [terminal EXCEPT ![t] = s] /\ r.status = "unborn"
    BY <1>2 DEF TerminalSpawned, AllTerminalsGood
  <2>2. /\ s \in TerminalRecords /\ s.status = "running" /\ s.alive
        /\ s.late = (r.owner \in departed) /\ s.owner = r.owner
        /\ s.killed = r.killed /\ s.lines = r.lines /\ s.printed = r.printed
    <3>1. (r.owner \in departed) \in BOOLEAN
      OBVIOUS
    <3>2. s \in TerminalRecords
      BY <1>1, <3>1 DEF TerminalRecords
    <3>3. s.late = (r.owner \in departed) /\ s.alive = TRUE
      BY <1>1 DEF TerminalRecords
    <3>4. /\ s.status = "running" /\ s.owner = r.owner
          /\ s.killed = r.killed /\ s.lines = r.lines /\ s.printed = r.printed
      BY <1>1 DEF TerminalRecords
    <3> QED
      BY <3>2, <3>3, <3>4
  <2>3. /\ r = Unborn(r.owner) /\ d = NewReader /\ r.owner \in TerminalOwners
    BY <1>1, <2>1 DEF GoodTerminal, TerminalRecords, OpenStatuses
  <2>4. ~r.killed /\ r.lines = <<>> /\ r.printed = 0
    BY <2>3, UnbornFacts
  <2>5. s.lines = TailOf(s.printed)
    <3>1. Kept(0) = 0
      BY TerminalFacts DEF Kept
    <3> QED
      BY <2>2, <2>4, <3>1 DEF TailOf
  <2> HIDE DEF s
  <2>6. GoodTerminal(s, d, departed)
    BY <1>1, <2>2, <2>3, <2>4, <2>5 DEF GoodTerminal, OpenStatuses
  <2> QED
    BY <1>1, <2>1, <2>6, TerminalMoves
<1>3. CASE ProcessEnds(t)
  <2> DEFINE s == [r EXCEPT !.alive = FALSE]
  <2>1. terminal' = [terminal EXCEPT ![t] = s] /\ r.alive
    BY <1>3 DEF ProcessEnds, AllTerminalsGood
  <2>2. /\ s \in TerminalRecords /\ s.status = r.status /\ ~s.alive
        /\ s.late = r.late /\ s.owner = r.owner
        /\ s.killed = r.killed /\ s.lines = r.lines /\ s.printed = r.printed
    BY <1>1 DEF TerminalRecords
  <2>3. r.status # "unborn"
    <3> SUFFICES ASSUME r.status = "unborn" PROVE FALSE
      OBVIOUS
    <3>1. r = Unborn(r.owner) /\ r.owner \in TerminalOwners
      BY <1>1 DEF GoodTerminal, TerminalRecords
    <3> QED
      BY <2>1, <3>1, UnbornFacts
  <2> HIDE DEF s
  <2>4. GoodTerminal(s, d, departed)
    BY <1>1, <2>2, <2>3 DEF GoodTerminal, OpenStatuses
  <2> QED
    BY <1>1, <2>1, <2>4, TerminalMoves
<1>4. CASE ExitSeen(t)
  <2> DEFINE s == [r EXCEPT !.status = "exited"]
  <2>1. terminal' = [terminal EXCEPT ![t] = s] /\ ~r.alive /\ r.status = "running"
    BY <1>4 DEF ExitSeen, AllTerminalsGood
  <2>2. /\ s \in TerminalRecords /\ s.status = "exited" /\ s.alive = r.alive
        /\ s.late = r.late /\ s.owner = r.owner
        /\ s.killed = r.killed /\ s.lines = r.lines /\ s.printed = r.printed
    BY <1>1 DEF TerminalRecords
  <2> HIDE DEF s
  <2>3. GoodTerminal(s, d, departed)
    BY <1>1, <2>1, <2>2 DEF GoodTerminal, OpenStatuses
  <2> QED
    BY <1>1, <2>1, <2>3, TerminalMoves
<1> QED
  BY <1>2, <1>3, <1>4

\* A terminal that is killed, with or without its record.
LEMMA KilledIsGood ==
    ASSUME NEW r, NEW d, NEW cleanup \in BOOLEAN, NEW away,
           GoodTerminal(r, d, away), r.status \in OpenStatuses
    PROVE  /\ Killed(r, cleanup) \in TerminalRecords
           /\ ~cleanup => GoodTerminal(Killed(r, cleanup), d, away)
           /\ cleanup => \A any : GoodTerminal(Killed(r, cleanup), NewReader, any)
<1> DEFINE s == Killed(r, cleanup)
<1>1. r \in TerminalRecords /\ d \in Readers
  BY DEF GoodTerminal
<1>2. /\ s.alive = r.alive /\ s.late = r.late /\ s.owner = r.owner
      /\ s.printed = r.printed /\ s.killed = (r.killed \/ r.status = "running")
      /\ s.status = IF cleanup THEN "removed"
                    ELSE IF r.status = "running" THEN "killed" ELSE r.status
      /\ s.lines = IF cleanup THEN <<>> ELSE r.lines
      /\ s \in TerminalRecords
  <2>1. s = [status |-> IF cleanup THEN "removed"
                       ELSE IF r.status = "running" THEN "killed" ELSE r.status,
             owner |-> r.owner, alive |-> r.alive,
             killed |-> r.killed \/ r.status = "running", late |-> r.late,
             lines |-> IF cleanup THEN <<>> ELSE r.lines, printed |-> r.printed]
    <3>1. r = [status |-> r.status, owner |-> r.owner, alive |-> r.alive,
               killed |-> r.killed, late |-> r.late, lines |-> r.lines,
               printed |-> r.printed]
      BY <1>1 DEF TerminalRecords
    <3>2. s = [r EXCEPT !.killed = r.killed \/ r.status = "running",
                        !.status = IF cleanup THEN "removed"
                                   ELSE IF r.status = "running" THEN "killed"
                                   ELSE r.status,
                        !.lines = IF cleanup THEN <<>> ELSE r.lines]
      BY DEF Killed
    <3> QED
      BY <3>1, <3>2, Zenon
  <2>2. (r.killed \/ r.status = "running") \in BOOLEAN
    OBVIOUS
  <2>3. (IF cleanup THEN <<>> ELSE r.lines) \in Seq(Nat)
    BY <1>1 DEF TerminalRecords
  <2> HIDE DEF s
  <2>4. s \in TerminalRecords
    BY <1>1, <2>1, <2>2, <2>3 DEF TerminalRecords
  <2> QED
    BY <2>1, <2>4
<1>3. r.status \in OpenStatuses /\ r.alive => s.killed
  BY <1>2 DEF GoodTerminal, OpenStatuses
<1> HIDE DEF s
<1>4. CASE ~cleanup
  <2>1. GoodTerminal(s, d, away)
    BY <1>1, <1>2, <1>3, <1>4 DEF GoodTerminal, OpenStatuses
  <2> QED
    BY <1>2, <1>4, <2>1 DEF s
<1>5. CASE cleanup
  <2>1. 0 <= Len(<<>>) /\ {s.lines[i] : i \in 1..0} = {}
    OBVIOUS
  <2>2. s.status = "removed" /\ s.lines = <<>>
    BY <1>2, <1>5
  <2>3. ASSUME NEW any PROVE GoodTerminal(s, NewReader, any)
    BY <1>2, <1>3, <2>1, <2>2, TerminalFacts DEF GoodTerminal, OpenStatuses
  <2> QED
    BY <1>2, <1>5, <2>3 DEF s
<1> QED
  BY <1>2, <1>4, <1>5 DEF s

LEMMA KillCalledStep ==
    ASSUME AllTerminalsGood, NEW t \in Terminals, NEW cleanup \in BOOLEAN,
           KillCalled(t, cleanup)
    PROVE  TerminalInv'
<1>1. /\ GoodTerminal(terminal[t], reader[t], departed)
      /\ terminal[t].status \in OpenStatuses
  BY OpenAreListed DEF AllTerminalsGood, KillCalled
<1>2. terminal' = [terminal EXCEPT ![t] = Killed(terminal[t], cleanup)]
      /\ departed' = departed
  BY DEF KillCalled, AllTerminalsGood
<1>3. CASE cleanup
  <2>1. reader' = [reader EXCEPT ![t] = NewReader]
    BY <1>3 DEF KillCalled
  <2>2. GoodTerminal(Killed(terminal[t], cleanup), NewReader, departed)
    BY <1>1, <1>3, KilledIsGood
  <2> QED
    BY <1>2, <2>1, <2>2, TerminalMoves
<1>4. CASE ~cleanup
  <2>1. reader' = [reader EXCEPT ![t] = reader[t]]
    BY <1>4 DEF KillCalled, AllTerminalsGood
  <2>2. GoodTerminal(Killed(terminal[t], cleanup), reader[t], departed)
    BY <1>1, <1>4, KilledIsGood
  <2> QED
    BY <1>2, <2>1, <2>2, TerminalMoves
<1> QED
  BY <1>3, <1>4

LEMMA OwnerDepartsStep ==
    ASSUME AllTerminalsGood, NEW o \in TerminalOwners, OwnerDeparts(o)
    PROVE  TerminalInv'
<1> DEFINE mine == {t \in Terminals : Listed(t) /\ terminal[t].owner = o}
<1>1. /\ departed' = departed \cup {o}
      /\ terminal' = [t \in Terminals |->
             IF t \in mine THEN Killed(terminal[t], TRUE) ELSE terminal[t]]
      /\ reader' = [t \in Terminals |-> IF t \in mine THEN NewReader ELSE reader[t]]
  BY DEF OwnerDeparts
<1>2. ASSUME NEW t \in Terminals
      PROVE  GoodTerminal(terminal'[t], reader'[t], departed')
  <2> DEFINE r == terminal[t]
             d == reader[t]
  <2>1. GoodTerminal(r, d, departed) /\ r \in TerminalRecords
        /\ (Listed(t) <=> r.status \in OpenStatuses)
    BY OpenAreListed DEF AllTerminalsGood
  <2>2. CASE t \in mine
    <3>1. GoodTerminal(Killed(r, TRUE), NewReader, departed')
      BY <2>1, <2>2, KilledIsGood
    <3> QED
      BY <1>1, <2>2, <3>1
  <2>3. CASE t \notin mine
    <3>1. terminal'[t] = r /\ reader'[t] = d
      BY <1>1, <2>3
    <3>2. r.status \notin OpenStatuses \/ r.owner # o
      BY <2>1, <2>3
    <3>3. r.alive /\ r.owner \in departed' => r.killed \/ r.late
      <4>1. CASE r.owner # o
        BY <1>1, <2>1, <4>1 DEF GoodTerminal
      <4>2. CASE r.status \notin OpenStatuses
        <5>1. r.status \in {"unborn", "removed"} /\ r.owner \in TerminalOwners
          BY <2>1, <4>2 DEF TerminalRecords, OpenStatuses
        <5>2. r.status = "unborn" => ~r.alive
          BY <2>1, <5>1, UnbornFacts DEF GoodTerminal
        <5> QED
          BY <2>1, <5>1, <5>2 DEF GoodTerminal
      <4> QED
        BY <3>2, <4>1, <4>2
    <3> HIDE DEF r, d
    <3>4. GoodTerminal(r, d, departed')
      BY <2>1, <3>3 DEF GoodTerminal
    <3> QED
      BY <3>1, <3>4
  <2> QED
    BY <2>2, <2>3
<1>3. ASSUME NEW t \in Terminals
      PROVE  terminal'[t] \in TerminalRecords /\ reader'[t] \in Readers
  BY <1>2 DEF GoodTerminal
<1>4. /\ terminal' \in [Terminals -> TerminalRecords]
      /\ reader' \in [Terminals -> Readers]
  <2>1. /\ terminal' = [t \in Terminals |-> terminal'[t]]
        /\ reader' = [t \in Terminals |-> reader'[t]]
    BY <1>1
  <2> QED
    BY <1>3, <2>1
<1>5. AllTerminalsGood'
  BY <1>1, <1>2, <1>4 DEF AllTerminalsGood
<1>6. (TerminalInv <=> AllTerminalsGood)'
  BY TerminalInvSplits, PTL
<1> QED
  BY <1>5, <1>6

LEMMA PageReadStep ==
    ASSUME AllTerminalsGood, NEW t \in Terminals, PageRead(t)
    PROVE  TerminalInv'
<1> DEFINE r == terminal[t]
           d == reader[t]
           upTo == IF d.at + PageSize < Len(r.lines) THEN d.at + PageSize
                   ELSE Len(r.lines)
           pages == d.seen \cup {r.lines[i] : i \in d.at + 1 .. upTo}
           e == [d EXCEPT !.at = upTo, !.seen = pages]
<1>1. /\ GoodTerminal(r, d, departed) /\ r \in TerminalRecords /\ d \in Readers
      /\ Listed(t) /\ upTo > d.at /\ departed' = departed
      /\ terminal' = [terminal EXCEPT ![t] = r]
      /\ reader' = [reader EXCEPT ![t] = e]
  BY DEF AllTerminalsGood, PageRead
<1>2. /\ r.status \in OpenStatuses /\ r.lines \in Seq(Nat) /\ Len(r.lines) \in Nat
      /\ d.at \in Nat
  BY <1>1, OpenAreListed, LenProperties DEF TerminalRecords, Readers
<1>3. upTo \in Nat /\ upTo <= Len(r.lines)
  BY <1>2, TerminalFacts
<1>4. pages \subseteq Nat
  <2>1. \A i \in d.at + 1 .. upTo : r.lines[i] \in Nat
    <3> SUFFICES ASSUME NEW i \in d.at + 1 .. upTo PROVE r.lines[i] \in Nat
      OBVIOUS
    <3>1. i \in 1..Len(r.lines)
      BY <1>2, <1>3
    <3> QED
      BY <1>2, <3>1, ElementOfSeq
  <2> QED
    BY <1>1, <2>1 DEF Readers
<1>5. ~d.slipped => pages = {r.lines[i] : i \in 1..upTo}
  <2> SUFFICES ASSUME ~d.slipped PROVE pages = {r.lines[i] : i \in 1..upTo}
    OBVIOUS
  <2>1. d.seen = {r.lines[i] : i \in 1..d.at}
    BY <1>1 DEF GoodTerminal
  <2>2. \A i : i \in 1..upTo <=> i \in 1..d.at \/ i \in d.at + 1 .. upTo
    BY <1>1, <1>2, <1>3
  <2> HIDE DEF upTo
  <2> QED
    BY <2>1, <2>2
<1> HIDE DEF upTo, pages
<1>6. e \in Readers /\ e.at = upTo /\ e.seen = pages /\ e.slipped = d.slipped
  BY <1>1, <1>3, <1>4 DEF Readers
<1> HIDE DEF e
<1>7. GoodTerminal(r, e, departed)
  BY <1>1, <1>2, <1>3, <1>5, <1>6 DEF GoodTerminal
<1> QED
  BY <1>1, <1>7, TerminalMoves

LEMMA TerminalStep == TerminalInv /\ [TerminalNext]_terminalVars => TerminalInv'
<1> SUFFICES ASSUME AllTerminalsGood, [TerminalNext]_terminalVars PROVE TerminalInv'
  BY TerminalInvSplits
<1>1. CASE UNCHANGED terminalVars
  <2>1. AllTerminalsGood'
    BY <1>1 DEF AllTerminalsGood, terminalVars
  <2>2. (TerminalInv <=> AllTerminalsGood)'
    BY TerminalInvSplits, PTL
  <2> QED
    BY <2>1, <2>2
<1> QED
  BY <1>1, PrintsStep, ProcessSteps, KillCalledStep, OwnerDepartsStep, PageReadStep
  DEF TerminalNext

-----------------------------------------------------------------------------
(* The parts together.                                                     *)

AllParts ==
    /\ TitleInv /\ FetchInv /\ ReviewInv /\ InjectionInv
    /\ ChatInv /\ SkillInv /\ NoticeInv /\ TerminalInv

LEMMA PartsStart == PluginInit => AllParts
BY TitleStart, FetchStart, ReviewStart, InjectionStart, ChatStart, SkillStart,
   NoticeStart, TerminalStart DEF PluginInit, AllParts

\* A step of the plugin is for each part a step of its own or none.
LEMMA PartsMoveAlone ==
    [PluginNext]_pluginVars =>
        /\ [TitleNext]_titleVars /\ [FetchNext]_fetchVars
        /\ [ReviewNext]_reviewVars /\ [InjectionNext]_injectionVars
        /\ [ChatNext]_chatVars /\ [SkillNext]_skillVars
        /\ [NoticeNext]_noticeVars /\ [TerminalNext]_terminalVars
BY DEF PluginNext, pluginVars

LEMMA PartsStep == AllParts /\ [PluginNext]_pluginVars => AllParts'
BY PartsMoveAlone, TitleStep, FetchStep, ReviewStep, InjectionStep, ChatStep,
   SkillStep, NoticeStep, TerminalStep DEF AllParts

LEMMA PartsHold == PluginSpec => []AllParts
<1> QED
  BY PartsStart, PartsStep, PTL DEF PluginSpec

(***************************************************************************)
(* The hooks keep what they promise for any number of resources, calls,    *)
(* prompts, sessions and retries: see HooksInv of MCPluginChat.            *)
(***************************************************************************)
THEOREM HooksKeepTheirWord == PluginSpec => []HooksInv
<1>1. AllParts => HooksInv
  BY DEF AllParts, HooksInv
<1> QED
  BY <1>1, PartsHold, PTL

(***************************************************************************)
(* The autopilot, the notices and the terminals keep what they promise for *)
(* any number of processes, skills, notices and terminals: see ServicesInv *)
(* of MCPluginChat.                                                        *)
(***************************************************************************)
THEOREM ServicesKeepTheirWord == PluginSpec => []ServicesInv
<1>1. AllParts => ServicesInv
  BY DEF AllParts, ServicesInv
<1> QED
  BY <1>1, PartsHold, PTL

(***************************************************************************)
(* Neither the title a user gave nor a skill file of the user is written   *)
(* over, with the exceptions UserTextsKept of MCPluginChat names.          *)
(***************************************************************************)
THEOREM UserTextsStay == PluginSpec => UserTextsKept
<1>1. AllParts /\ [PluginNext]_pluginVars =>
        [kept /\ "unread" \notin excuse /\ hostTitle = UserTitle
           => hostTitle' = UserTitle]_titleVars
  BY PartsMoveAlone, UserTitleStays DEF AllParts
<1>2. AllParts /\ [PluginNext]_pluginVars =>
        [\A n \in Names :
           \/ ~Parses(n) \/ n \in raced \cup disputed
           \/ skill'[n].kind = skill[n].kind
           \/ happened'.edits > happened.edits]_skillVars
  BY PartsMoveAlone, SkillTextStays DEF AllParts
<1> QED
  BY <1>1, <1>2, PartsHold, PTL DEF PluginSpec, UserTextsKept, UserTitleKept, SkillTextKept
=============================================================================
