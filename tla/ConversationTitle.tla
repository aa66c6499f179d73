------------------------- MODULE ConversationTitle -------------------------
(***************************************************************************)
(* src/hooks/conversation-title.ts and src/utils/conversation-title for    *)
(* one main session.  A milestone reads the session's title, asks the      *)
(* registry whether to write a new one and writes it: three awaits, with   *)
(* other milestones, the user and the host in between.  The user opts out  *)
(* by renaming the session, which the registry can only infer from a title *)
(* that is not the one it wrote last.                                      *)
(***************************************************************************)
EXTENDS Naturals, FiniteSets

CONSTANTS
    Topics,       \* topics a milestone can name (no tool or agent names)
    NoTopic,
    Issues,       \* issue numbers, positive
    Milestones,   \* calls of the hook that may be under way
    ChatFallback, \* features.conversationTitleChatFallback
    MaxMilestones \* bound on milestones

ASSUME TitleAssumption ==
    /\ NoTopic \notin Topics /\ Issues \subseteq Nat \ {0}
    /\ ChatFallback \in BOOLEAN /\ MaxMilestones \in Nat

VARIABLES
    hostTitle,  \* the title the host has for the session
    record,     \* the registry's SessionRecord
    milestone,  \* where each call is
    milestones, \* calls so far (bounded)
    known,      \* session.deleted has not come
    excuse,     \* ghost: what makes the registry's inference unsafe
    renamed,    \* ghost: the user has renamed the session
    kept        \* ghost: the user renamed a confirmed title, no call under way

titleVars == <<hostTitle, record, milestone, milestones, known, excuse, renamed,
               kept>>

-----------------------------------------------------------------------------
(* Milestones and titles                                                   *)

Signal(status, topic, confidence, issue) ==
    [status |-> status, topic |-> topic, confidence |-> confidence,
     issue |-> issue]

AnyTopic == Topics \cup {NoTopic}

\* classifyToolMilestone and handleChatMessage: what each milestone says.
Signals ==
    {Signal("planning", t, c, 0) : t \in Topics, c \in {70, 65}} \cup
    {Signal("planning", t, 100, i) : t \in AnyTopic, i \in Issues \cup {0}} \cup
    {Signal("executing", t, 50, i) : t \in AnyTopic, i \in Issues} \cup
    {Signal(s, NoTopic, 95, i) : s \in {"executing", "done"}, i \in Issues} \cup
    {Signal("executing", NoTopic, 50, 0)} \cup
    {Signal("initializing", t, 30, 0) : t \in Topics}

\* buildIssueAwareTitle: a title without an issue names its status only when
\* the status is conclusive or there is no topic.
TitleOf(issue, topic, status) ==
    [issue |-> issue, topic |-> topic,
     status |-> IF issue # 0 \/ topic = NoTopic \/ status = "done"
                THEN status ELSE "unnamed"]

NoTitle   == [issue |-> 0, topic |-> NoTopic, status |-> "no title"]
HostTitle == [issue |-> 0, topic |-> NoTopic, status |-> "host"]
UserTitle == [issue |-> 0, topic |-> NoTopic, status |-> "user"]
Titles == [issue : Issues \cup {0}, topic : AnyTopic,
           status : {"initializing", "planning", "executing", "done", "unnamed",
                     "no title", "host", "user"}]

Calm == [at |-> "none", chat |-> FALSE, title |-> NoTitle]

NewRecord == [lastTitle |-> NoTitle, recent |-> FALSE, done |-> "never",
              optedOut |-> FALSE, confirmed |-> FALSE, topic |-> NoTopic,
              confidence |-> 0, issue |-> 0]

Records == [lastTitle : Titles, recent : BOOLEAN,
            done : {"never", "frozen", "expired"}, optedOut : BOOLEAN,
            confirmed : BOOLEAN, topic : AnyTopic,
            confidence : {0, 30, 50, 65, 70, 95, 100}, issue : Issues \cup {0}]

Calls == [at : {"none", "reading", "read", "writing"},
          chat : {FALSE, ChatFallback}, title : Titles]

TitleTypeOK ==
    /\ hostTitle \in Titles /\ record \in Records
    /\ milestone \in [Milestones -> Calls]
    /\ milestones \in 0..MaxMilestones
    /\ {known, renamed, kept} \subseteq BOOLEAN
    /\ excuse \subseteq {"overlap", "write failed", "late host title", "unread"}

TitleInit ==
    /\ hostTitle = HostTitle /\ record = NewRecord
    /\ milestone = [m \in Milestones |-> Calm] /\ milestones = 0
    /\ known = TRUE /\ excuse = {} /\ renamed = FALSE /\ kept = FALSE

-----------------------------------------------------------------------------
(* The decision                                                            *)

\* Mutant of Observed: the confirmation does not last.
ObservedOnce(current) ==
    record.lastTitle # NoTitle /\ current = record.lastTitle

\* observeCurrentTitle
Observed(current) ==
    \/ record.confirmed
    \/ record.lastTitle # NoTitle /\ current = record.lastTitle

\* Mutant of OptsOut: a mismatch opts out before the title was ever confirmed.
OptsOutEarly(current) ==
    \/ record.optedOut
    \/ /\ record.lastTitle # NoTitle
       /\ current \notin {NoTitle, record.lastTitle}

\* detectOptOut
OptsOut(current) ==
    record.optedOut \/
        /\ record.lastTitle # NoTitle /\ Observed(current)
        /\ current \notin {NoTitle, record.lastTitle}

\* applyTopic and canReplaceTopic
ReplacesTopic(s) ==
    /\ s.topic # NoTopic
    /\ \/ record.topic = NoTopic
       \/ s.confidence > record.confidence
       \/ s.confidence = record.confidence /\ record.done = "expired"

\* decideForRecord after its two early returns: the record that knows the
\* milestone's issue and topic, and the title they make.
Learned(s, current) ==
    [record EXCEPT
        !.confirmed = Observed(current),
        !.issue = IF s.issue # 0 THEN s.issue ELSE @,
        !.topic = IF ReplacesTopic(s) THEN s.topic ELSE @,
        !.confidence = IF ReplacesTopic(s) THEN s.confidence ELSE @]

Candidate(s, current) ==
    TitleOf(Learned(s, current).issue, Learned(s, current).topic, s.status)

Throttled(s, current) ==
    record.recent /\ record.lastTitle = Candidate(s, current)

\* updateRecord and updateDoneAt
Written(s, current) ==
    [Learned(s, current) EXCEPT
        !.lastTitle = Candidate(s, current), !.recent = TRUE,
        !.done = IF s.status = "done" THEN "frozen"
                 ELSE IF ReplacesTopic(s) /\ @ = "expired" THEN "never" ELSE @]

-----------------------------------------------------------------------------
(* The calls                                                               *)

UnderWay == {m \in Milestones : milestone[m].at # "none"}

\* handleToolAfter or, unless the user has opted out, handleChatMessage.
MilestoneReached(m, chat) ==
    /\ milestone[m] = Calm /\ milestones < MaxMilestones
    /\ chat => ChatFallback /\ ~record.optedOut
    /\ milestones' = milestones + 1
    /\ milestone' = [milestone EXCEPT ![m].at = "reading", ![m].chat = chat]
    /\ excuse' = IF UnderWay = {} THEN excuse ELSE excuse \cup {"overlap"}
    /\ UNCHANGED <<hostTitle, record, known, renamed, kept>>

\* The first fetchSessionInfo; when it fails the call goes on without a title,
\* except for a chat message.
TitleRead(m) ==
    /\ milestone[m].at = "reading"
    /\ \/ /\ known
          /\ milestone' = [milestone EXCEPT ![m].at = "read",
                                            ![m].title = hostTitle]
          /\ UNCHANGED excuse
       \/ /\ milestone' = [milestone EXCEPT ![m] =
                IF @.chat THEN Calm
                ELSE [@ EXCEPT !.at = "read"]]
          /\ excuse' = excuse \cup {"unread"}
    /\ UNCHANGED <<hostTitle, record, milestones, known, renamed, kept>>

\* dispatch: the second fetch failed, nothing is decided.
DispatchEnds(m) ==
    /\ milestone[m].at = "read"
    /\ milestone' = [milestone EXCEPT ![m] = Calm]
    /\ UNCHANGED <<hostTitle, record, milestones, known, excuse, renamed, kept>>

\* Mutant of Decides: the record is updated before the freeze is checked.
DecidesRecordsFirst(m, s) ==
    /\ milestone[m].at = "read"
    /\ milestone[m].chat <=> s.status = "initializing"
    /\ LET current == milestone[m].title
       IN IF OptsOut(current)
          THEN /\ record' = [record EXCEPT !.confirmed = Observed(current),
                                           !.optedOut = TRUE]
               /\ milestone' = [milestone EXCEPT ![m] = Calm]
          ELSE IF record.done = "frozen"
          THEN /\ record' = Written(s, current)
               /\ milestone' = [milestone EXCEPT ![m] = Calm]
          ELSE IF Throttled(s, current)
          THEN /\ record' = Learned(s, current)
               /\ milestone' = [milestone EXCEPT ![m] = Calm]
          ELSE /\ record' = Written(s, current)
               /\ milestone' = [milestone EXCEPT ![m].at = "writing",
                                    ![m].title = Candidate(s, current)]
    /\ UNCHANGED <<hostTitle, milestones, known, excuse, renamed, kept>>

\* dispatch: the registry decides on the title of the first fetch.  What the
\* milestone says plays no part before.
Decides(m, s) ==
    /\ milestone[m].at = "read"
    /\ milestone[m].chat <=> s.status = "initializing"
    /\ LET current == milestone[m].title
       IN IF OptsOut(current)
          THEN /\ record' = [record EXCEPT !.confirmed = Observed(current),
                                           !.optedOut = TRUE]
               /\ milestone' = [milestone EXCEPT ![m] = Calm]
          ELSE IF record.done = "frozen"
          THEN /\ record' = [record EXCEPT !.confirmed = Observed(current)]
               /\ milestone' = [milestone EXCEPT ![m] = Calm]
          ELSE IF Throttled(s, current)
          THEN /\ record' = Learned(s, current)
               /\ milestone' = [milestone EXCEPT ![m] = Calm]
          ELSE /\ record' = Written(s, current)
               /\ milestone' = [milestone EXCEPT ![m].at = "writing",
                                    ![m].title = Candidate(s, current)]
    /\ UNCHANGED <<hostTitle, milestones, known, excuse, renamed, kept>>

\* writeTitle, whose failure is logged.
TitleWritten(m) ==
    /\ milestone[m].at = "writing"
    /\ milestone' = [milestone EXCEPT ![m] = Calm]
    /\ \/ known /\ hostTitle' = milestone[m].title /\ UNCHANGED excuse
       \/ excuse' = excuse \cup {"write failed"} /\ UNCHANGED hostTitle
    /\ UNCHANGED <<record, milestones, known, renamed, kept>>

-----------------------------------------------------------------------------
(* Time, the user and the host                                             *)

ThrottleEnds ==
    /\ record.recent /\ record' = [record EXCEPT !.recent = FALSE]
    /\ UNCHANGED <<hostTitle, milestone, milestones, known, excuse, renamed,
                   kept>>

FreezeEnds ==
    /\ record.done = "frozen" /\ record' = [record EXCEPT !.done = "expired"]
    /\ UNCHANGED <<hostTitle, milestone, milestones, known, excuse, renamed,
                   kept>>

UserRenames ==
    /\ known /\ hostTitle' = UserTitle /\ renamed' = TRUE
    /\ kept' = (kept \/ (record.confirmed /\ UnderWay = {}))
    /\ UNCHANGED <<record, milestone, milestones, known, excuse>>

\* A title of the hook has been read back, if not yet by the registry.
ReadBack ==
    \/ record.confirmed
    \/ \E m \in Milestones :
        /\ milestone[m].at = "read" /\ milestone[m].title # NoTitle
        /\ milestone[m].title = record.lastTitle

\* The host's own title for the first message, before or after the first
\* milestone has written one.
HostRenames ==
    /\ known /\ ~renamed
    /\ hostTitle' = HostTitle
    /\ excuse' = IF ReadBack THEN excuse \cup {"late host title"} ELSE excuse
    /\ UNCHANGED <<record, milestone, milestones, known, renamed, kept>>

\* handleEvent: the record is forgotten, calls under way are not.
SessionForgotten ==
    /\ known /\ known' = FALSE
    /\ record' = NewRecord
    /\ UNCHANGED <<hostTitle, milestone, milestones, excuse, renamed, kept>>

TitleNext ==
    \/ \E m \in Milestones :
        \/ \E chat \in BOOLEAN : MilestoneReached(m, chat)
        \/ \E s \in Signals : Decides(m, s)
        \/ TitleRead(m) \/ DispatchEnds(m) \/ TitleWritten(m)
    \/ ThrottleEnds \/ FreezeEnds
    \/ UserRenames \/ HostRenames \/ SessionForgotten

TitleSpec == TitleInit /\ [][TitleNext]_titleVars

-----------------------------------------------------------------------------
(* Properties                                                              *)

\* The registry takes a mismatch for a rename by the user only when there was
\* one, as long as calls do not overlap, writes arrive and the host's own title
\* comes before a title of the hook has been confirmed.
OptOutOnlyByUser ==
    record.optedOut =>
        \/ renamed
        \/ excuse \cap {"overlap", "write failed", "late host title"} # {}

\* When no call is under way and nothing interfered, the session has the title
\* the registry believes it wrote.
QuietTitle ==
    /\ UnderWay = {} /\ known /\ excuse \subseteq {"unread"} /\ ~renamed
    /\ record.lastTitle # NoTitle
    => hostTitle \in {record.lastTitle, HostTitle}

\* The registry has a title of its own or none, and calls that have not read
\* or decided carry none.
TitlesAreOwn ==
    /\ record.lastTitle.status \notin {"host", "user"}
    /\ record.confirmed => record.lastTitle # NoTitle
    /\ \A m \in Milestones :
        /\ milestone[m].at \in {"none", "reading"} => milestone[m].title = NoTitle
        /\ milestone[m].at = "writing" =>
              milestone[m].title.status \notin {"host", "user", "no title"}

\* Calls that overlapped are excused.
OneAtATime == "overlap" \notin excuse => \A m, o \in UnderWay : m = o

\* As long as nobody interferes, what a call read is no title the registry
\* has not heard of, and what the host has is the registry's title or, until
\* that has been read back, its own.
NothingForeign ==
    ~renamed /\ excuse \subseteq {"unread"} =>
        /\ ~record.optedOut
        /\ \A m \in Milestones :
            /\ milestone[m].at = "read" /\ record.lastTitle # NoTitle =>
                  /\ milestone[m].title \in {NoTitle, record.lastTitle, HostTitle}
                  /\ record.confirmed => milestone[m].title # HostTitle
            /\ milestone[m].at = "writing" /\ known =>
                  milestone[m].title = record.lastTitle
        /\ known /\ record.lastTitle # NoTitle =>
              \/ \E m \in Milestones : milestone[m].at = "writing"
              \/ hostTitle = record.lastTitle
              \/ hostTitle = HostTitle /\ ~ReadBack

\* A title the user gave to a session with a confirmed one, while no call was
\* under way, is what every later call reads: the registry has opted out or
\* the next decision opts out.
UserIsHeeded ==
    kept /\ "unread" \notin excuse =>
        /\ hostTitle = UserTitle /\ renamed
        /\ known =>
            /\ \A m \in Milestones :
                /\ milestone[m].at # "writing"
                /\ milestone[m].at = "read" => milestone[m].title = UserTitle
            /\ record.optedOut \/ record.confirmed

TitleInv ==
    /\ TitleTypeOK /\ OptOutOnlyByUser /\ QuietTitle
    /\ TitlesAreOwn /\ OneAtATime /\ NothingForeign /\ UserIsHeeded

\* Once a title has been confirmed, the title the user gives the session while
\* no call is under way is never written over, as long as it can be read.
UserTitleKept ==
    [][kept /\ "unread" \notin excuse /\ hostTitle = UserTitle
        => hostTitle' = UserTitle]_titleVars
=============================================================================
