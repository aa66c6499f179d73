----------------------------- MODULE OcttoForms -----------------------------
(***************************************************************************)
(* The questions themselves: what the tools accept                         *)
(* (tools/octto/questions.ts), the form the page shows for each type and   *)
(* the answer it makes of the inputs (octto/ui/bundle.ts), and what the    *)
(* agent's summary reads of that answer (tools/octto/extractor.ts).  The   *)
(* page shows the form of the first unanswered question; every message     *)
(* that changes the list draws it anew.  Sessions, owners and the socket   *)
(* are those of OcttoTools and OcttoPage.                                  *)
(***************************************************************************)
EXTENDS Integers, FiniteSets, Sequences, SequencesExt, FiniteSetsExt

CONSTANTS
    FormQuestions,  \* question ids
    FormOptions,    \* option ids
    OptionInputs,   \* what a caller may give for a list of options
    Scales,         \* [min, max]: bounds a caller may give
    FileSets        \* what a user may choose to upload

(* What a caller may give: the shapes of a list argument over the options, *)
(* and scales of whole numbers.                                            *)
ASSUME FormAssumption ==
    /\ Scales # {} /\ Scales \subseteq [min : Int, max : Int]
    /\ \A input \in OptionInputs :
        \/ input.shape = "absent"
        \/ input.shape = "list" /\ input.items \in Seq(FormOptions)
        \/ input.shape = "item" /\ input.item \in FormOptions
        \/ /\ input.shape = "indexed" /\ IsFiniteSet(DOMAIN input.items)
           /\ DOMAIN input.items \subseteq Nat
           /\ \A k \in DOMAIN input.items : input.items[k] \in FormOptions

Listing == {"pick_one", "pick_many", "show_options", "rank", "rate"}
Radio == {"pick_one", "show_options"}
Reviews == {"show_diff", "show_plan", "review_section"}
Uploads == {"ask_image", "ask_file"}
Texts == {"ask_text", "ask_code"}

(* A list argument: an array, one item, or an object with indexes as keys, *)
(* whose items are taken in the order of the indexes.                      *)
Place(keys, k) == Cardinality({j \in keys : j <= k})
KeyAt(keys, i) == CHOOSE k \in keys : Place(keys, k) = i

NormalizeSequence(input) ==
    CASE input.shape = "absent" -> <<>>
      [] input.shape = "list" -> input.items
      [] input.shape = "item" -> <<input.item>>
      [] input.shape = "indexed" ->
           LET keys == DOMAIN input.items
           IN  [i \in 1..Cardinality(keys) |-> input.items[KeyAt(keys, i)]]

(* A config, as far as the types differ: its options, a scale, and one     *)
(* flag (allowCancel, allowFeedback).                                      *)
Config(t, list, sc, b) ==
    [type |-> t, options |-> list, scale |-> sc, flag |-> b]
Blank == [type |-> "none"]

OptionLists == {NormalizeSequence(i) : i \in OptionInputs}
NoScale == CHOOSE sc \in Scales : TRUE

(* What the tools of the four groups make of their arguments. *)
QuestionConfigs ==
    {Config(t, l, NoScale, FALSE) :
        t \in {"pick_one", "rank"}, l \in OptionLists}
    \union {Config(t, l, sc, FALSE) :
        t \in {"pick_many", "rate"}, l \in OptionLists, sc \in Scales}
    \union {Config("confirm", <<>>, NoScale, b) : b \in BOOLEAN}

InputConfigs ==
    {Config(t, <<>>, NoScale, FALSE) : t \in Texts \union Uploads}

PresentationConfigs ==
    {Config(t, <<>>, NoScale, FALSE) : t \in Reviews}
    \union {Config("show_options", l, NoScale, b) :
        l \in OptionLists, b \in BOOLEAN}

QuickConfigs ==
    {Config("thumbs", <<>>, NoScale, FALSE)}
    \union {Config("emoji_react", l, NoScale, FALSE) : l \in OptionLists}
    \union {Config("slider", <<>>, sc, FALSE) : sc \in Scales}

Configs == QuestionConfigs \union InputConfigs \union PresentationConfigs
             \union QuickConfigs

\* Mutant: an empty list of options passes.
ValidOnScale(c) ==
    c.type \in {"rate", "slider"} => c.scale.min < c.scale.max

(* What the tool of the type refuses. *)
Valid(c) ==
    /\ c.type \in Listing => c.options # <<>>
    /\ c.type = "pick_many" => c.scale.min <= c.scale.max
    /\ c.type \in {"rate", "slider"} => c.scale.min < c.scale.max

VARIABLES
    asks,      \* the config of each question, and whether its tool checked it
    onPage,    \* the questions on the page, in order
    form,      \* the inputs of the form that is shown
    drafts,    \* the answers given on the page
    delivered, \* the questions whose answer was sent
    stored,    \* the answers the session has
    readers    \* files being read, for an answer to come

formVars == <<asks, onPage, form, drafts, delivered, stored, readers>>

NoAnswer == [field |-> "none"]
HasDraft(q) == drafts[q] # NoAnswer

(* The page shows the first question that has no answer.                   *)
Unanswered(list, given) == {i \in DOMAIN list : given[list[i]] = NoAnswer}
SomeShown == Unanswered(onPage, drafts) # {}
Shown == onPage[Min(Unanswered(onPage, drafts))]

(* The inputs of a form just drawn. *)
Drawn(c) ==
    [picked |-> {}, order |-> c.options, text |-> FALSE, files |-> {},
     slider |-> (c.scale.min + c.scale.max) \div 2,
     stars |-> [o \in FormOptions |-> {}],
     last |-> [o \in FormOptions |-> 0]]

NothingDrawn == [picked |-> {}]

Render(list, given) ==
    LET open == Unanswered(list, given)
    IN  IF open = {} THEN NothingDrawn ELSE Drawn(asks'[list[Min(open)]].config)

FormInit ==
    /\ asks = [q \in FormQuestions |-> [config |-> Blank, checked |-> FALSE]]
    /\ onPage = <<>> /\ form = NothingDrawn
    /\ drafts = [q \in FormQuestions |-> NoAnswer]
    /\ delivered = {} /\ readers = {}
    /\ stored = [q \in FormQuestions |-> NoAnswer]

(***************************************************************************)
(* A question is pushed by the tool of its type, which checks it, or by    *)
(* push_question or with the session, which do not.  The page appends it   *)
(* and draws itself anew.                                                  *)
(***************************************************************************)
FormPushed(q, c, checked) ==
    /\ asks[q].config = Blank
    /\ checked => Valid(c)
    /\ asks' = [asks EXCEPT ![q] = [config |-> c, checked |-> checked]]
    /\ onPage' = Append(onPage, q)
    /\ form' = Render(onPage', drafts)
    /\ UNCHANGED <<drafts, delivered, stored, readers>>

FormCancelled(q) ==
    /\ q \in Range(onPage) \ delivered /\ stored[q] = NoAnswer
    /\ \E i \in DOMAIN onPage : onPage[i] = q /\ onPage' = RemoveAt(onPage, i)
    /\ drafts' = [drafts EXCEPT ![q] = NoAnswer]
    /\ asks' = asks
    /\ form' = Render(onPage', drafts')
    /\ UNCHANGED <<delivered, stored, readers>>

(***************************************************************************)
(* The user works on the form of question q.  A star marks itself and the  *)
(* ones below it.                                                          *)
(***************************************************************************)
Picks(c, o) ==
    /\ o \in Range(c.options)
    /\ \/ c.type \in Radio /\ form' = [form EXCEPT !.picked = {o}]
       \/ /\ c.type = "pick_many"
          /\ form' = [form EXCEPT !.picked =
                        IF o \in @ THEN @ \ {o} ELSE @ \union {o}]

Drags(c) ==
    /\ c.type = "rank" /\ Len(form.order) > 1
    /\ form' = [form EXCEPT !.order = Append(Tail(@), Head(@))]

Stars(c) == (IF c.scale.min = 0 THEN 1 ELSE c.scale.min)..
            (IF c.scale.max = 0 THEN 5 ELSE c.scale.max)

SetRating(c, o, v) ==
    /\ c.type = "rate" /\ o \in Range(c.options) /\ v \in Stars(c)
    /\ form' = [form EXCEPT !.stars[o] = {w \in Stars(c) : w <= v},
                            !.last[o] = v]

Slides(c, v) ==
    /\ c.type = "slider" /\ v \in c.scale.min..c.scale.max
    /\ form' = [form EXCEPT !.slider = v]

Writes(c) ==
    /\ \/ c.type \in Texts \union Reviews
       \/ c.type = "show_options" /\ c.flag
    /\ form' = [form EXCEPT !.text = TRUE]

Chooses(c, fs) ==
    /\ c.type \in Uploads /\ form' = [form EXCEPT !.files = fs]

UserInputs ==
    /\ SomeShown
    /\ LET c == asks[Shown].config
       IN  \/ \E o \in FormOptions : Picks(c, o)
           \/ Drags(c) \/ Writes(c)
           \/ \E o \in FormOptions, v \in Stars(c) : SetRating(c, o, v)
           \/ \E v \in c.scale.min..c.scale.max : Slides(c, v)
           \/ \E fs \in FileSets : Chooses(c, fs)
    /\ UNCHANGED <<asks, onPage, drafts, delivered, stored, readers>>

(***************************************************************************)
(* The answer the page makes of the form when its button is pressed.  A    *)
(* radio group with nothing selected is refused.                           *)
(***************************************************************************)
\* Mutant: code is sent as text.
FieldOfText(t) ==
    CASE t \in {"pick_one", "pick_many", "show_options"} -> "selected"
      [] t \in {"confirm", "thumbs"} -> "choice"
      [] t \in Reviews -> "decision"
      [] t = "emoji_react" -> "emoji"
      [] t \in Texts -> "text"
      [] t = "slider" -> "value"
      [] t = "rank" -> "ranking"
      [] t = "rate" -> "ratings"
      [] t = "ask_image" -> "images"
      [] t = "ask_file" -> "files"

Field(t) ==
    CASE t \in {"pick_one", "pick_many", "show_options"} -> "selected"
      [] t \in {"confirm", "thumbs"} -> "choice"
      [] t \in Reviews -> "decision"
      [] t = "emoji_react" -> "emoji"
      [] t = "ask_text" -> "text"
      [] t = "ask_code" -> "code"
      [] t = "slider" -> "value"
      [] t = "rank" -> "ranking"
      [] t = "rate" -> "ratings"
      [] t = "ask_image" -> "images"
      [] t = "ask_file" -> "files"

Buttons(c) ==
    CASE c.type = "confirm" ->
           {"yes", "no"} \union (IF c.flag THEN {"cancel"} ELSE {})
      [] c.type = "thumbs" -> {"up", "down"}
      [] c.type = "emoji_react" -> Range(c.options)
      [] c.type = "show_diff" -> {"approve", "reject", "edit"}
      [] c.type \in Reviews \ {"show_diff"} -> {"approve", "revise"}
      [] c.type \in Radio -> IF form.picked = {} THEN {} ELSE {"submit"}
      [] c.type \in Uploads -> IF form.files = {} THEN {} ELSE {"submit"}
      [] OTHER -> {"submit"}

SubmitRate(c) ==
    [o \in {p \in Range(c.options) : form.stars[p] # {}} |->
        Min(form.stars[o])]

SubmitRank(c) ==
    {[id |-> form.order[i], rank |-> i] : i \in DOMAIN form.order}

Value(c, button) ==
    CASE c.type \in Radio \union {"pick_many"} -> form.picked
      [] c.type \in Texts -> form.text
      [] c.type = "slider" -> form.slider
      [] c.type = "rank" -> SubmitRank(c)
      [] c.type = "rate" -> SubmitRate(c)
      [] c.type \in Uploads -> form.files
      [] OTHER -> button

Made(c, button) ==
    [field |-> Field(c.type), value |-> Value(c, button),
     feedback |-> c.type \in Reviews \union {"show_options"} /\ form.text]

(* submitAnswer: what is no longer on the page gets no answer. *)
Submitted(q, answer) ==
    /\ drafts' = IF q \in Range(onPage) THEN [drafts EXCEPT ![q] = answer]
                 ELSE drafts
    /\ delivered' = delivered \ {q} /\ asks' = asks
    /\ form' = Render(onPage, drafts')

UserSubmits ==
    /\ SomeShown
    /\ LET q == Shown
           c == asks[q].config
       IN  \E b \in Buttons(c) :
             IF c.type \in Uploads
             THEN /\ readers' = readers \union {[of |-> q, made |-> Made(c, b)]}
                  /\ UNCHANGED <<asks, form, drafts, delivered>>
             ELSE Submitted(q, Made(c, b)) /\ UNCHANGED readers
    /\ UNCHANGED <<onPage, stored>>

FilesRead ==
    /\ \E r \in readers : readers' = readers \ {r} /\ Submitted(r.of, r.made)
    /\ UNCHANGED <<onPage, stored>>

EditAnswer(q) ==
    /\ q \in Range(onPage) \ delivered /\ HasDraft(q)
    /\ drafts' = [drafts EXCEPT ![q] = NoAnswer] /\ asks' = asks
    /\ form' = Render(onPage, drafts')
    /\ UNCHANGED <<onPage, delivered, stored, readers>>

(* The drafts are sent, and the session keeps the first answer to each. *)
DraftsSent ==
    LET sent == {q \in Range(onPage) \ delivered : HasDraft(q)}
    IN  /\ sent # {} /\ delivered' = delivered \union sent
        /\ stored' = [q \in FormQuestions |->
             IF q \in sent /\ stored[q] = NoAnswer THEN drafts[q]
             ELSE stored[q]]
        /\ asks' = asks /\ form' = Render(onPage, drafts)
        /\ UNCHANGED <<onPage, drafts, readers>>

(* A reconnect, or an answered card that is opened or closed: the page is  *)
(* drawn anew, and what was entered and not submitted is gone.             *)
Redrawn ==
    /\ onPage # <<>> /\ asks' = asks /\ form' = Render(onPage, drafts)
    /\ UNCHANGED <<onPage, drafts, delivered, stored, readers>>

FormNext ==
    \/ \E q \in FormQuestions, c \in Configs, b \in BOOLEAN :
         FormPushed(q, c, b)
    \/ \E q \in FormQuestions : FormCancelled(q) \/ EditAnswer(q)
    \/ UserInputs \/ UserSubmits \/ FilesRead \/ DraftsSent \/ Redrawn

FormSpec == FormInit /\ [][FormNext]_formVars
-----------------------------------------------------------------------------
(* What the summary for the agent reads of an answer; an upload's is fixed. *)
SummaryReads(t) ==
    CASE t \in {"pick_one", "pick_many", "show_options"} -> "selected"
      [] t \in {"confirm", "thumbs"} -> "choice"
      [] t = "emoji_react" -> "emoji"
      [] t = "ask_text" -> "text"
      [] t = "ask_code" -> "code"
      [] t = "slider" -> "value"
      [] t = "rank" -> "ranking"
      [] t = "rate" -> "ratings"
      [] t \in Reviews -> "decision"
      [] OTHER -> "nothing"

(* What the page's own view of an answered question reads. *)
AnsweredChoiceReads(t) ==
    CASE t \in {"pick_one", "pick_many"} -> "selected"
      [] t \in {"confirm", "thumbs"} -> "choice"
      [] t = "ask_text" -> "text"
      [] t = "slider" -> "value"
      [] t \in {"review_section", "show_plan"} -> "decision"

AnsweredMoreReads(t) ==
    CASE t = "show_options" -> {"selected"}
      [] t = "show_diff" -> {"decision"}
      [] t = "rank" -> {"ranking"}
      [] t = "rate" -> {"ratings"}
      [] t = "ask_code" -> {"code"}
      [] t \in Uploads -> {"images", "files"}
      [] t = "emoji_react" -> {"emoji"}

AnsweredReads(t) ==
    IF t \in {"pick_one", "pick_many", "confirm", "thumbs", "ask_text",
              "slider", "review_section", "show_plan"}
    THEN {AnsweredChoiceReads(t)} ELSE AnsweredMoreReads(t)

-----------------------------------------------------------------------------
FormTypeOK ==
    /\ asks \in [FormQuestions -> [config : Configs \cup {Blank}, checked : BOOLEAN]]
    /\ onPage \in Seq(FormQuestions) /\ IsInjective(onPage)
    /\ DOMAIN drafts = FormQuestions /\ DOMAIN stored = FormQuestions
    /\ delivered \subseteq FormQuestions
    /\ \A r \in readers : r.of \in FormQuestions

(* No answer breaks the summary or the page's view of it: the field each   *)
(* reads for the type of the question is the one the form of that type     *)
(* fills (extractor.ts:58-94, bundle.ts:1469-1697, 1269-1430).             *)
Readable(c, a) ==
    /\ SummaryReads(c.type) \in {a.field, "nothing"}
    /\ a.field \in AnsweredReads(c.type)

AnswersAreReadable ==
    \A q \in FormQuestions :
        stored[q] # NoAnswer => Readable(asks[q].config, stored[q])

(* An answer is about what was asked: the options of this question, each   *)
(* ranked once, and ratings on its scale, whatever the page showed before  *)
(* or after (bundle.ts:1269-1350).                                         *)
Fits(c, v) ==
    /\ c.type \in Radio => Cardinality(v) = 1 /\ v \subseteq Range(c.options)
    /\ c.type = "rank" =>
         /\ {e.id : e \in v} = Range(c.options)
         /\ {e.rank : e \in v} = 1..Len(c.options)
    /\ c.type = "rate" =>
         /\ DOMAIN v \subseteq Range(c.options)
         /\ \A o \in DOMAIN v : v[o] \in Stars(c)

AnswersFitTheQuestion ==
    \A q \in FormQuestions :
        stored[q] # NoAnswer => Fits(asks[q].config, stored[q].value)

(* So do the answers that are still on the page or being read, and a       *)
(* question that was not asked has none of them.                           *)
DraftsFit ==
    /\ \A q \in FormQuestions : HasDraft(q) =>
         Readable(asks[q].config, drafts[q]) /\ Fits(asks[q].config, drafts[q].value)
    /\ \A r \in readers :
         Readable(asks[r.of].config, r.made) /\ Fits(asks[r.of].config, r.made.value)
    /\ \A q \in FormQuestions : asks[q].config = Blank =>
         /\ stored[q] = NoAnswer /\ ~ HasDraft(q) /\ q \notin Range(onPage)
         /\ \A r \in readers : r.of # q

(* The form on the page is the form of the question it shows.              *)
Forms ==
    [picked : SUBSET FormOptions, order : Seq(FormOptions), text : BOOLEAN,
     files : {{}} \cup FileSets, slider : Int,
     stars : [FormOptions -> SUBSET Int], last : [FormOptions -> Int]]

FormOf(f, c) ==
    /\ f \in Forms /\ f.picked \subseteq Range(c.options)
    /\ c.type \in Radio => \A o, p \in f.picked : o = p
    /\ c.type = "rank" =>
         /\ Len(f.order) = Len(c.options)
         /\ Range(f.order) = Range(c.options)
    /\ c.type = "rate" =>
         \A o \in Range(c.options) : f.stars[o] # {} =>
             /\ f.stars[o] \subseteq Stars(c)
             /\ \E w \in f.stars[o] : \A x \in f.stars[o] : w <= x

FormFits == SomeShown => FormOf(form, asks[Shown].config)

(* What a tool has checked is valid.                                       *)
CheckedIsValid ==
    \A q \in FormQuestions : asks[q].checked => Valid(asks[q].config)

(* The queue never sticks: whoever is asked by way of a question's own     *)
(* tool can answer, so the questions behind it are reached.  A list of     *)
(* emojis that is given but empty is the one thing the tools let through   *)
(* (questions.ts:42-45, bundle.ts:1201-1210).                              *)
HeadCanBeAnswered ==
    SomeShown =>
        LET a == asks[Shown]
        IN  (a.checked /\ a.config.type # "emoji_react") =>
              \/ Buttons(a.config) # {}
              \/ a.config.type \in Uploads
              \/ a.config.options # <<>>

FormInv == AnswersAreReadable /\ AnswersFitTheQuestion /\ HeadCanBeAnswered
           /\ FormTypeOK /\ FormFits /\ DraftsFit /\ CheckedIsValid

(* The rating the page would send for an option is the star the user       *)
(* clicked last ("ratings: Record<string, number> where key is option id,  *)
(* value is rating", questions.ts:149).                                    *)
RatingsAreTheClicks ==
    SomeShown =>
        LET c == asks[Shown].config
        IN  c.type = "rate" =>
              \A o \in DOMAIN SubmitRate(c) :
                  SubmitRate(c)[o] = form.last[o]
=============================================================================
