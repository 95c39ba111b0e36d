---------------------------- MODULE WebformCards ----------------------------
(***************************************************************************)
(* webform_cards/js/webform_cards.js: a form whose cards are shown one at  *)
(* a time, in the browser.                                                 *)
(*                                                                         *)
(* JavaScript runs one event at a time: a step is an event and everything  *)
(* its handler does.  Two things take time: the clicks that auto-forward   *)
(* and the arrow keys send after a delay, and the look at a card that      *)
(* follows a click on a radio button.  Both may find another card than the *)
(* one they were meant for.                                                *)
(*                                                                         *)
(* A card has one question, whose kind says what auto-forward can do with  *)
(* it: radio buttons, radio buttons with "Other...", a text field, or more *)
(* than one input.  A condition (#states) hides a card unless an earlier   *)
(* one is answered with "yes".  The server's checks and the validation of  *)
(* the browser are external.                                               *)
(***************************************************************************)
EXTENDS Integers, Sequences

CONSTANTS NumberOfCards,
          Forms,           \* the forms a site may have
          MaxClicks        \* bound: delayed looks and clicks at a time

Cards == 1 .. NumberOfCards
Kind == {"radio", "other", "text", "many"}
Option == {"progress_states", "progress_link", "preview_link", "auto_forward",
           "hide_next", "keyboard", "toggle"}

\* "other" is the choice of "Other..." with an empty text field beside it,
\* "spelled" one with the field filled in.
Answer == {"none", "yes", "no", "other", "spelled"}
Button == {"previous", "next", "submit"}

Form == [kind : [Cards -> Kind], required : SUBSET Cards,
         dependsOn : [Cards -> 0 .. NumberOfCards],   \* 0: no condition
         preview : BOOLEAN, options : SUBSET Option]

ASSUME FormsAssumption ==
  /\ NumberOfCards \in Nat \ {0}
  /\ Forms \subseteq Form
  /\ \A f \in Forms :
       /\ \A c \in Cards : f.dependsOn[c] < c
       /\ "hide_next" \in f.options => "auto_forward" \in f.options

VARIABLES
  form,                    \* the form, as the server renders it
  page,                    \* "cards", "errors", "preview" or "done"
  active,                  \* the active card; the input current_card
  value,                   \* the answers
  hidden,                  \* the cards with "display: none"
  shown,                   \* the buttons one can see ("submit" stands for
                           \* the preview button, too)
  links,                   \* the steps of the progress bar that are links
  showAll,                 \* the class webform-cards-toggle-show
  errors,                  \* the cards in which the server found errors
  looks,                   \* number of looks that are due
  clicks                   \* the delayed clicks on buttons, in their order

timers == <<looks, clicks>>
answers == <<value, hidden>>
vars == <<form, page, active, value, hidden, shown, links, showAll, errors,
          looks, clicks>>

TypeOK ==
  /\ form \in Forms
  /\ page \in {"cards", "errors", "preview", "done"}
  /\ active \in Cards
  /\ value \in [Cards -> Answer]
  /\ hidden \subseteq Cards
  /\ shown \subseteq Button
  /\ links \subseteq Cards
  /\ showAll \in BOOLEAN
  /\ errors \subseteq Cards
  /\ looks \in Nat
  /\ clicks \in Seq({"previous", "next"})

Has(option) == option \in form.options

-----------------------------------------------------------------------------
(***************************************************************************)
(* What the functions read off the page.                                   *)
(***************************************************************************)

\* A condition looks at the answer as it stands.  webform.states.js:257-274
\* clears the inputs of a card that gets hidden and restores them when it is
\* shown again; answers of hidden cards are kept here, which makes a
\* difference only to a condition on a card that has a condition itself.
HiddenBy(v) == {c \in Cards : /\ form.dependsOn[c] # 0
                              /\ v[form.dependsOn[c]] # "yes"}

Earlier(c, h) == {d \in Cards \ h : d < c}
Later(c, h) == {d \in Cards \ h : d > c}

\* What the style sheet displays: the active card, the cards with errors, or
\* all but those hidden by their conditions.
Displayed == IF showAll THEN Cards \ hidden
             ELSE IF page = "errors" THEN errors ELSE {active}

Valid(c) == value[c] # "other" /\ (c \in form.required => value[c] # "none")
Invalid == {c \in Cards \ hidden : ~ Valid(c)}
FormValid == Displayed \cap Invalid = {}

\* Mutant of HidesNext: other inputs on the card are forgotten.
HidesNextUnanswered(c, v, all) == Has("hide_next") /\ ~ all /\ v[c] = "none"

\* hideAutoForwardNextButton(): the card holds nothing but radio buttons (the
\* field beside "Other..." is there once it is chosen), none of them checked.
HidesNext(c, v, all) ==
  /\ Has("hide_next") /\ ~ all
  /\ form.kind[c] \in {"radio", "other"}
  /\ v[c] = "none"

\* trackActions()
Buttons(c, v, h, all) ==
  {b \in Button :
     \/ b = "previous" /\ Earlier(c, h) # {}
     \/ b = "next" /\ Later(c, h) # {} /\ ~ HidesNext(c, v, all)
     \/ b = "submit" /\ Later(c, h) = {}}

\* Mutants of Links: every other card is complete; the links to
\* hidden cards remain.
LinksToOthers(c, h) == {d \in Cards : Has("progress_link") /\ d # c}
LinksToHidden(c, h) == {d \in Cards : Has("progress_link") /\ d < c}

\* trackProgress(): the cards before the active one are complete.
Links(c, h) ==
  {d \in Cards : /\ Has("progress_link") /\ d < c
                 /\ Has("progress_states") => d \notin h}

\* autoForwardEventHandler() sends a click unless it sees more than one name:
\* its list of values is indexed by names, and every() looks at none of them.
Forwards == /\ ~ showAll
            /\ form.kind[active] # "many"
            /\ value[active] \notin {"other", "spelled"}

\* The cards that are hidden when a page is set up: the conditions may be
\* applied afterwards, and only with progress_states does it show then.
HiddenAtFirst(h) == IF Has("progress_states") THEN {h} ELSE {h, {}}

SetActive(c, all) ==
  /\ active' = c
  /\ links' = Links(c, hidden)
  /\ shown' = Buttons(c, value, hidden, all)

\* Mutant of Track: the buttons are forgotten.
TrackProgressOnly ==
  IF Has("progress_states") /\ hidden' # hidden
  THEN links' = Links(active, hidden') /\ UNCHANGED shown
  ELSE UNCHANGED <<links, shown>>

\* The event state:visible of a card that appears or disappears.
Track ==
  IF Has("progress_states") /\ hidden' # hidden
  THEN /\ links' = Links(active, hidden')
       /\ shown' = Buttons(active, value', hidden', showAll)
  ELSE UNCHANGED <<links, shown>>

\* The server's answer to the form: the next page, or cards with errors (its
\* own rules may find more of them).  The old page goes with its timers: a
\* form that is sent by Ajax, whose timers and keydown handler would survive
\* the answer, is not modelled.
Post ==
  /\ \/ /\ Invalid = {}
        /\ page' = IF form.preview THEN "preview" ELSE "done"
        /\ errors' = {}
        /\ shown' = {"previous", "submit"}
     \/ /\ page' = "errors"
        /\ errors' \in SUBSET (Cards \ hidden) \ {{}}
        /\ Invalid \subseteq errors'
        /\ shown' = {"submit"}
  /\ links' = {}
  /\ showAll' = FALSE
  /\ looks' = 0 /\ clicks' = << >>
  /\ UNCHANGED <<form, active, answers>>

-----------------------------------------------------------------------------
(***************************************************************************)
(* The answers.                                                            *)
(***************************************************************************)

AnswersTo(c) ==
  CASE form.kind[c] = "radio" -> {"yes", "no"}
    [] form.kind[c] = "other" ->
         {"yes", "no", "other"} \cup
         (IF value[c] \in {"other", "spelled"} THEN {"spelled"} ELSE {})
    [] OTHER -> {"none", "yes"}

Write(c, v) ==
  /\ c \in Displayed
  /\ v \in AnswersTo(c)
  /\ value' = [value EXCEPT ![c] = v]
  /\ hidden' = HiddenBy(value')
  /\ UNCHANGED <<form, page, active, showAll, errors, clicks>>

HasRoom == looks + Len(clicks) < MaxClicks

\* An answer with the keyboard, or to a question without radio buttons.
Type(c, v) ==
  /\ page = "cards"
  /\ Write(c, v)
  /\ Track
  /\ UNCHANGED looks

\* A click on a radio button or its label, also on the one that is checked.
ClickRadio(c, v) ==
  /\ page = "cards"
  /\ Write(c, v)
  /\ Track
  /\ form.kind[c] \in {"radio", "other"}
  /\ Has("auto_forward") /\ v \notin {"other", "spelled"}
  /\ HasRoom
  /\ looks' = looks + 1

\* No handler is attached to a page with errors.
Correct(c, v) ==
  /\ page = "errors"
  /\ Write(c, v)
  /\ UNCHANGED <<links, shown, looks>>

-----------------------------------------------------------------------------
(***************************************************************************)
(* Auto-forward and the arrow keys: clicks that come later.                *)
(***************************************************************************)

\* Mutant of Look: a timer that goes on.
LookAgain ==
  /\ looks' = looks - 1
  /\ Forwards /\ clicks' = Append(clicks, "next")
  /\ UNCHANGED <<form, page, active, answers, shown, links, showAll, errors>>

\* The field beside "Other..." may still be sliding away when the handler
\* runs, which then sees two names.
Look ==
  /\ looks > 0
  /\ looks' = looks - 1
  /\ \/ Forwards /\ clicks' = Append(clicks, "next")
     \/ (~ Forwards \/ form.kind[active] = "other") /\ UNCHANGED clicks
  /\ UNCHANGED <<form, page, active, answers, shown, links, showAll, errors>>

Later250(button) ==
  /\ HasRoom
  /\ clicks' = Append(clicks, button)
  /\ UNCHANGED <<form, page, active, answers, shown, links, showAll, errors,
                 looks>>

PressEnter == /\ page = "cards" /\ Has("auto_forward") /\ Forwards
              /\ Later250("next")

PressArrow(button) == /\ page \in {"cards", "preview"} /\ Has("keyboard")
                      /\ Later250(button)

-----------------------------------------------------------------------------
(***************************************************************************)
(* The buttons.  rest: the delayed clicks that remain afterwards.          *)
(***************************************************************************)

Stay(rest) ==
  /\ clicks' = rest
  /\ UNCHANGED <<form, page, active, answers, shown, links, showAll, errors,
                 looks>>

Show(c, rest) ==
  /\ SetActive(c, showAll)
  /\ clicks' = rest
  /\ UNCHANGED <<form, page, answers, showAll, errors, looks>>

GoPrevious(rest) ==
  \/ Earlier(active, hidden) = {} /\ Stay(rest)
  \/ \E c \in Earlier(active, hidden) :
       /\ \A d \in Earlier(active, hidden) : d <= c
       /\ Show(c, rest)

GoNext(rest) ==
  \/ ~ FormValid /\ Stay(rest)
  \/ /\ FormValid
     /\ \E c \in Later(active, hidden) :
          /\ \A d \in Later(active, hidden) : c <= d
          /\ Show(c, rest)
  \/ FormValid /\ Later(active, hidden) = {} /\ Post

ClickPrevious == page = "cards" /\ "previous" \in shown /\ GoPrevious(clicks)

ClickNext == page = "cards" /\ "next" \in shown /\ GoNext(clicks)

ClickSubmit == /\ page \in {"cards", "errors"} /\ "submit" \in shown
               /\ FormValid /\ Post

\* A delayed click hits the button whether or not one can see it.
FireClick ==
  /\ page = "cards" /\ clicks # << >>
  /\ \/ Head(clicks) = "previous" /\ GoPrevious(Tail(clicks))
     \/ Head(clicks) = "next" /\ GoNext(Tail(clicks))

ClickLink(c) ==
  /\ page = "cards" /\ ~ showAll       \* the progress bar is not displayed
  /\ c \in links
  /\ Show(c, clicks)

Toggle ==
  /\ page \in {"cards", "errors"} /\ Has("toggle")
  /\ showAll' = ~ showAll
  /\ IF ~ showAll THEN shown' = {"submit"} /\ UNCHANGED <<active, links>>
     ELSE IF page = "cards" THEN SetActive(active, FALSE)
     ELSE UNCHANGED <<active, links, shown>>
  /\ UNCHANGED <<form, page, answers, errors, timers>>

-----------------------------------------------------------------------------
(***************************************************************************)
(* The preview, from which one returns to a card.                          *)
(***************************************************************************)

Return(c) ==
  /\ page' = "cards"
  /\ active' = c
  /\ links' = Links(c, hidden)
  /\ \E h \in HiddenAtFirst(hidden) : shown' = Buttons(c, value, h, FALSE)
  /\ looks' = 0 /\ clicks' = << >>
  /\ UNCHANGED <<form, answers, showAll, errors>>

Confirm == /\ page' = "done" /\ clicks' = << >>
           /\ UNCHANGED <<form, active, answers, shown, links, showAll,
                          errors, looks>>

PreviewBack == page = "preview" /\ Return(active)

PreviewLink(c) ==
  /\ page = "preview"
  /\ Has("progress_link") \/ Has("preview_link")
  /\ c \notin hidden
  /\ Return(c)

PreviewSubmit == page = "preview" /\ Confirm

PreviewFire ==
  /\ page = "preview" /\ clicks # << >>
  /\ \/ Head(clicks) = "previous" /\ Return(active)
     \/ Head(clicks) = "next" /\ Confirm

-----------------------------------------------------------------------------
Init ==
  /\ form \in Forms
  /\ page = "cards"
  /\ active = 1
  /\ value = [c \in Cards |-> "none"]
  /\ hidden = HiddenBy(value)
  /\ \E h \in HiddenAtFirst(hidden) : shown = Buttons(1, value, h, FALSE)
  /\ links = {}
  /\ showAll = FALSE
  /\ errors = {}
  /\ looks = 0
  /\ clicks = << >>

Next ==
  \/ \E c \in Cards, v \in Answer :
       Type(c, v) \/ ClickRadio(c, v) \/ Correct(c, v)
  \/ Look
  \/ PressEnter
  \/ \E button \in {"previous", "next"} : PressArrow(button)
  \/ ClickPrevious \/ ClickNext \/ ClickSubmit \/ FireClick
  \/ \E c \in Cards : ClickLink(c) \/ PreviewLink(c)
  \/ Toggle
  \/ PreviewBack \/ PreviewSubmit \/ PreviewFire

Spec == Init /\ [][Next]_vars

-----------------------------------------------------------------------------
(***************************************************************************)
(* Properties.                                                             *)
(***************************************************************************)

\* Whatever clicks come late, whatever links and conditions do, a visitor who
\* stands at a card has answered all that precede it: a click that comes too
\* late may skip a question, but none that must be answered.  (Where all
\* cards can be shown at once, answers may be taken back anywhere.)
EarlierCardsAnswered ==
  page = "cards" /\ ~ Has("toggle") =>
    \A c \in Earlier(active, hidden) : Valid(c)

\* With progress_states the buttons keep up with the cards that conditions
\* show and hide: the form can be sent where nothing follows and only there.
ButtonsFollowCards ==
  page = "cards" /\ Has("progress_states") /\ ~ showAll =>
    /\ "submit" \in shown <=> Later(active, hidden) = {}
    /\ "previous" \in shown <=> Earlier(active, hidden) # {}

\* No button, link or late click leads to a card that its condition hides.
\* (Without progress_states the links to such cards remain, and the way back
\* from the preview leads to current_card, hidden or not.)
GoesToVisibleCards ==
  [][page = "cards" /\ page' = "cards" /\ active' # active
       /\ Has("progress_states")
     => active' \notin hidden']_vars

\* "The next button will be hidden when the input is not filled and can be
\* auto-forwarded" (WebformEntitySettingsFormForm.php:383): where no button
\* leads on, the card itself does.  Cards with "Other..." are left out: once
\* "Other..." is chosen neither does, until something else shows the button.
CanGoOn ==
  page = "cards" /\ form.kind[active] # "other" =>
    \/ shown \cap {"next", "submit"} # {}
    \/ Has("auto_forward") /\ form.kind[active] = "radio" /\ Forwards

\* "Check that only submit button is visible" after "Show all"
\* (WebformCardsToggleJavaScriptTest.php).
OnlySubmitInShowAll == showAll => shown = {"submit"}
=============================================================================
