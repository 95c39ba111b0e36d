------------------------ MODULE WebformCards_proofs ------------------------
(***************************************************************************)
(* Theorems about WebformCards.tla.                                        *)
(***************************************************************************)
EXTENDS WebformCards, TLAPS

\* What a form looks like.
LEMMA FormType ==
  ASSUME TypeOK
  PROVE  /\ form \in Form
         /\ \A c \in Cards : form.dependsOn[c] \in Int /\ form.dependsOn[c] < c
<1>1. form \in Forms
  BY DEF TypeOK
<1> QED
  BY <1>1, FormsAssumption DEF Form, Cards

-----------------------------------------------------------------------------
(***************************************************************************)
(* Types.                                                                  *)
(***************************************************************************)

LEMMA NoClicks == << >> \in Seq({"previous", "next"})
OBVIOUS

LEMMA PostTypes ==
  ASSUME TypeOK, Post
  PROVE  TypeOK'
<1>1. clicks' \in Seq({"previous", "next"}) /\ looks' \in Nat
  BY NoClicks DEF Post
<1>2. /\ page' \in {"cards", "errors", "preview", "done"}
      /\ errors' \subseteq Cards /\ shown' \subseteq Button
  BY DEF Post, TypeOK, Button
<1> QED
  BY <1>1, <1>2 DEF TypeOK, Post, answers

LEMMA ShowTypes ==
  ASSUME TypeOK, NEW c \in Cards,
         NEW rest \in Seq({"previous", "next"}), Show(c, rest)
  PROVE  TypeOK'
BY DEF TypeOK, Show, SetActive, Links, Buttons, answers, Cards, Button

LEMMA StayTypes ==
  ASSUME TypeOK, NEW rest \in Seq({"previous", "next"}), Stay(rest)
  PROVE  TypeOK'
BY DEF TypeOK, Stay, answers

LEMMA GoTypes ==
  ASSUME TypeOK, NEW rest \in Seq({"previous", "next"}),
         GoPrevious(rest) \/ GoNext(rest)
  PROVE  TypeOK'
<1>1. Earlier(active, hidden) \subseteq Cards /\ Later(active, hidden) \subseteq Cards
  BY DEF Earlier, Later
<1> QED
  BY <1>1, PostTypes, ShowTypes, StayTypes DEF GoPrevious, GoNext

LEMMA ReturnTypes ==
  ASSUME TypeOK, NEW c \in Cards, Return(c)
  PROVE  TypeOK'
<1>1. links' \subseteq Cards /\ shown' \subseteq Button
  BY DEF Return, Links, Buttons
<1>2. clicks' \in Seq({"previous", "next"}) /\ looks' \in Nat
  BY NoClicks DEF Return
<1> QED
  BY <1>1, <1>2 DEF TypeOK, Return, answers

LEMMA TypeInductive ==
  ASSUME TypeOK, [Next]_vars
  PROVE  TypeOK'
<1>1. ASSUME NEW c \in Cards, NEW v \in Answer,
             Type(c, v) \/ ClickRadio(c, v) \/ Correct(c, v)
      PROVE  TypeOK'
  <2>1. Write(c, v)
    BY <1>1 DEF Type, ClickRadio, Correct
  <2>2. value' \in [Cards -> Answer] /\ hidden' \subseteq Cards
    BY <2>1 DEF Write, TypeOK, HiddenBy
  <2>3. links' \subseteq Cards /\ shown' \subseteq Button
    BY <1>1 DEF Type, ClickRadio, Correct, Track, Links, Buttons, TypeOK
  <2>4. looks' \in Nat
    BY <1>1 DEF Type, ClickRadio, Correct, TypeOK
  <2> QED
    BY <2>1, <2>2, <2>3, <2>4 DEF Write, TypeOK
<1>2. CASE Look
  <2>1. looks' \in Nat
    BY <1>2 DEF Look, TypeOK
  <2>2. clicks' \in Seq({"previous", "next"})
    BY <1>2 DEF Look, TypeOK
  <2> QED
    BY <1>2, <2>1, <2>2 DEF Look, TypeOK, answers
<1>3. ASSUME NEW button \in {"previous", "next"}, Later250(button)
      PROVE  TypeOK'
  BY <1>3 DEF Later250, TypeOK, answers
<1>4. CASE PressEnter
  BY <1>4, <1>3 DEF PressEnter
<1>5. ASSUME NEW button \in {"previous", "next"}, PressArrow(button)
      PROVE  TypeOK'
  BY <1>5, <1>3 DEF PressArrow
<1>6. CASE ClickPrevious \/ ClickNext
  BY <1>6, GoTypes DEF ClickPrevious, ClickNext, TypeOK
<1>7. CASE ClickSubmit
  BY <1>7, PostTypes DEF ClickSubmit
<1>8. CASE FireClick
  <2>1. Tail(clicks) \in Seq({"previous", "next"})
    BY <1>8 DEF FireClick, TypeOK
  <2> QED
    BY <1>8, <2>1, GoTypes DEF FireClick
<1>9. ASSUME NEW c \in Cards, ClickLink(c) \/ PreviewLink(c)
      PROVE  TypeOK'
  BY <1>9, ShowTypes, ReturnTypes DEF ClickLink, PreviewLink, TypeOK
<1>10. CASE Toggle
  <2>1. active' \in Cards /\ links' \subseteq Cards /\ shown' \subseteq Button
    BY <1>10 DEF Toggle, SetActive, Links, Buttons, TypeOK, Button
  <2> QED
    BY <1>10, <2>1 DEF Toggle, TypeOK, answers, timers
<1>11. CASE PreviewBack \/ PreviewSubmit \/ PreviewFire
  BY <1>11, ReturnTypes, NoClicks
  DEF PreviewBack, PreviewSubmit, PreviewFire, Confirm, TypeOK, answers
<1>12. CASE UNCHANGED vars
  BY <1>12 DEF vars, TypeOK
<1> QED
  BY <1>1, <1>2, <1>4, <1>5, <1>6, <1>7, <1>8, <1>9, <1>10, <1>11, <1>12 DEF Next

LEMMA InitTypes ==
  ASSUME Init
  PROVE  TypeOK
<1>1. 1 \in Cards
  BY FormsAssumption DEF Cards
<1>2. shown \subseteq Button /\ hidden \subseteq Cards
  BY DEF Init, Buttons, HiddenBy
<1>3. value \in [Cards -> Answer]
  BY DEF Init, Answer
<1> QED
  BY <1>1, <1>2, <1>3, NoClicks DEF Init, TypeOK

\* The page, its buttons, links and timers keep their types.
THEOREM TypeCorrect == Spec => []TypeOK
<1>1. Init => TypeOK
  BY InitTypes
<1>2. TypeOK /\ [Next]_vars => TypeOK'
  BY TypeInductive
<1> QED
  BY <1>1, <1>2, PTL DEF Spec

-----------------------------------------------------------------------------
(***************************************************************************)
(* Nothing is passed over.                                                 *)
(***************************************************************************)

\* What the earlier cards owe their answers to: links lead back only, what is
\* hidden follows from the answers, and the preview comes after all of them.
Passed ==
  /\ hidden = HiddenBy(value)
  /\ showAll => Has("toggle")
  /\ \A c \in links :
       /\ c < active
       /\ Has("progress_states") => c \notin hidden
  /\ page # "cards" => links = {}
  /\ page = "preview" => Invalid = {}
  /\ EarlierCardsAnswered

LEMMA PostPassed ==
  ASSUME TypeOK, Passed, Post
  PROVE  Passed'
<1>1. page' = "preview" => Invalid' = {}
  BY DEF Post, Invalid, Valid, answers
<1>2. page' # "cards" /\ links' = {} /\ showAll' = FALSE
  BY DEF Post
<1>3. hidden' = HiddenBy(value)'
  BY DEF Passed, Post, HiddenBy, answers
<1> QED
  BY <1>1, <1>2, <1>3 DEF Passed, EarlierCardsAnswered

LEMMA StayPassed ==
  ASSUME Passed, UNCHANGED <<form, page, active, answers, links, showAll>>
  PROVE  Passed'
BY DEF Passed, EarlierCardsAnswered, Earlier, Valid, Invalid, HiddenBy, Has,
       answers

\* A card becomes active if those before it are answered.
LEMMA ActivePassed ==
  ASSUME TypeOK, Passed, NEW c \in Cards,
         ~ Has("toggle") => \A d \in Earlier(c, hidden) : Valid(d),
         page' = "cards", active' = c, links' = Links(c, hidden),
         showAll' => Has("toggle"), UNCHANGED <<form, answers>>
  PROVE  Passed'
<1>1. hidden' = HiddenBy(value)'
  BY DEF Passed, HiddenBy, answers
<1>2. showAll' => Has("toggle")'
  BY DEF Has
<1>3. \A d \in links' : d < active' /\ (Has("progress_states")' => d \notin hidden')
  BY DEF Links, Has, answers
<1>4. EarlierCardsAnswered'
  BY DEF EarlierCardsAnswered, Earlier, Valid, Has, answers
<1> QED
  BY <1>1, <1>2, <1>3, <1>4 DEF Passed

LEMMA GoPassed ==
  ASSUME TypeOK, Passed, page = "cards", NEW rest,
         GoPrevious(rest) \/ GoNext(rest)
  PROVE  Passed'
<1>1. ASSUME NEW c \in Cards, Show(c, rest),
             ~ Has("toggle") => \A d \in Earlier(c, hidden) : Valid(d)
      PROVE  Passed'
  BY <1>1, ActivePassed DEF Show, SetActive, Passed
<1>2. CASE Stay(rest)
  BY <1>2, StayPassed DEF Stay
<1>3. ASSUME NEW c \in Earlier(active, hidden), Show(c, rest)
      PROVE  Passed'
  <2>1. c \in Cards /\ Earlier(c, hidden) \subseteq Earlier(active, hidden)
    BY DEF Earlier, Cards, TypeOK
  <2> QED
    BY <1>1, <1>3, <2>1 DEF Passed, EarlierCardsAnswered
<1>4. ASSUME FormValid, NEW c \in Later(active, hidden),
             \A d \in Later(active, hidden) : c <= d, Show(c, rest)
      PROVE  Passed'
  <2>1. c \in Cards
    BY DEF Later
  <2>2. ASSUME ~ Has("toggle"), NEW d \in Earlier(c, hidden)
        PROVE  Valid(d)
    <3>1. d \in Cards \ hidden /\ d < c
      BY <2>2 DEF Earlier
    <3>2. CASE d < active
      BY <2>2, <3>1, <3>2 DEF Passed, EarlierCardsAnswered, Earlier
    <3>3. CASE d = active
      <4>1. d \in Displayed
        BY <2>2, <3>3 DEF Displayed, Passed
      <4> QED
        BY <1>4, <3>1, <4>1 DEF FormValid, Invalid
    <3>4. CASE active < d
      BY <1>4, <2>1, <3>1, <3>4 DEF Later, Cards
    <3> QED
      BY <3>1, <3>2, <3>3, <3>4 DEF Cards, TypeOK
  <2> QED
    BY <1>1, <1>4, <2>1, <2>2
<1> QED
  BY <1>2, <1>3, <1>4, PostPassed DEF GoPrevious, GoNext

LEMMA ReturnPassed ==
  ASSUME TypeOK, Passed, page = "preview", NEW c \in Cards, Return(c)
  PROVE  Passed'
<1>1. \A d \in Earlier(c, hidden) : Valid(d)
  BY DEF Passed, Invalid, Earlier
<1> QED
  BY <1>1, ActivePassed DEF Return, Passed, answers

\* The answer to a card shows and hides later cards only.
LEMMA WritePassed ==
  ASSUME TypeOK, Passed, NEW c \in Cards, NEW v \in Answer, Write(c, v),
         (page = "cards" /\ Track) \/ (page = "errors" /\ UNCHANGED links)
  PROVE  Passed'
<1>1. hidden' = HiddenBy(value)'
  BY DEF Write, HiddenBy
<1>2. showAll' => Has("toggle")'
  BY DEF Write, Passed, Has
<1>3. /\ \A d \in links' : d < active' /\ (Has("progress_states")' => d \notin hidden')
      /\ page' # "cards" => links' = {}
  <2>1. CASE page = "errors" /\ UNCHANGED links
    BY <2>1 DEF Passed, Write
  <2>2. CASE Track /\ links' = links /\ (Has("progress_states") => hidden' = hidden)
    BY <2>2 DEF Passed, Write, Has
  <2>3. CASE page = "cards" /\ links' = Links(active, hidden')
    BY <2>3 DEF Links, Write, Has
  <2> QED
    BY <2>1, <2>2, <2>3 DEF Track
<1>4. EarlierCardsAnswered'
  <2>1. SUFFICES ASSUME page = "cards", ~ Has("toggle"),
                        NEW d \in Cards, d \notin hidden', d < active
                 PROVE  Valid(d)'
    BY DEF EarlierCardsAnswered, Earlier, Write, Has
  <2>2. c = active
    BY <2>1 DEF Write, Displayed, Passed
  <2>3. form.dependsOn[d] # c /\ d # c
    BY <2>1, <2>2, FormType DEF Cards, TypeOK
  <2>4. value'[d] = value[d]
    BY <2>3 DEF Write, TypeOK
  <2>5. d \notin hidden
    <3> DEFINE e == form.dependsOn[d]
    <3>1. e \in 0 .. NumberOfCards /\ e # c
      BY <2>3, FormType DEF Form
    <3>2. e # 0 => value'[e] = value[e]
      <4>1. e # 0 => e \in Cards
        BY <3>1, FormsAssumption DEF Cards
      <4> QED
        BY <3>1, <4>1 DEF Write, TypeOK
    <3> QED
      BY <2>1, <3>2, <1>1 DEF Passed, HiddenBy, Write
  <2>6. Valid(d)
    BY <2>1, <2>5 DEF Passed, EarlierCardsAnswered, Earlier
  <2> QED
    BY <2>4, <2>6 DEF Valid, Write
<1>5. page' # "preview"
  BY DEF Write
<1> QED
  BY <1>1, <1>2, <1>3, <1>4, <1>5 DEF Passed

LEMMA PassedInductive ==
  ASSUME TypeOK, Passed, [Next]_vars
  PROVE  Passed'
<1>1. ASSUME NEW c \in Cards, NEW v \in Answer,
             Type(c, v) \/ ClickRadio(c, v) \/ Correct(c, v)
      PROVE  Passed'
  BY <1>1, WritePassed DEF Type, ClickRadio, Correct
<1>2. CASE Look
  BY <1>2, StayPassed DEF Look
<1>3. ASSUME NEW button, Later250(button)
      PROVE  Passed'
  BY <1>3, StayPassed DEF Later250
<1>4. CASE PressEnter
  BY <1>4, <1>3 DEF PressEnter
<1>5. ASSUME NEW button \in {"previous", "next"}, PressArrow(button)
      PROVE  Passed'
  BY <1>5, <1>3 DEF PressArrow
<1>6. CASE ClickPrevious \/ ClickNext \/ FireClick
  BY <1>6, GoPassed DEF ClickPrevious, ClickNext, FireClick
<1>7. CASE ClickSubmit
  BY <1>7, PostPassed DEF ClickSubmit
<1>8. ASSUME NEW c \in Cards, ClickLink(c)
      PROVE  Passed'
  <2>1. ~ Has("toggle") => \A d \in Earlier(c, hidden) : Valid(d)
    <3>1. c < active
      BY <1>8 DEF ClickLink, Passed
    <3>2. Earlier(c, hidden) \subseteq Earlier(active, hidden)
      BY <3>1 DEF Earlier, Cards, TypeOK
    <3> QED
      BY <1>8, <3>2 DEF ClickLink, Passed, EarlierCardsAnswered
  <2> QED
    BY <1>8, <2>1, ActivePassed DEF ClickLink, Show, SetActive, Passed
<1>9. ASSUME NEW c \in Cards, PreviewLink(c)
      PROVE  Passed'
  BY <1>9, ReturnPassed DEF PreviewLink
<1>10. CASE Toggle
  <2>1. Has("toggle") /\ UNCHANGED <<form, page, answers>>
    BY <1>10 DEF Toggle
  <2>2. CASE page = "cards" /\ showAll
    BY <1>10, <2>1, <2>2, ActivePassed DEF Toggle, SetActive, TypeOK
  <2>3. CASE UNCHANGED <<active, links>>
    BY <2>1, <2>3 DEF Passed, EarlierCardsAnswered, HiddenBy, Invalid, Valid, Has, answers
  <2> QED
    BY <1>10, <2>2, <2>3 DEF Toggle
<1>11. CASE PreviewBack
  BY <1>11, ReturnPassed DEF PreviewBack, TypeOK
<1>12. CASE page = "preview" /\ Confirm
  BY <1>12 DEF Confirm, Passed, EarlierCardsAnswered, HiddenBy, Has, answers
<1>13. CASE PreviewSubmit \/ PreviewFire
  BY <1>12, <1>13, ReturnPassed DEF PreviewSubmit, PreviewFire, TypeOK
<1>14. CASE UNCHANGED vars
  BY <1>14, StayPassed DEF vars, answers
<1> QED
  BY <1>1, <1>2, <1>4, <1>5, <1>6, <1>7, <1>8, <1>9, <1>10, <1>11, <1>13, <1>14
  DEF Next

LEMMA InitPassed ==
  ASSUME Init
  PROVE  Passed
<1>1. Earlier(active, hidden) = {}
  BY FormsAssumption DEF Init, Earlier, Cards
<1> QED
  BY <1>1 DEF Init, Passed, EarlierCardsAnswered

LEMMA AlwaysPassed == Spec => [](TypeOK /\ Passed)
<1>1. Init => TypeOK /\ Passed
  BY InitTypes, InitPassed
<1>2. TypeOK /\ Passed /\ [Next]_vars => (TypeOK /\ Passed)'
  BY TypeInductive, PassedInductive
<1> QED
  BY <1>1, <1>2, PTL DEF Spec

\* Whatever the form, its options and the clicks that come late: a visitor who
\* stands at a card has answered those that precede it.
THEOREM NothingPassedOver == Spec => []EarlierCardsAnswered
<1>1. TypeOK /\ Passed => EarlierCardsAnswered
  BY DEF Passed
<1> QED
  BY <1>1, AlwaysPassed, PTL

-----------------------------------------------------------------------------
(***************************************************************************)
(* Where moves lead.                                                       *)
(***************************************************************************)

LEMMA MoveIsVisible ==
  ASSUME TypeOK, Passed, [Next]_vars, page = "cards", page' = "cards",
         active' # active, Has("progress_states")
  PROVE  active' \notin hidden'
<1>1. ASSUME NEW c, NEW rest, Show(c, rest), c \notin hidden
      PROVE  active' \notin hidden'
  BY <1>1 DEF Show, SetActive, answers
<1>2. ASSUME NEW rest, GoPrevious(rest) \/ GoNext(rest)
      PROVE  active' \notin hidden'
  BY <1>1, <1>2 DEF GoPrevious, GoNext, Earlier, Later, Stay, Post
<1>3. ASSUME NEW c \in Cards, ClickLink(c)
      PROVE  active' \notin hidden'
  BY <1>1, <1>3 DEF ClickLink, Passed
<1>4. CASE ClickPrevious \/ ClickNext \/ FireClick
  BY <1>2, <1>4 DEF ClickPrevious, ClickNext, FireClick
<1>5. \A c \in Cards, v \in Answer : ~ (Type(c, v) \/ ClickRadio(c, v) \/ Correct(c, v))
  BY DEF Type, ClickRadio, Correct, Write
<1>6. ~ Look /\ ~ PressEnter /\ ~ ClickSubmit /\ ~ Toggle
  BY DEF Look, PressEnter, Later250, ClickSubmit, Post, Toggle, SetActive
<1>7. \A button : ~ PressArrow(button)
  BY DEF PressArrow, Later250
<1>8. /\ \A c : ~ PreviewLink(c)
      /\ ~ PreviewBack /\ ~ PreviewSubmit /\ ~ PreviewFire
  BY DEF PreviewLink, PreviewBack, PreviewSubmit, PreviewFire
<1>9. ~ UNCHANGED vars
  BY DEF vars
<1> QED
  BY <1>3, <1>4, <1>5, <1>6, <1>7, <1>8, <1>9 DEF Next

\* With progress_states no button, link or late click leads to a card that its
\* condition hides.
THEOREM MovesToVisibleCards == Spec => GoesToVisibleCards
<1>1. TypeOK /\ Passed /\ [Next]_vars =>
        [page = "cards" /\ page' = "cards" /\ active' # active
           /\ Has("progress_states")
         => active' \notin hidden']_vars
  BY MoveIsVisible
<1> QED
  BY <1>1, AlwaysPassed, PTL DEF Spec, GoesToVisibleCards

-----------------------------------------------------------------------------
(***************************************************************************)
(* The buttons keep up.                                                    *)
(***************************************************************************)

LEMMA ButtonsKeepUp ==
  ASSUME ButtonsFollowCards, [Next]_vars
  PROVE  ButtonsFollowCards'
<1>1. ASSUME NEW v, NEW h, NEW all, page' = "cards", UNCHANGED form, hidden' = h,
             shown' = Buttons(active', v, h, all)
      PROVE  ButtonsFollowCards'
  BY <1>1 DEF ButtonsFollowCards, Buttons, Button, Earlier, Later, Has
<1>2. ASSUME UNCHANGED <<form, page, active, hidden, shown, showAll>>
      PROVE  ButtonsFollowCards'
  BY <1>2 DEF ButtonsFollowCards, Earlier, Later, Has
<1>3. ASSUME page' # "cards"
      PROVE  ButtonsFollowCards'
  BY <1>3 DEF ButtonsFollowCards
<1>4. ASSUME NEW c, NEW rest, Show(c, rest)
      PROVE  ButtonsFollowCards'
  <2>1. CASE page = "cards"
    BY <1>1, <1>4, <2>1 DEF Show, SetActive, answers
  <2>2. CASE page # "cards"
    BY <1>3, <1>4, <2>2 DEF Show
  <2> QED
    BY <2>1, <2>2
<1>5. ASSUME Post
      PROVE  ButtonsFollowCards'
  BY <1>3, <1>5 DEF Post
<1>6. ASSUME NEW rest, GoPrevious(rest) \/ GoNext(rest)
      PROVE  ButtonsFollowCards'
  BY <1>2, <1>4, <1>5, <1>6 DEF GoPrevious, GoNext, Stay, answers
<1>7. ASSUME NEW c, Return(c)
      PROVE  ButtonsFollowCards'
  <2>1. CASE Has("progress_states")
    BY <1>1, <1>7, <2>1 DEF Return, HiddenAtFirst, answers
  <2>2. CASE ~ Has("progress_states")
    BY <1>7, <2>2 DEF Return, ButtonsFollowCards, Has
  <2> QED
    BY <2>1, <2>2
<1>8. ASSUME NEW c, NEW v, Type(c, v) \/ ClickRadio(c, v)
      PROVE  ButtonsFollowCards'
  <2>1. Write(c, v) /\ Track /\ page = "cards"
    BY <1>8 DEF Type, ClickRadio
  <2>2. CASE ~ Has("progress_states")
    BY <2>1, <2>2 DEF Write, ButtonsFollowCards, Has
  <2>3. CASE UNCHANGED <<hidden, shown>>
    BY <1>2, <2>1, <2>3 DEF Write
  <2>4. CASE shown' = Buttons(active, value', hidden', showAll)
    BY <1>1, <2>1, <2>4 DEF Write
  <2> QED
    BY <2>1, <2>2, <2>3, <2>4 DEF Track
<1>9. ASSUME NEW c, NEW v, Correct(c, v)
      PROVE  ButtonsFollowCards'
  BY <1>3, <1>9 DEF Correct, Write
<1>10. CASE Toggle
  <2>1. CASE ~ showAll
    BY <1>10, <2>1 DEF Toggle, ButtonsFollowCards
  <2>2. CASE showAll /\ page = "cards"
    BY <1>1, <1>10, <2>2 DEF Toggle, SetActive, answers
  <2>3. CASE page # "cards"
    BY <1>3, <1>10, <2>3 DEF Toggle
  <2> QED
    BY <2>1, <2>2, <2>3
<1>11. ASSUME NEW button, Later250(button)
      PROVE  ButtonsFollowCards'
  BY <1>2, <1>11 DEF Later250, answers
<1>12. CASE Look \/ PressEnter \/ \E button \in {"previous", "next"} : PressArrow(button)
  BY <1>2, <1>11, <1>12 DEF Look, PressEnter, PressArrow, answers
<1>13. CASE ClickPrevious \/ ClickNext \/ ClickSubmit \/ FireClick
  BY <1>5, <1>6, <1>13 DEF ClickPrevious, ClickNext, ClickSubmit, FireClick
<1>14. CASE \E c \in Cards : ClickLink(c) \/ PreviewLink(c)
  BY <1>4, <1>7, <1>14 DEF ClickLink, PreviewLink
<1>15. CASE PreviewBack \/ PreviewSubmit \/ PreviewFire
  BY <1>3, <1>7, <1>15 DEF PreviewBack, PreviewSubmit, PreviewFire, Confirm
<1>16. CASE UNCHANGED vars
  BY <1>2, <1>16 DEF vars
<1> QED
  BY <1>8, <1>9, <1>10, <1>12, <1>13, <1>14, <1>15, <1>16 DEF Next

\* With progress_states the form can be sent where nothing follows and only
\* there, however conditions show and hide cards.
THEOREM ButtonsTellTheTruth == Spec => []ButtonsFollowCards
<1>1. Init => ButtonsFollowCards
  BY DEF Init, ButtonsFollowCards, HiddenAtFirst, Buttons, Button
<1> QED
  BY <1>1, ButtonsKeepUp, PTL DEF Spec

-----------------------------------------------------------------------------
(***************************************************************************)
(* The way on.                                                             *)
(***************************************************************************)

\* A card without "next" and "submit" is one that auto-forward leaves, and it
\* is shown alone: the preview, where the buttons are those of a card that is
\* shown alone, comes without showAll. Radio buttons know no "Other...".
LedOn ==
  /\ page = "preview" => ~ showAll
  /\ \A c \in Cards : form.kind[c] = "radio" => value[c] \notin {"other", "spelled"}
  /\ page = "cards" =>
       \/ shown \cap {"next", "submit"} # {}
       \/ Has("hide_next") /\ ~ showAll /\ form.kind[active] \in {"radio", "other"}

\* The buttons of a card lead on, or the card holds nothing but radio buttons.
LEMMA ButtonsLeadOn ==
  ASSUME NEW c, NEW v, NEW h, NEW all,
         Buttons(c, v, h, all) \cap {"next", "submit"} = {}
  PROVE  Has("hide_next") /\ ~ all /\ form.kind[c] \in {"radio", "other"}
<1>1. "next" \in Button /\ "submit" \in Button
  BY DEF Button
<1>2. Later(c, h) # {}
  BY <1>1 DEF Buttons
<1>3. HidesNext(c, v, all)
  BY <1>1, <1>2 DEF Buttons
<1> QED
  BY <1>3 DEF HidesNext

LEMMA LedOnInductive ==
  ASSUME TypeOK, LedOn, [Next]_vars
  PROVE  LedOn'
<1>1. ASSUME UNCHANGED <<form, page, active, value, shown, showAll>>
      PROVE  LedOn'
  BY <1>1 DEF LedOn, Has
<1>2. ASSUME page' \notin {"cards", "preview"} \/ (page' = "preview" /\ ~ showAll'),
             UNCHANGED <<form, value>>
      PROVE  LedOn'
  BY <1>2 DEF LedOn
<1>3. ASSUME NEW h, NEW all, shown' = Buttons(active', value, h, all),
             page' # "preview", ~ all => ~ showAll', UNCHANGED <<form, value>>
      PROVE  LedOn'
  BY <1>3, ButtonsLeadOn DEF LedOn, Has
<1>4. ASSUME NEW c, NEW rest, page = "cards", Show(c, rest)
      PROVE  LedOn'
  BY <1>3, <1>4 DEF Show, SetActive, answers
<1>5. ASSUME Post
      PROVE  LedOn'
  BY <1>2, <1>5 DEF Post, answers
<1>6. ASSUME NEW rest, page = "cards", GoPrevious(rest) \/ GoNext(rest)
      PROVE  LedOn'
  BY <1>1, <1>4, <1>5, <1>6 DEF GoPrevious, GoNext, Stay, answers
<1>7. ASSUME NEW c, page = "preview", Return(c)
      PROVE  LedOn'
  BY <1>3, <1>7 DEF Return, LedOn, answers
<1>8. ASSUME NEW c \in Cards, NEW v \in Answer,
             Type(c, v) \/ ClickRadio(c, v) \/ Correct(c, v)
      PROVE  LedOn'
  <2>1. Write(c, v) /\ page # "preview"
    BY <1>8 DEF Type, ClickRadio, Correct
  <2>2. \A d \in Cards : form'.kind[d] = "radio" => value'[d] \notin {"other", "spelled"}
    BY <2>1 DEF Write, LedOn, AnswersTo, TypeOK
  <2>3. CASE UNCHANGED shown
    BY <2>1, <2>2, <2>3 DEF Write, LedOn, Has
  <2>4. CASE shown' = Buttons(active, value', hidden', showAll)
    BY <2>1, <2>2, <2>4, ButtonsLeadOn DEF Write, LedOn, Has
  <2> QED
    BY <1>8, <2>3, <2>4 DEF Type, ClickRadio, Correct, Track
<1>9. CASE Look
  BY <1>1, <1>9 DEF Look, answers
<1>10. ASSUME NEW button, Later250(button)
       PROVE  LedOn'
  BY <1>1, <1>10 DEF Later250, answers
<1>11. CASE PressEnter \/ \E button \in {"previous", "next"} : PressArrow(button)
  BY <1>10, <1>11 DEF PressEnter, PressArrow
<1>12. CASE ClickPrevious \/ ClickNext \/ ClickSubmit \/ FireClick
  BY <1>5, <1>6, <1>12 DEF ClickPrevious, ClickNext, ClickSubmit, FireClick
<1>13. CASE \E c \in Cards : ClickLink(c) \/ PreviewLink(c)
  BY <1>4, <1>7, <1>13 DEF ClickLink, PreviewLink
<1>14. CASE Toggle
  <2>1. CASE ~ showAll
    BY <1>14, <2>1 DEF Toggle, LedOn, answers
  <2>2. CASE showAll /\ page = "cards"
    BY <1>3, <1>14, <2>2 DEF Toggle, SetActive, answers
  <2>3. CASE page # "cards"
    BY <1>2, <1>14, <2>3 DEF Toggle, answers
  <2> QED
    BY <2>1, <2>2, <2>3
<1>15. ASSUME page = "preview", Confirm
       PROVE  LedOn'
  BY <1>2, <1>15 DEF Confirm, answers
<1>16. CASE PreviewBack \/ PreviewSubmit \/ PreviewFire
  BY <1>7, <1>15, <1>16 DEF PreviewBack, PreviewSubmit, PreviewFire
<1>17. CASE UNCHANGED vars
  BY <1>1, <1>17 DEF vars
<1> QED
  BY <1>8, <1>9, <1>11, <1>12, <1>13, <1>14, <1>16, <1>17 DEF Next

\* Where no button leads on the card forwards itself, whatever is hidden, shown
\* together or clicked late, on any form.
THEOREM AlwaysAWayOn == Spec => []CanGoOn
<1>1. Init => LedOn
  <2>1. SUFFICES ASSUME Init PROVE LedOn
    OBVIOUS
  <2>2. PICK h : shown = Buttons(active, value, h, showAll)
    BY <2>1 DEF Init
  <2>3. \A c \in Cards : value[c] = "none"
    BY <2>1 DEF Init
  <2>4. shown \cap {"next", "submit"} = {} =>
          Has("hide_next") /\ ~ showAll /\ form.kind[active] \in {"radio", "other"}
    BY <2>2, ButtonsLeadOn
  <2>5. page # "preview"
    BY <2>1 DEF Init
  <2> QED
    BY <2>3, <2>4, <2>5 DEF LedOn
<1>2. TypeOK /\ LedOn => CanGoOn
  <2>1. TypeOK /\ Has("hide_next") => Has("auto_forward")
    BY FormsAssumption DEF TypeOK, Has
  <2> QED
    BY <2>1 DEF LedOn, CanGoOn, Forwards, TypeOK
<1> QED
  BY <1>1, <1>2, LedOnInductive, TypeCorrect, PTL DEF Spec

=============================================================================
