------------------------------ MODULE Reviews ------------------------------
(***************************************************************************)
(* apps/core/views.py, template_page, and apps/reports/views.py,           *)
(* dashboard_review: a review template is one JSON list of modules, which  *)
(* the settings page posts back whole, as it was when the page was opened, *)
(* and in which the review page saves the text of one note.                *)
(*                                                                         *)
(* A text is the number of the edit that wrote it, 0 for none, and stands  *)
(* for what sanitize_rich_text leaves of it.  Modules other than notes     *)
(* have no text; titles are left out.                                      *)
(*                                                                         *)
(* On the settings page the modules are cards that can be dragged.  The    *)
(* buttons of a card keep the number it was rendered with, and a button is *)
(* answered with the module that has that number in the layout posted.     *)
(***************************************************************************)
EXTENDS Integers, SequencesExt

CONSTANTS
  Tabs,           \* pages opened in browsers
  InitialLayout,  \* of the template
  MaxEdits,       \* bounds what is posted, and what is done on a page before
  MaxCards,       \* bounds the modules of a page
  Gone            \* the template is deleted

\* A note, or a module that shows data; it may say that it is on, or off, or neither.
Modules == [type : {"notes", "data"}, on : {"yes", "no", "unset"}, text : Int]

ASSUME LayoutAssumption == InitialLayout \in Seq(Modules)

VARIABLES
  template,  \* a sequence of [type, on, text], or Gone
  edits,     \* posts so far
  tabs       \* for each page [step, kind, shown, cards, seen, form, index, touched]

reviewVars == <<template, edits, tabs>>

\* shown is the layout the page was opened with; cards the numbers in it of the
\* cards as they now stand, 0 for one that came from the library; seen what the
\* request has read, form what it will save, index the place it works on.  touched
\* is kept for TextsKept only: the texts the edit itself replaces or removes.
Closed == [step |-> "closed", kind |-> "none", shown |-> <<>>, cards |-> <<>>, seen |-> <<>>,
           form |-> <<>>, index |-> 0, touched |-> {}]

ReviewsInit ==
  /\ template = InitialLayout
  /\ edits = 0
  /\ tabs = [t \in Tabs |-> Closed]

\* The cards of a page as it is made.
Rendered(layout) == [i \in DOMAIN layout |-> i]

OpenTab(t, kind) ==
  /\ tabs[t].step = "closed"
  /\ edits < MaxEdits
  /\ template # Gone
  /\ tabs' = [tabs EXCEPT ![t] =
       [Closed EXCEPT !.step = "open", !.kind = kind, !.shown = template,
                      !.cards = Rendered(template)]]
  /\ UNCHANGED <<template, edits>>

(***************************************************************************)
(* The settings page                                                       *)
(***************************************************************************)
\* A card of the library is a note without text, say.
Dropped == [type |-> "notes", on |-> "yes", text |-> 0]

\* A card is dropped on another and stands before it, or comes from the library
\* and stands last.
MoveCard(t, i, j) ==
  LET cards == tabs[t].cards
      rest == RemoveAt(cards, i)
  IN
  /\ tabs[t].step = "open"
  /\ tabs[t].kind = "settings"
  /\ edits < MaxEdits
  /\ {i, j} \subseteq DOMAIN cards
  /\ i # j
  /\ tabs' = [tabs EXCEPT ![t].cards = InsertAt(rest, IF i < j THEN j - 1 ELSE j, cards[i])]
  /\ UNCHANGED <<template, edits>>

DropModule(t) ==
  /\ tabs[t].step = "open"
  /\ tabs[t].kind = "settings"
  /\ edits < MaxEdits
  /\ Len(tabs[t].cards) < MaxCards
  /\ tabs' = [tabs EXCEPT ![t].cards = Append(@, 0)]
  /\ UNCHANGED <<template, edits>>

\* What the script posts, in the order of the cards: data-enabled is "true" only
\* where the layout says so.
Posted(tab) ==
  [place \in DOMAIN tab.cards |->
     IF tab.cards[place] = 0 THEN Dropped
     ELSE [tab.shown[tab.cards[place]] EXCEPT !.on = IF @ = "yes" THEN "yes" ELSE "no"]]

Swapped(layout, i, j) ==
  [k \in DOMAIN layout |-> layout[IF k = i THEN j ELSE IF k = j THEN i ELSE k]]

\* up, down, toggle and remove of a module, if there is one.
ModuleAction(action, layout, i) ==
  IF i \notin DOMAIN layout THEN layout
  ELSE CASE action = "up" /\ i > 1 -> Swapped(layout, i, i - 1)
         [] action = "down" /\ i < Len(layout) -> Swapped(layout, i, i + 1)
         [] action = "toggle" -> [layout EXCEPT ![i].on = IF @ = "yes" THEN "no" ELSE "yes"]
         [] action = "remove" -> RemoveAt(layout, i)
         [] OTHER -> layout

Actions == {"none", "up", "down", "toggle", "remove"}

\* The first card cannot go up nor the last one down; the buttons of a card from the
\* library do nothing.
Offered(tab, action, place) ==
  CASE action = "up" -> place > 1 /\ tab.cards[place] # 0
    [] action = "down" -> place < Len(tab.cards) /\ tab.cards[place] # 0
    [] action \in {"toggle", "remove"} -> tab.cards[place] # 0
    [] OTHER -> TRUE

\* The layout posted, with the text of the card at place changed if it is a note, or
\* the action of one of its buttons.
SubmitTemplate(t, action, place) ==
  LET tab == tabs[t]
      posted == Posted(tab)
      writes == action = "none" /\ posted[place].type = "notes"
      number == IF action = "none" THEN place ELSE tab.cards[place]
      form == IF writes THEN [posted EXCEPT ![place].text = edits + 1]
              ELSE ModuleAction(action, posted, number)
  IN
  /\ tab.step = "open"
  /\ tab.kind = "settings"
  /\ place \in DOMAIN tab.cards
  /\ Offered(tab, action, place)
  /\ edits < MaxEdits
  /\ edits' = edits + 1
  /\ tabs' = [tabs EXCEPT ![t] =
       IF template = Gone THEN Closed
       ELSE [tab EXCEPT !.step = "saving", !.seen = posted, !.form = form, !.index = number,
                        !.touched = IF writes \/ action = "remove" THEN {posted[place].text} ELSE {}]]
  /\ UNCHANGED template

\* What is not turned off is on.
Cleaned(layout) == [i \in DOMAIN layout |-> [layout[i] EXCEPT !.on = IF @ = "no" THEN "no" ELSE "yes"]]

\* Without its script the page posts no layout: a button then acts on the stored one.
SubmitButton(t, action, i) ==
  /\ tabs[t].step = "open"
  /\ tabs[t].kind = "settings"
  /\ tabs[t].cards = Rendered(tabs[t].shown)
  /\ i \in DOMAIN tabs[t].shown
  /\ edits < MaxEdits
  /\ edits' = edits + 1
  /\ tabs' = [tabs EXCEPT ![t] =
       IF template = Gone THEN Closed
       ELSE LET layout == Cleaned(template)
                there == i \in DOMAIN layout
            IN  [@ EXCEPT !.step = "saving", !.seen = template, !.index = i,
                          !.form = ModuleAction(action, layout, i),
                          !.touched = IF there /\ action = "remove" THEN {layout[i].text} ELSE {}]]
  /\ UNCHANGED template

\* save() of all fields: a row that is gone meanwhile is inserted again.
SaveTemplate(t) ==
  /\ tabs[t].step = "saving"
  /\ tabs[t].kind = "settings"
  /\ template' = tabs[t].form
  /\ tabs' = [tabs EXCEPT ![t] = Closed]
  /\ UNCHANGED edits

DeleteTemplate ==
  /\ template # Gone
  /\ template' = Gone
  /\ UNCHANGED <<edits, tabs>>

(***************************************************************************)
(* The note of the review page                                             *)
(***************************************************************************)
\* Modules turned off are not shown, and the form names its module by its place
\* among those shown.
Shown(layout) == SelectSeq([i \in DOMAIN layout |-> i], LAMBDA i : layout[i].on # "no")

\* Mutant: the layout saved is the one the page was opened with.
NoteBase_Opened(tab) == tab.shown

\* The layout that is changed is read by the request.
NoteBase(tab) == template

\* The place is looked up among all modules; unless a note is there, nothing is
\* saved.
SubmitNote(t, place) ==
  LET tab == tabs[t]
      base == NoteBase(tab)
      found == template # Gone /\ place \in DOMAIN base /\ base[place].type = "notes"
  IN
  /\ tab.step = "open"
  /\ tab.kind = "review"
  /\ place \in DOMAIN Shown(tab.shown)
  /\ tab.shown[Shown(tab.shown)[place]].type = "notes"
  /\ edits < MaxEdits
  /\ edits' = edits + 1
  /\ tabs' = [tabs EXCEPT ![t] =
       IF ~found THEN Closed
       ELSE [tab EXCEPT !.step = "saving", !.seen = template, !.form = [base EXCEPT ![place].text = edits + 1],
                        !.index = place, !.touched = {base[place].text}]]
  /\ UNCHANGED template

\* save(update_fields): nothing, and an error, if the row is gone.
SaveNote(t) ==
  /\ tabs[t].step = "saving"
  /\ tabs[t].kind = "review"
  /\ template' = IF template = Gone THEN Gone ELSE tabs[t].form
  /\ tabs' = [tabs EXCEPT ![t] = Closed]
  /\ UNCHANGED edits

\* The page is left, or its request lost.
CloseTab(t) ==
  /\ tabs[t].step # "closed"
  /\ tabs' = [tabs EXCEPT ![t] = Closed]
  /\ UNCHANGED <<template, edits>>

ReviewsNext ==
  \/ \E t \in Tabs :
       \/ \E kind \in {"settings", "review"} : OpenTab(t, kind)
       \/ \E i, j \in DOMAIN tabs[t].cards : MoveCard(t, i, j)
       \/ DropModule(t)
       \/ \E action \in Actions :
            \/ \E place \in DOMAIN tabs[t].cards : SubmitTemplate(t, action, place)
            \/ \E i \in DOMAIN tabs[t].shown : SubmitButton(t, action, i)
       \/ \E place \in DOMAIN tabs[t].shown : SubmitNote(t, place)
       \/ SaveTemplate(t)
       \/ SaveNote(t)
       \/ CloseTab(t)
  \/ DeleteTemplate

ReviewsSpec == ReviewsInit /\ [][ReviewsNext]_reviewVars

(***************************************************************************)
(* Properties                                                              *)
(***************************************************************************)
Texts(layout) == {layout[i].text : i \in DOMAIN layout} \ {0}

\* On a page whose cards were moved a button works on the module that came to stand
\* where its card was rendered.
Rearranged(tab) == \E place \in DOMAIN tab.cards : tab.cards[place] \notin {0, place}

Mistaken(tab) == IF tab.kind = "settings" /\ Rearranged(tab) THEN {tab.seen[tab.index].text} ELSE {}

\* Saving drops a text only if the edit was to replace or remove it; or if the text
\* was written after the saver's copy was made, which for the settings page is when
\* the page was opened, for a note, or a button alone, when its request read the
\* template; or if the page's cards were moved and its button took away another
\* module than its own (RemovesItsModule).
TextsKept ==
  [][template # Gone /\ template' # Gone =>
       \A text \in Texts(template) \ Texts(template') :
         \E t \in Tabs :
           /\ tabs[t].step = "saving"
           /\ tabs'[t].step = "closed"
           /\ text \notin (Texts(tabs[t].seen) \ tabs[t].touched) \ Mistaken(tabs[t])]_reviewVars

\* The button "Remove {{ module.title }}" of a card (templates/settings/page.html:99),
\* on the page where one drags modules, "then reorder[s] them" (:72), takes away no
\* text but that module's.
RemovesItsModule ==
  [][\A t \in Tabs : \A place \in DOMAIN tabs[t].cards :
       SubmitTemplate(t, "remove", place) /\ template # Gone =>
         Texts(tabs'[t].seen) \ {tabs'[t].seen[place].text} \subseteq Texts(tabs'[t].form)]_reviewVars

\* A note written on a page that shows the template as it is, is saved in the
\* module it was written in, as the round trip of a note in
\* tests/test_template_builder.py:90-101 has it.
NoteSavedWhereWritten ==
  [][\A t \in Tabs : \A place \in DOMAIN tabs[t].shown :
       SubmitNote(t, place) /\ template = tabs[t].shown =>
         /\ tabs'[t].step = "saving"
         /\ tabs'[t].index = Shown(template)[place]]_reviewVars
=============================================================================
