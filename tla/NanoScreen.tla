----------------------------- MODULE NanoScreen -----------------------------
(***************************************************************************)
(* Screen fields of a review item on Nano devices (src/ui.rs:              *)
(* screen_fields and mod nano).  The app pages a long value itself, with   *)
(* NBGL's own text measurement, so that NBGL never shortens a title.       *)
(*                                                                         *)
(* NBGL's measurement is external: it may put any number of characters of  *)
(* the text on a page, none included, and find that a text or a title fits *)
(* or does not.  A character of a value is its position, one of a title a  *)
(* negative number, either may be a space (the text is escaped: a line     *)
(* break in it is one that hard_wrap put there).  The page markers "(i/n)" *)
(* are left out but for the fields that have one.                          *)
(***************************************************************************)
EXTENDS Integers, Sequences, SequencesExt

CONSTANTS
  Values,      \* the values an item may show
  Titles,      \* and their titles
  VALUE_LINES, \* 3: lines of a page below the title
  WINDOW,      \* 256: characters measured at a time
  SPACE, BREAK \* characters: blank, line break

ASSUME NanoAssumption ==
  /\ VALUE_LINES \in Nat \ {0}
  /\ WINDOW \in Nat \ {0}
  /\ SPACE \in Int /\ BREAK \in Int /\ BREAK < SPACE
  /\ \A v \in Values : v \in Seq(Int) /\ v # << >> /\ \A i \in DOMAIN v : v[i] >= SPACE
  /\ \A t \in Titles :
       /\ t \in Seq(Int) /\ t # << >> /\ SPACE \notin {Head(t), Last(t)}
       /\ \A i \in DOMAIN t : t[i] <= SPACE /\ t[i] # BREAK

VARIABLES
  value,    \* the item's value, escaped
  title,    \* its title
  head,     \* the title line of every field
  tail,     \* the rest of the title, or nothing
  text,     \* the value after hard_wrap
  step,     \* what is being done
  lines,    \* lines of the pages being cut
  rest,     \* what is not cut yet
  pages,    \* what is
  out       \* the item's screen fields: [text, marked]

vars == <<value, title, head, tail, text, step, lines, rest, pages, out>>
item == <<value, title>>

Has(s, c) == c \in Range(s)

\* What NBGL puts on a line or page, and the app's guard against an endless
\* loop: at least one character.
Measured == 0 .. IF Len(rest) < WINDOW THEN Len(rest) ELSE WINDOW
AtLeastOne(len) == IF len = 0 THEN 1 ELSE len

-----------------------------------------------------------------------------
(* hard_wrap: a value without spaces is cut into lines.                    *)

Begin ==
  /\ step = "begin"
  /\ IF Has(value, SPACE)
       THEN step' = "split" /\ text' = value /\ rest' = << >>
       ELSE step' = "wrap" /\ text' = << >> /\ rest' = value
  /\ UNCHANGED <<item, head, tail, lines, pages, out>>

WrapLine ==
  /\ step = "wrap"
  /\ rest # << >>
  /\ \E measured \in Measured :
       LET len == AtLeastOne(measured) IN
       /\ text' = text \o (IF text = << >> THEN << >> ELSE <<BREAK>>) \o SubSeq(rest, 1, len)
       /\ rest' = SubSeq(rest, len + 1, Len(rest))
  /\ UNCHANGED <<item, head, tail, step, lines, pages, out>>

Wrapped ==
  /\ step = "wrap"
  /\ rest = << >>
  /\ step' = "split"
  /\ UNCHANGED <<item, head, tail, text, lines, rest, pages, out>>

-----------------------------------------------------------------------------
(* split_title: the title goes on in the value if it does not fit a line.  *)

SpacesIn(n) == {i \in 2 .. n : title[i] = SPACE}

\* The end of the title line if cut characters fit: a space, if there is one.
SplitAt(cut) == IF SpacesIn(cut) = {} THEN cut ELSE Max(SpacesIn(cut)) - 1

RestFrom_PastBreak(at) == SubSeq(title, at + 2, Len(title))

\* The rest of the title behind its line, without leading spaces.
RestFrom(at) ==
  SubSeq(title, Min({i \in at + 1 .. Len(title) : title[i] # SPACE}), Len(title))

SplitTitle ==
  /\ step = "split"
  /\ \E cut \in 0 .. Len(title) :
       IF cut \in {0, Len(title)} THEN head' = title /\ tail' = << >>
       ELSE /\ head' = SubSeq(title, 1, SplitAt(cut))
            /\ tail' = RestFrom(SplitAt(cut))
  /\ step' = "layout"
  /\ UNCHANGED <<item, text, lines, rest, pages, out>>

-----------------------------------------------------------------------------
(* The layouts of screen_fields, tried in order.                           *)

has_tail == tail # << >>

\* The value below the rest of the title.
Single == IF has_tail THEN tail \o <<BREAK>> \o text ELSE text

Cut(layout, n, t) ==
  /\ step' = layout
  /\ lines' = n
  /\ rest' = t
  /\ pages' = << >>

\* Pages with a marker line have one line less; without room for any, plain pages.
TryMarked(n) == IF n >= 1 THEN Cut("marked", n, text) ELSE Cut("plain", VALUE_LINES, Single)

OnePage ==
  /\ step = "layout"
  /\ Len(Single) <= WINDOW
  /\ out' = <<[text |-> Single, marked |-> FALSE]>>
  /\ step' = "done"
  /\ UNCHANGED <<item, head, tail, text, lines, rest, pages>>

SeveralPages ==
  /\ step = "layout"
  /\ IF has_tail THEN TryMarked(VALUE_LINES - 1) ELSE Cut("titled", VALUE_LINES, text)
  /\ UNCHANGED <<item, head, tail, text, out>>

-----------------------------------------------------------------------------
(* pages.                                                                  *)

Paging == step \in {"titled", "marked", "plain"}

\* Where a page of len characters ends: before the spaces it would end in,
\* unless it is the last one.
Take_Untrimmed(len) == len
Take(len) ==
  IF len = Len(rest) THEN len
  ELSE Max({1} \cup {n \in 1 .. len : rest[n] # SPACE})

\* What is left behind the page: the one space it breaks at and a line break
\* are not shown.
AfterBreak_AllSpaces(take, len) == SubSeq(rest, len + 1, Len(rest))
AfterBreak(take, len) ==
  LET r == SubSeq(rest, (IF take < len THEN take + 1 ELSE take) + 1, Len(rest))
  IN IF r # << >> /\ Head(r) = BREAK THEN Tail(r) ELSE r

NextPage ==
  /\ Paging
  /\ rest # << >>
  /\ \E measured \in Measured :
       LET len == AtLeastOne(measured) IN
       /\ pages' = Append(pages, SubSeq(rest, 1, Take(len)))
       /\ rest' = AfterBreak(Take(len), len)
  /\ UNCHANGED <<item, head, tail, text, step, lines, out>>

\* The layout fits: every title with its "(i/n)", or every page with its marker
\* line.  The last layout is taken as it is.
LayoutFits ==
  /\ Paging
  /\ rest = << >>
  /\ step = "marked" =>
       \A i \in 1 .. Len(pages) : Len(tail) + 2 + Len(pages[i]) <= WINDOW
  /\ out' = [i \in 1 .. Len(pages) |->
               [text |-> IF step = "marked" /\ has_tail
                           THEN tail \o <<BREAK>> \o pages[i] ELSE pages[i],
                marked |-> step # "plain"]]
  /\ step' = "done"
  /\ UNCHANGED <<item, head, tail, text, lines, rest, pages>>

\* The next layout to try has pages of one line less.
FewerLines_Same == IF step = "titled" THEN VALUE_LINES - 1 ELSE lines
FewerLines == IF step = "titled" THEN VALUE_LINES - 1 ELSE lines - 1

LayoutTooLarge ==
  /\ step \in {"titled", "marked"}
  /\ rest = << >>
  /\ TryMarked(FewerLines)
  /\ UNCHANGED <<item, head, tail, text, out>>

-----------------------------------------------------------------------------

Init ==
  /\ value \in Values
  /\ title \in Titles
  /\ head = << >> /\ tail = << >>
  /\ text = << >>
  /\ step = "begin"
  /\ lines = 0
  /\ rest = << >>
  /\ pages = << >>
  /\ out = << >>

Next ==
  \/ Begin \/ WrapLine \/ Wrapped \/ SplitTitle
  \/ OnePage \/ SeveralPages
  \/ NextPage \/ LayoutFits \/ LayoutTooLarge

Spec == Init /\ [][Next]_vars /\ WF_vars(Next)

-----------------------------------------------------------------------------

\* The characters of s that are in S, in order.
Only(s, S) ==
  LET upTo[k \in 0 .. Len(s)] ==
        IF k = 0 THEN << >>
        ELSE IF s[k] \in S THEN Append(upTo[k - 1], s[k]) ELSE upTo[k - 1]
  IN  upTo[Len(s)]

Shown(s) == Only(s, {c \in Int : c > SPACE})
OfTitle(s) == Only(s, {c \in Int : c < SPACE} \ {BREAK})
Count(s, c) == Len(Only(s, {c}))
Texts == [i \in DOMAIN out |-> out[i].text]
AllText == FlattenSeq(Texts)

\* How often the rest of the title is on the screen.
Tails == IF \E i \in DOMAIN out : out[i].marked THEN Len(out) ELSE 1

\* Every character of the value is on the screen, once and in order, wherever
\* lines and pages end and whichever layout fits; of the spaces, a page break
\* hides one at most.
NothingHidden ==
  step = "done" =>
    /\ Shown(AllText) = Shown(value)
    /\ Count(AllText, SPACE)
         >= Count(value, SPACE) + Tails * Count(tail, SPACE) - (Len(out) - 1)

\* The whole title is shown, wherever NBGL ends its line and the line is cut:
\* what does not fit the line comes first in the value, whole on every page that
\* has a marker.
TitleIsWhole ==
  step = "done" =>
    \/ OfTitle(head \o AllText) = OfTitle(title)
    \/ \A i \in DOMAIN out :
         out[i].marked /\ OfTitle(head \o out[i].text) = OfTitle(title)

\* NBGL pages a field again if it ends in spaces ("Title (1/2)" and an empty
\* "(2/2)"): no page but the last does, unless it is one character.
NoTrailingSpace ==
  Paging => \A i \in DOMAIN pages :
    (i < Len(pages) \/ rest # << >>) /\ Len(pages[i]) > 1 => Last(pages[i]) # SPACE

\* Whatever NBGL measures, the fields of an item are found.
LayoutEnds == <>(step = "done")
=============================================================================
