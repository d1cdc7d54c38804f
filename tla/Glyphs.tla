------------------------------- MODULE Glyphs -------------------------------
(***************************************************************************)
(* The glyphs a frame of the pane asks for (pane/font.rs): a character the *)
(* configured family does not cover is drawn with a fallback font, which   *)
(* `fc-match` names, within a budget for each frame.                       *)
(*                                                                         *)
(* `covers` is the machine's fonts, as far as they matter here.            *)
(***************************************************************************)
EXTENDS Naturals, FiniteSets

CONSTANTS
  MaxCharacter, \* bound: characters, a page of Unicode to each two
  Fonts,        \* the fonts that are not the family's
  Budget,       \* `FALLBACK_BUDGET`
  MaxCost       \* bound: what one question costs, `MATCH_TIMEOUT`

GlyphsAssumption ==
  MaxCharacter \in Nat /\ Budget \in Nat \ {0} /\ MaxCost \in Nat

VARIABLES
  covers,   \* the characters of each font
  screen,   \* the characters to draw, none of which the family covers
  todo,     \* those this frame has not come to
  cached,   \* the characters that are settled
  fallback, \* `fallback_of`
  guess,    \* `page_of`
  loaded,   \* `fallbacks`
  spent,    \* what this frame spent on questions
  deferred, \* whether it left a character out
  before    \* history: what was settled when it began

vars == <<covers, screen, todo, cached, fallback, guess, loaded, spent, deferred, before>>

Characters == 1..MaxCharacter
Page(c) == c \div 2
Pages == {Page(c) : c \in Characters}

NoFont == "none"    \* nothing has it
Unasked == "unasked"

Init ==
  /\ covers \in [Fonts -> SUBSET Characters]
  /\ screen = {} /\ todo = {} /\ cached = {} /\ before = {} /\ loaded = {}
  /\ fallback = [c \in Characters |-> Unasked] /\ guess = [p \in Pages |-> Unasked]
  /\ spent = 0 /\ deferred = FALSE

Has(c) == {f \in Fonts : c \in covers[f]}

-----------------------------------------------------------------------------
(* Variant: what was spent is counted on. *)
CountedOn(last) == last
Spent(last) == 0

(* `new_frame`: the screen changed, or the last frame left something out. *)
NewFrame(characters) ==
  /\ todo = {} /\ (characters # screen \/ deferred)
  /\ screen' = characters /\ todo' = characters
  /\ spent' = Spent(spent) /\ deferred' = FALSE /\ before' = cached
  /\ UNCHANGED <<covers, cached, fallback, guess, loaded>>

(* `fallback_for` without a question: what is known of the character, a font
   that is loaded, or what was said for the page. *)
Known(c) ==
  IF fallback[c] # Unasked THEN {fallback[c]}
  ELSE IF loaded \cap Has(c) # {} THEN loaded \cap Has(c)
  ELSE IF guess[Page(c)] # Unasked
    THEN {IF guess[Page(c)] \in Has(c) THEN guess[Page(c)] ELSE NoFont}
  ELSE {}

(* `fc-match`: a font that has the character, if one does, and its best guess
   otherwise; or it fails, or is killed. *)
Matches(c) == (IF Has(c) # {} THEN Has(c) ELSE Fonts) \cup {NoFont}

Settle(c, font) ==
  /\ cached' = cached \cup {c}
  /\ fallback' = [fallback EXCEPT ![c] = font]

(* `glyph`, of a character that is not cached. *)
Draw(c) ==
  /\ c \in todo \ cached /\ todo' = todo \ {c}
  /\ \/ /\ Known(c) # {}
        /\ \E font \in Known(c) : Settle(c, font)
        /\ UNCHANGED <<guess, loaded, spent, deferred>>
     \/ /\ Known(c) = {} /\ spent < Budget
        /\ \E font \in Matches(c), cost \in 0..MaxCost :
             /\ Settle(c, font)
             /\ guess' = [guess EXCEPT ![Page(c)] = font]
             /\ loaded' = loaded \cup ({font} \ {NoFont})
             /\ spent' = spent + cost
        /\ UNCHANGED deferred
     \/ /\ Known(c) = {} /\ spent >= Budget
        /\ deferred' = TRUE
        /\ UNCHANGED <<cached, fallback, guess, loaded, spent>>
  /\ UNCHANGED <<covers, screen, before>>

DrawCached(c) ==
  /\ c \in todo \cap cached /\ todo' = todo \ {c}
  /\ UNCHANGED <<covers, screen, cached, fallback, guess, loaded, spent, deferred, before>>

Next ==
  \/ \E characters \in SUBSET Characters : NewFrame(characters)
  \/ \E c \in Characters : Draw(c) \/ DrawCached(c)

Spec == Init /\ [][Next]_vars

-----------------------------------------------------------------------------
(* Every frame that leaves a character out settles one that was not. *)
Converges == todo = {} /\ deferred => cached # before

(* A character is settled as blank only if no font has it, or `fc-match`
   failed: not for what was said of another character. *)
BlankIfNoFontHasIt ==
  \A c \in cached :
    fallback[c] = NoFont => Has(c) = {} \/ guess[Page(c)] = NoFont
=============================================================================
