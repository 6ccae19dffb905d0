---------------------------- MODULE MCWebEngine ----------------------------
(* A document of seven bytes received in messages of five and parsed  two  *)
(* bytes at a time.  Rich has a script to run at once, a style sheet, a    *)
(* script behind a redirect that starts a timer, the body, an image and a  *)
(* last script in the document; the timer adds another blocking sheet, and *)
(* nothing refers to one resource.  The other pages make one case each.    *)
EXTENDS WebEngine, TLC

CONSTANTS main, css, js, img, added, unref

El(at, kind, res) ==
  [at |-> at, kind |-> kind, res |-> res, fetches |-> {}, timer |-> FALSE]

Rich ==
  LET R == {main, css, js, img, added, unref}
  IN  [ size     |-> 7,
        elems    |-> << El(0, "inline!", NoRes), El(1, "css", css),
                        [El(2, "script", js) EXCEPT !.timer = TRUE],
                        El(3, "body", NoRes), El(4, "img", img),
                        El(5, "script", NoRes) >>,
        chain    |-> [r \in R |-> IF r = js THEN 2 ELSE 1],
        checked  |-> {main, css, js, img, added},
        sheets   |-> {added},
        fetches  |-> [r \in R |-> {}],
        onParsed |-> {}, onLoad |-> {}, onTimer |-> {added}, render |-> {} ]

(* The document ends with a script.                                        *)
EndsWithScript ==
  [Rich EXCEPT !.elems = << El(2, "body", NoRes), El(6, "script", js) >>]

(* A second script from a resource, preloaded while the first blocks.      *)
TwoScripts ==
  [Rich EXCEPT !.elems = << El(2, "script", js), El(3, "body", NoRes),
                            El(4, "script", img) >>]

(* A script to run at once, behind a style sheet.                          *)
SheetThenImmediate ==
  [Rich EXCEPT !.elems = << El(0, "css", css), El(1, "inline!", NoRes), El(2, "body", NoRes) >>]

(* A timer that fetches nothing.                                           *)
IdleTimer == [Rich EXCEPT !.onTimer = {}]
=============================================================================
