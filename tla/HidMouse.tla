------------------------------- MODULE HidMouse -------------------------------
(***************************************************************************)
(* The physical mouse simulated over UHID or AOA (app/src/hid/hid_mouse.c, *)
(* app/src/uhid/mouse_uhid.c): relative motion and scroll reports.  Scroll *)
(* events are fractions; a report carries their integer part and the rest  *)
(* is kept for the next one.  The queue may refuse any report, which is    *)
(* only logged.                                                            *)
(***************************************************************************)
EXTENDS Integers

CONSTANTS
  Unit,          \* how many fractions of a scroll make 1
  Scrolls,       \* the scroll events, in fractions, both ways
  MaxReport,     \* the largest value of a report, 127
  MouseButtons,  \* the buttons of the mouse
  MaxMouseEvents \* bound: events

VARIABLES
  downButtons,  \* event->buttons_state
  residual,     \* hid->residual_vscroll, in fractions
  wheel,        \* what the reports have scrolled
  asked,        \* what the events asked for, in fractions
  clamped,      \* what was cut because a report cannot hold it, in fractions
  refusedWheel, \* history: what the refused reports would have scrolled
  devButtons,   \* the buttons Android sees pressed
  mouseEvents

mouseVars == <<downButtons, residual, wheel, asked, clamped, refusedWheel, devButtons, mouseEvents>>

Init ==
  /\ downButtons = {} /\ residual = 0 /\ wheel = 0 /\ asked = 0 /\ clamped = 0
  /\ refusedWheel = 0 /\ devButtons = {} /\ mouseEvents = 0

Clamp(v) == IF v > MaxReport * Unit THEN MaxReport * Unit ELSE IF v < -MaxReport * Unit THEN -MaxReport * Unit ELSE v

\* A conversion from float to integer truncates towards 0.
Truncate(v) == IF v < 0 THEN -((-v) \div Unit) ELSE v \div Unit

\* The part of a scroll that no report has carried yet.
Residual(value, consume) == value - consume * Unit

\* Reports that are pushed show Android these buttons; a refused one leaves it as it is.
SendInput(shown) == devButtons' = shown \/ UNCHANGED devButtons

\* consume_scroll_integer() and the scroll report, whose buttons are all released; none is sent
\* for less than a unit.  What is consumed is so before the report is pushed or refused.
Scroll(v) ==
  LET value == Clamp(residual + v)
      consume == Truncate(value)
  IN /\ mouseEvents < MaxMouseEvents /\ mouseEvents' = mouseEvents + 1
     /\ asked' = asked + v /\ clamped' = clamped + (residual + v - value)
     /\ residual' = Residual(value, consume)
     /\ \/ /\ wheel' = wheel + consume
           /\ devButtons' = IF consume = 0 THEN devButtons ELSE {}
           /\ UNCHANGED refusedWheel
        \/ /\ consume # 0 /\ refusedWheel' = refusedWheel + consume
           /\ UNCHANGED <<wheel, devButtons>>
     /\ UNCHANGED downButtons

\* The reports of a click and of a motion carry the state of the buttons.
Click(button) ==
  /\ mouseEvents < MaxMouseEvents /\ mouseEvents' = mouseEvents + 1
  /\ downButtons' = IF button \in downButtons THEN downButtons \ {button}
                    ELSE downButtons \cup {button}
  /\ SendInput(downButtons')
  /\ UNCHANGED <<residual, wheel, asked, clamped, refusedWheel>>

Motion ==
  /\ mouseEvents < MaxMouseEvents /\ mouseEvents' = mouseEvents + 1
  /\ SendInput(downButtons)
  /\ UNCHANGED <<downButtons, residual, wheel, asked, clamped, refusedWheel>>

Next ==
  \/ \E v \in Scrolls : Scroll(v) \/ Scroll(-v)
  \/ \E button \in MouseButtons : Click(button)
  \/ Motion

Spec == Init /\ [][Next]_mouseVars

-----------------------------------------------------------------------------
\* No fraction of a scroll is lost or counted twice: however the wheel is turned back and forth,
\* Android is less than a unit from where the events ask it to be, but for what a report cannot
\* hold and for the reports that were refused, each of which loses what it carried and no more.
ScrollConserved ==
  /\ (wheel + refusedWheel) * Unit + clamped + residual = asked
  /\ residual < Unit /\ residual > -Unit
=============================================================================
