---------------------------------- MODULE Led ----------------------------------
(***************************************************************************)
(* The LEDs of mdsapi/src/led.c.  Each of wcdma, gps and pwr is a pair of  *)
(* a red and a green LED in sysfs; mds_api_led_on, mds_api_led_off and     *)
(* mds_api_led_blink are sequences of writes to their trigger, delay and   *)
(* brightness files.  Any application may call them, nothing serialises    *)
(* the calls, and a caller may be killed between two writes.               *)
(*                                                                         *)
(* The pairs do not touch each other, so the model has one, chosen in      *)
(* Init.  The LED class of the kernel is external.  A call with an unknown *)
(* name or colour writes nothing and is left out.                          *)
(***************************************************************************)
EXTENDS Integers, Sequences

CONSTANTS App,
          Delay         (* delay_on and delay_off, in milliseconds           *)

Name == {"wcdma", "gps", "pwr"}
Color == {"red", "green", "yellow", "off"}
Diode == {"red", "green"}
Default == 0            (* the delay of a timer nobody has set *)

ASSUME DelayAssumption == Delay \subseteq Nat \ {Default}

VARIABLES name,         (* the pair                                          *)
          led,          (* its LEDs                                          *)
          busy,         (* the applications inside a call                    *)
          todo,         (* the writes its call has still to make             *)
          agreed        (* {look} when all calls since the last quiet moment
                           asked for this look and none was killed, else {}  *)

ledVars == <<name, led, busy, todo, agreed>>

-----------------------------------------------------------------------------
(* The LED class: what a write does, and what can be seen.                 *)

(* A write of one sysfs file. *)
Put(d, f, v) == [diode |-> d, file |-> f, value |-> v]

Dark == [trigger |-> "none", delay_on |-> Default, delay_off |-> Default, bright |-> FALSE]
Timer == [trigger |-> "timer", delay_on |-> Default, delay_off |-> Default, bright |-> FALSE]

(* Without the timer its delay files do not exist.  Brightness 0 removes   *)
(* the trigger, and removing a trigger switches the LED off.               *)
Effect(l, w) ==
    CASE w.file = "trigger" /\ w.value = "timer" -> Timer
      [] w.file = "trigger" /\ w.value = "none"  -> IF l.trigger = "timer" THEN Dark ELSE l
      [] w.file = "delay_on"   -> IF l.trigger = "timer" THEN [l EXCEPT !.delay_on = w.value] ELSE l
      [] w.file = "delay_off"  -> IF l.trigger = "timer" THEN [l EXCEPT !.delay_off = w.value] ELSE l
      [] w.file = "brightness" -> IF w.value = 0 THEN Dark ELSE [l EXCEPT !.bright = TRUE]

Seen(l) == IF l.trigger = "timer" THEN [delay_on |-> l.delay_on, delay_off |-> l.delay_off, blink |-> TRUE]
           ELSE [blink |-> FALSE, lit |-> l.bright]
Shown == [d \in Diode |-> Seen(led[d])]

-----------------------------------------------------------------------------
(* The writes of the calls                                                 *)

_led_set_trigger(d, trigger) == <<Put(d, "trigger", trigger)>>
_led_set_brightness(d, v) == <<Put(d, "brightness", v)>>

_led_trigger_timer(d, on, off) ==
    <<Put(d, "trigger", "timer"), Put(d, "delay_on", on), Put(d, "delay_off", off)>>

Lit(color) == CASE color = "yellow" -> Diode [] color = "off" -> {} [] OTHER -> {color}
Brightness(d, color) == IF d \in Lit(color) THEN 255 ELSE 0

SetBoth(color) == _led_set_brightness("green", Brightness("green", color))
                  \o _led_set_brightness("red", Brightness("red", color))
ClearBoth == _led_set_trigger("green", "none") \o _led_set_trigger("red", "none")

mds_api_led_on(color) == ClearBoth \o SetBoth(color)
mds_api_led_off == ClearBoth \o SetBoth("off")

(* Mutant: the LED that is not to blink is not switched off. *)
BlinkRedOnly(on, off) ==
    _led_set_trigger(IF name = "pwr" THEN "red" ELSE "green", "none")
    \o _led_trigger_timer("red", on, off)
    \o _led_set_brightness("red", 255)

(* For pwr the code clears the trigger of the red LED, not of the green one. *)
BlinkRed(on, off) ==
    _led_set_trigger(IF name = "pwr" THEN "red" ELSE "green", "none")
    \o _led_trigger_timer("red", on, off)
    \o SetBoth("red")

mds_api_led_blink(color, on, off) ==
    CASE color = "red" -> BlinkRed(on, off)
      [] color = "green" -> _led_trigger_timer("green", on, off)
                            \o _led_set_trigger("red", "none") \o SetBoth("green")
      [] color = "yellow" -> _led_trigger_timer("green", on, off)
                             \o _led_trigger_timer("red", on, off) \o SetBoth("yellow")
      [] color = "off" -> mds_api_led_off

-----------------------------------------------------------------------------
(* What a caller asks for. *)
Steady(color) == [d \in Diode |-> [blink |-> FALSE, lit |-> d \in Lit(color)]]
Blinking(color, on, off) ==
    [d \in Diode |-> IF d \in Lit(color) THEN [delay_on |-> on, delay_off |-> off, blink |-> TRUE]
                     ELSE [blink |-> FALSE, lit |-> FALSE]]
Look == {Steady(c) : c \in Color} \cup {Blinking(c, x, y) : c \in Color, x \in Delay, y \in Delay}

Quiet == busy = {}

LedInit == /\ name \in Name
           /\ led = [d \in Diode |-> Dark]
           /\ busy = {} /\ todo = [a \in App |-> << >>]
           /\ agreed = {}

Call(a, look, writes) ==
    /\ a \notin busy
    /\ busy' = busy \cup {a}
    /\ todo' = [todo EXCEPT ![a] = writes]
    /\ agreed' = IF Quiet THEN {look} ELSE agreed \cap {look}
    /\ UNCHANGED <<name, led>>

LedOn(a) == \E c \in Color : Call(a, Steady(c), mds_api_led_on(c))
LedOff(a) == Call(a, Steady("off"), mds_api_led_off)
LedBlink(a) == \E c \in Color, x \in Delay, y \in Delay :
                  Call(a, Blinking(c, x, y), mds_api_led_blink(c, x, y))

(* open, write and close of one file. *)
Write(a) == /\ todo[a] # << >>
            /\ LET w == Head(todo[a])
               IN led' = [led EXCEPT ![w.diode] = Effect(@, w)]
            /\ todo' = [todo EXCEPT ![a] = Tail(@)]
            /\ UNCHANGED <<name, busy, agreed>>

Return(a) == /\ a \in busy /\ todo[a] = << >>
             /\ busy' = busy \ {a}
             /\ UNCHANGED <<name, led, todo, agreed>>

Killed(a) == /\ todo[a] # << >>
             /\ busy' = busy \ {a}
             /\ todo' = [todo EXCEPT ![a] = << >>]
             /\ agreed' = {}
             /\ UNCHANGED <<name, led>>

LedNext == \E a \in App : LedOn(a) \/ LedOff(a) \/ LedBlink(a) \/ Write(a) \/ Return(a) \/ Killed(a)

LedSpec == LedInit /\ [][LedNext]_ledVars

-----------------------------------------------------------------------------
(* Callers that agree get what they ask for: when no call is running and   *)
(* all that overlapped asked for one look, and none was killed, the pair   *)
(* shows it, whatever killed or disagreeing callers left there before.     *)
AgreedIsShown == Quiet => \A look \in agreed : Shown = look
=============================================================================
