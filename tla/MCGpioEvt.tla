------------------------------- MODULE MCGpioEvt -------------------------------
(* GpioEvt with two pins: the list of the repository's test program, two   *)
(* lists with both pins, and an empty one.                                 *)
EXTENDS GpioEvt

CONSTANTS a, b

MCRequests ==
    { <<[gpio_num |-> a, gpio_val |-> 1, evt_type |-> "falling"]>>,
      <<[gpio_num |-> a, gpio_val |-> 0, evt_type |-> "both"],
        [gpio_num |-> b, gpio_val |-> 1, evt_type |-> "both"]>>,
      <<[gpio_num |-> b, gpio_val |-> 0, evt_type |-> "rising"],
        [gpio_num |-> a, gpio_val |-> 1, evt_type |-> "both"]>>,
      << >> }
=============================================================================
