------------------------------ MODULE MCCloud ------------------------------
(* Two processes; two addresses for one watchdog's code; one watchdog with  *)
(* one mandatory addon and one device; two devices with models; two devices *)
(* under control, with one option; two hours and two lists of two messages. *)
EXTENDS Cloud, TLC

CONSTANT adblock

MandatoryAddons == <<adblock>>

\* No module orders these or singles one out.
Alike == Permutations(Workers) \cup Permutations(Names)
             \cup Permutations(Emails) \cup Permutations(Secrets)

=============================================================================
