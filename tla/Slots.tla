------------------------------- MODULE Slots -------------------------------
(***************************************************************************)
(* What the modules of Parts have in common.                               *)
(***************************************************************************)

CONSTANTS
    Request,        \* slots for calls and requests in progress
    Nil             \* no row, or an unset value

=============================================================================
