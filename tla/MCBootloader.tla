---------------------------- MODULE MCBootloader ----------------------------
(* Model values for Bootloader: a slot of two blocks.                      *)
EXTENDS Bootloader

CONSTANTS a, b, big

\* a fills the slot, b takes half of it, big does not fit.
MCSize == [i \in Images |-> CASE i = a -> 2 [] i = b -> 1 [] OTHER -> Slot + 1]

\* What the device's next step depends on: no action reads the last answer or
\* the history of accepted headers, so states that differ in them alone have
\* the same future.
DeviceView == <<meta, app, pc, ram, sess, handoff, asked, unconfirmed>>
=============================================================================
