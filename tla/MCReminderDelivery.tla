------------------------- MODULE MCReminderDelivery -------------------------
(***************************************************************************)
(* Small instances of ReminderDelivery.                                    *)
(***************************************************************************)
EXTENDS ReminderDelivery, TLC

ContainerSymmetry == Permutations(Containers)
=============================================================================
