------------------------ MODULE MCNotificationOutbox ------------------------
(***************************************************************************)
(* Small instances of NotificationOutbox.                                  *)
(***************************************************************************)
EXTENDS NotificationOutbox, TLC

Symmetry == Permutations(Workers)

=============================================================================
