------------------------ MODULE MCSimultaneousNotice ------------------------
(***************************************************************************)
(* Small instances of SimultaneousNotice.  Three streams, and two clients  *)
(* that follow all of them; one may disable a creator, one may mute.       *)
(***************************************************************************)
EXTENDS SimultaneousNotice, TLC

CONSTANTS s1, s2, s3

Everything == [on |-> TRUE, reminders |-> {s1, s2, s3}, allowed |-> {s1, s2, s3}, blockedUntil |-> 0]
Narrowed == [Everything EXCEPT !.allowed = {s1, s2}]
Muted == [Everything EXCEPT !.blockedUntil = 1]

TheStreams == {s1, s2, s3}
Delays == <<1, 2>>
StoredAtFirst == [c \in Clients |-> IF c = 1 THEN Everything ELSE Muted]
StoredLater == {<<1, Narrowed>>}

ContainerSymmetry == Permutations(Containers)
=============================================================================
