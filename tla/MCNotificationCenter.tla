------------------------- MODULE MCNotificationCenter -------------------------
(* A small instance of NotificationCenter for TLC.                            *)
EXTENDS NotificationCenter, TLC

CONSTANTS e1, e2, none, h1, h2, s1, inApp, email

MCEvents == {e1, e2}
MCHandlers == {h1, h2}
MCSessions == {s1}
MCChannels == {inApp, email}
OneChannel == {inApp}

Symmetry == Permutations(MCHandlers) \cup Permutations(MCEvents)
===============================================================================
