------------------------- MODULE MCNotificationOutbox -------------------------
(* A small instance of NotificationOutbox for TLC.                            *)
EXTENDS NotificationOutbox

CONSTANTS d1, d2, w1, w2, none

OneDelivery == {d1}
MCDeliveries == {d1, d2}
MCWorkers == {w1, w2}
MCBackoff == <<1, 2>>
===============================================================================
