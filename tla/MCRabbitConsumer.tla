--------------------------- MODULE MCRabbitConsumer ---------------------------
(* Small instances of RabbitConsumer. *)
EXTENDS RabbitConsumer

CONSTANTS m1, m2

OneMessage  == {m1}
TwoMessages == {m1, m2}
SixConns    == 1 .. 6
================================================================================
