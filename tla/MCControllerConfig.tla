------------------------- MODULE MCControllerConfig -------------------------
(* Instances of ControllerConfig for TLC.                                    *)
EXTENDS ControllerConfig

Setting(e, l) == [endpoint |-> e, level |-> l]

(* Two endpoints, one of which no client can be made for, and for the first  *)
(* of them two log levels.                                                   *)
EndpointsAndLevels == {Setting("a", None), Setting("a", "DEBUG"), Setting("b", "DEBUG")}
OnlyA == {"a"}
=============================================================================
