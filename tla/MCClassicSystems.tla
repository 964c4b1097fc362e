-------------------------- MODULE MCClassicSystems --------------------------
EXTENDS ClassicSystems

MCOperands == {-100, -64, -17, -8, -3, -1, 0, 1, 2, 5, 16, 31, 64, 100, 1000}

(* Trees that are refused for each reason, the defaults of both scripts,   *)
(* one of 64 testers and one of more.                                      *)
MCCacheSpecs == {<<>>, <<0>>, <<1>>, <<2>>, <<3, 2>>, <<2, 2, 1>>, <<2, 1, 3>>}
MCTesterSpecs == {<<1>>, <<0, 1>>, <<-1, 2>>, <<2, 0>>, <<1, 2>>, <<0, 32>>, <<1, 32>>, <<1, 0, 2>>, <<1, 1, 0, 2>>, <<0, 0, 1, 1>>, <<2, 1, 1, 1>>}
=============================================================================
