----------------------- MODULE MCWindowsResProvider -----------------------
(* Times of eight values that wrap or are set back, a few bytes of traffic. *)
EXTENDS WindowsResProvider

MCProcSteps  == {<<0, 0, 0>>, <<0, 1, 0>>, <<2, 1, 1>>, <<3, 0, 2>>, <<-1, 1, 1>>}
MCDiskSteps  == {<<0, 0>>, <<1, 3>>}
MCClockSteps == {-2, 0, 5}
=============================================================================
