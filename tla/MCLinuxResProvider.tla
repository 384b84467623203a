------------------------ MODULE MCLinuxResProvider ------------------------
(* Counters of eight values, started at both ends so that they wrap.       *)
EXTENDS LinuxResProvider

MCCpuSteps   == {<<0, 0, 0, 0>>, <<1, 0, 1, 2>>, <<0, 2, 0, 0>>, <<0, 0, 0, 3>>}
MCProcSteps  == {<<0, 0, 0>>, <<2, 1, 1>>, <<3, 0, 2>>}
MCDiskSteps  == {<<0, 0>>, <<1, 3>>, <<2, 0>>}
MCClockSteps == {-2, 0, 5}
=============================================================================
