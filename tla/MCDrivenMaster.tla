---------------------------- MODULE MCDrivenMaster ----------------------------
\* The master's table and the script of testMasterFSM, for TLC.
EXTENDS DrivenMaster, MasterTable, TLC

TestScript ==
    <<"AvailabilityModeCommand", "EndModeCommand", "ThroughputModeCommand",
      "EndModeCommand", "EndTest">>

Symmetry == Permutations(Workers)

===============================================================================
