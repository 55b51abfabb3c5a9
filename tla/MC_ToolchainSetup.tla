-------------------------- MODULE MC_ToolchainSetup --------------------------
EXTENDS ToolchainSetup, TLC

MCSymmetry == Permutations(Procs)
=============================================================================
