---------------------------- MODULE MC_SuiseiBuild ----------------------------
EXTENDS SuiseiBuild
=============================================================================
