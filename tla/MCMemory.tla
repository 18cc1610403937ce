------------------------------- MODULE MCMemory -------------------------------
EXTENDS Memory
===============================================================================
