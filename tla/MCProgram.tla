----------------------------- MODULE MCProgram -----------------------------
EXTENDS Program, TLC

RunsAlike == Permutations(Runs)

=============================================================================
