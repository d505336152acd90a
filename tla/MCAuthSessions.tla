--------------------------- MODULE MCAuthSessions ---------------------------
\* AuthSessions with interchangeable threads and backup codes.
EXTENDS AuthSessions, TLC

Symmetry == Permutations(Workers) \cup Permutations(BackupCodes)
=============================================================================
