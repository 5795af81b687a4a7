--------------------------- MODULE MCAuditStream ---------------------------
(* AuditStream for TLC: two threads in one process and one in another.     *)
EXTENDS AuditStream, TLC

CONSTANTS p1, p2, a, b, c

MCHome == a :> p1 @@ b :> p1 @@ c :> p2

\* One thread in one process.
MCHomeOne == a :> p1

=============================================================================
