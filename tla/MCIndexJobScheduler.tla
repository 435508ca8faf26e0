------------------------ MODULE MCIndexJobScheduler ------------------------
(* The scheduler on a few jobs and requests.                               *)
EXTENDS IndexJobScheduler, TLC

CONSTANTS d1, d2, d3, d4, s1, s2, s3, s4, f1, f2

R(d, s, f) == [db |-> d, snapshot |-> s, fingerprint |-> f]

(* Independent builds, and for the first one a request that repeats it,    *)
(* one that differs in the configuration only, one that shares only its    *)
(* database and one only its snapshot; and one for the served database.    *)
Four == {R(d1, s1, f1), R(d2, s2, f1), R(d3, s3, f1), R(d4, s4, f1)}
Clashing == {R(d1, s1, f2), R(d1, s2, f1), R(d2, s1, f1), R(ServeDb, s3, f1)}

MCRequest == Four \cup Clashing

JobSymmetry == Permutations(JobId)
=============================================================================
