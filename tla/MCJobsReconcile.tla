-------------------------- MODULE MCJobsReconcile --------------------------
(* Small instances of the demo's milestone. *)
EXTENDS JobsReconcile

\* Three reads overlap on the first assertion.  A second one, posted after the
\* tab lost the first, differs in nothing but its id.
TwoReadsOfTheSecond == Len(chain) > 1 => Len(reads) < MaxReads
=============================================================================
