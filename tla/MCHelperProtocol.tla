-------------------------- MODULE MCHelperProtocol --------------------------
(***************************************************************************)
(* Instances of HelperProtocol for TLC: two jobs, so that one may wait     *)
(* while another restarts the helper, and three scans, so that one of them *)
(* is scanned again; a second process after the first has died, or after   *)
(* the app was started again.                                              *)
(***************************************************************************)
EXTENDS HelperProtocol

OneJob == {1}
TwoJobs == {1, 2}

World(restart, slow, late, jobs, scans) ==
  [restart |-> restart, slow |-> slow, late |-> late, crash |-> TRUE, jobs |-> jobs, scans |-> scans]
ManyWorlds ==
  {World(FALSE, FALSE, FALSE, TwoJobs, 3), World(FALSE, FALSE, TRUE, TwoJobs, 2),
   World(TRUE, FALSE, FALSE, TwoJobs, 2), World(TRUE, TRUE, TRUE, OneJob, 2)}
NoCrash(w) == {[w EXCEPT !.crash = FALSE]}
Restarted == NoCrash(World(TRUE, FALSE, FALSE, OneJob, 2))
Late == NoCrash(World(FALSE, FALSE, TRUE, OneJob, 2))

=============================================================================
