----------------------------- MODULE MCConnection -----------------------------
(***************************************************************************)
(* An instance of Connection for TLC: two workers and two targets.  Each   *)
(* file pairs an entry with a plain one, so that every way an entry can be *)
(* right or wrong occurs, and once with itself.                            *)
(***************************************************************************)
EXTENDS Connection, TLC

CONSTANTS x1, x2, k1, k2

Generic == [preset |-> "unset", auth |-> "unset", stated |-> {}, blanked |-> {},
            transport |-> "unset", username |-> FALSE]

Ums == [Generic EXCEPT !.preset = "igel-ums", !.username = TRUE]

MCTarget == {x1, x2}

MCKey == {k1, k2}

MCConfig ==
  {[x \in MCTarget |-> IF x = x1 THEN entry ELSE Generic] :
     entry \in {Generic, Ums,
               [Ums EXCEPT !.username = FALSE],
               [Ums EXCEPT !.auth = "bearer"],
               [Generic EXCEPT !.auth = "unknown"],
               [Generic EXCEPT !.preset = "unknown"],
               [Generic EXCEPT !.transport = "igel-ums"],
               [Ums EXCEPT !.blanked = {"version"}, !.stated = {"sessions"}]}}

(***************************************************************************)
(* The doctor and the server process share nothing either of them writes,  *)
(* so each is explored while the other has not begun.  The workers run on  *)
(* good credentials and fitting servers: these only enable the steps that  *)
(* succeed, and a worker's steps may all fail without them.                *)
(***************************************************************************)
Apart ==
  \/ manager = None /\ \A w \in Worker : call[w] = Idle
  \/ /\ doctor.at = "off"
     /\ \A x \in Target :
          /\ stored[x] = k1 /\ grant[x] = k1
          /\ Resolvable(config[x]) => Resolve(config[x]).transport = product[x]

Symmetry == Permutations(Worker)

===============================================================================
