-------------------------------- MODULE Outcome --------------------------------
(***************************************************************************)
(* What one call of RunContainer (internal/container/client.go) makes of   *)
(* the container of its name, seen as a whole: ContainerCalls finds it of  *)
(* the call engine call by engine call, Agent and Traefik build on it.     *)
(*                                                                         *)
(* A name holds a set h of at most one container, [what, runs]: what it    *)
(* was made from and whether it runs.  made is what create would make, and *)
(* fits says that h passes the convergence check.                          *)
(***************************************************************************)

Running(h) == {[what |-> c.what, runs |-> TRUE] : c \in h}
Stopped(h) == {[what |-> c.what, runs |-> FALSE] : c \in h}

Made(made, runs) == {[what |-> made, runs |-> runs]}

\* The call that nothing goes wrong in: what fits is started if it has to be,
\* anything else replaced.
Served(h, fits, made) == IF fits THEN Running(h) ELSE Made(made, TRUE)

\* A call that fails leaves the container as it was; only one that does not
\* fit may be stopped, gone, or replaced by one that was not started.
Outcomes(h, fits, made) ==
  {h, Served(h, fits, made)} \cup
  (IF fits THEN {} ELSE {Stopped(h), {}, Made(made, FALSE)})

\* With others at work on the container meanwhile, it is still none but the old
\* one or the one wanted.
Amidst(h, made) ==
  {k \in SUBSET [what : {made} \cup {c.what : c \in h}, runs : BOOLEAN] :
     \A c, d \in k : c = d}
================================================================================
