------------------------------- MODULE Secrets -------------------------------
(***************************************************************************)
(* secrets.LoadOrGenerate of internal/secrets/secrets.go, run by agent.New *)
(* at every start: it loads xavi.secrets, adds what an older version did   *)
(* not write yet, or generates the file, and returns what the containers   *)
(* of the node are then given.  os.WriteFile truncates the file and writes *)
(* it, without a sync; the process may die and the power may fail at any   *)
(* point, and an operator copies the file between the nodes of a cluster.  *)
(*                                                                         *)
(* A set of secrets is a function from fields to naturals: 0 for a field   *)
(* that is missing, 1 for the constant default, 2 for a value of a file    *)
(* that was there before, and one number for each run that draws random    *)
(* values.                                                                 *)
(***************************************************************************)
EXTENDS Naturals

CONSTANTS
  Nodes,     \* hosts that run the agent
  Random,    \* fields with a random value that are added when missing
  OldSets,   \* what an older version, or a person, may have left in a file
  MaxEvents  \* bound on deaths, failed writes and what the operator does

Password == "postgres_password"  \* random, but never added to a file
Database == "postgres_db"        \* postgres_db_name and postgres_db_user
Fields   == {Password, Database} \cup Random

Empty   == 0
Default == 1
Given   == 2

ASSUME SecretsAssumption ==
  /\ Random \cap {Password, Database} = {}
  /\ OldSets \subseteq [Fields -> {Empty, Given}]
  /\ MaxEvents \in Nat

VARIABLES
  file,     \* xavi.secrets of a node: [state, set]
  pc,       \* LoadOrGenerate: "down", "save", "write"; "up" once it returned
  secrets,  \* its s, and a.Secrets once it returned
  dirty,    \* what of the file has not reached the disk
  drawn,    \* the number of the last random values
  events,   \* counts events, up to MaxEvents
  \* History variables
  handed,   \* {} or {each secret the node's containers and data were first
            \* made with}
  touched   \* the file was replaced, removed or lost after that

history == <<handed, touched>>
vars    == <<file, pc, secrets, dirty, drawn, events, handed, touched>>

Sets  == [Fields -> Nat]
Blank == [f \in Fields |-> Empty]

Absent   == [state |-> "absent", set |-> Blank]
Torn     == [state |-> "torn", set |-> Blank]   \* does not parse
Whole(s) == [state |-> "whole", set |-> s]

TypeOK ==
  /\ file \in [Nodes -> [state: {"absent", "torn", "whole"}, set: Sets]]
  /\ pc \in [Nodes -> {"down", "save", "write", "up"}]
  /\ secrets \in [Nodes -> Sets]
  /\ dirty \in [Nodes -> {"no", "created", "rewritten"}]
  /\ drawn \in Nat
  /\ events \in 0..MaxEvents
  /\ handed \in [Nodes -> SUBSET Sets]
  /\ touched \in [Nodes -> BOOLEAN]
  /\ \A n \in Nodes : file[n].state # "whole" => file[n].set = Blank

\* A new host, or one with a file whose secrets may be in use already.
Init ==
  /\ file \in [Nodes -> {Absent} \cup {Whole(s) : s \in OldSets}]
  /\ pc = [n \in Nodes |-> "down"]
  /\ secrets = [n \in Nodes |-> Blank]
  /\ dirty = [n \in Nodes |-> "no"]
  /\ drawn = Given
  /\ events = 0
  /\ handed \in [Nodes -> {{}} \cup {{s} : s \in OldSets}]
  /\ \A n \in Nodes : \A s \in handed[n] : file[n] = Whole(s)
  /\ touched = [n \in Nodes |-> FALSE]

-----------------------------------------------------------------------------
(* LoadOrGenerate.                                                         *)

\* Mutant: a first run leaves random fields for the next one to add.
GeneratePasswordOnly(k) ==
  [f \in Fields |-> IF f = Password THEN k ELSE IF f = Database THEN Default ELSE Empty]

\* All fields of a new file, k being the number of this draw.
Generate(k) == [f \in Fields |-> IF f = Database THEN Default ELSE k]

\* Mutant: every random field of an incomplete set is drawn again.
RepairRedraws(s, k) ==
  [f \in Fields |-> IF f = Password THEN s[f] ELSE IF f = Database THEN Default ELSE k]

\* The fields that are missing are added, all but the password.
Repair(s, k) ==
  [f \in Fields |-> IF s[f] # Empty \/ f = Password THEN s[f]
                    ELSE IF f = Database THEN Default ELSE k]

\* A field that is checked for is missing.
Incomplete(s) == \E f \in Fields \ {Password} : s[f] = Empty

\* Mutant: os.IsNotExist is not asked, so that a first run ends with an error.
LoadNothingFails(n) == pc[n] = "down" /\ file[n].state = "absent" /\ UNCHANGED vars

\* The file does not exist.
LoadNothing(n) ==
  /\ pc[n] = "down" /\ file[n].state = "absent"
  /\ drawn' = drawn + 1
  /\ secrets' = [secrets EXCEPT ![n] = Generate(drawn')]
  /\ pc' = [pc EXCEPT ![n] = "save"]
  /\ UNCHANGED <<file, dirty, events, history>>

\* Mutant: a file that is complete is saved again at every start.
LoadCompleteSaves(n) ==
  /\ pc[n] = "down" /\ file[n].state = "whole"
  /\ ~Incomplete(file[n].set)
  /\ secrets' = [secrets EXCEPT ![n] = file[n].set]
  /\ pc' = [pc EXCEPT ![n] = "save"]
  /\ UNCHANGED <<file, dirty, drawn, events, history>>

\* The file is there and complete.  (A torn file ends the start with an error
\* and changes nothing; systemd tries again.)
LoadComplete(n) ==
  /\ pc[n] = "down" /\ file[n].state = "whole"
  /\ ~Incomplete(file[n].set)
  /\ secrets' = [secrets EXCEPT ![n] = file[n].set]
  /\ pc' = [pc EXCEPT ![n] = "up"]
  /\ UNCHANGED <<file, dirty, drawn, events, history>>

\* Mutant: what was added is not saved.
LoadUnsaved(n) ==
  /\ pc[n] = "down" /\ file[n].state = "whole"
  /\ Incomplete(file[n].set)
  /\ drawn' = drawn + 1
  /\ secrets' = [secrets EXCEPT ![n] = Repair(file[n].set, drawn')]
  /\ pc' = [pc EXCEPT ![n] = "up"]
  /\ UNCHANGED <<file, dirty, events, history>>

\* The file is there; what is missing in it is added.
LoadIncomplete(n) ==
  /\ pc[n] = "down" /\ file[n].state = "whole"
  /\ Incomplete(file[n].set)
  /\ drawn' = drawn + 1
  /\ secrets' = [secrets EXCEPT ![n] = Repair(file[n].set, drawn')]
  /\ pc' = [pc EXCEPT ![n] = "save"]
  /\ UNCHANGED <<file, dirty, events, history>>

\* Mutant: the file is overwritten without being truncated.
TruncateNot(n) ==
  /\ pc[n] = "save"
  /\ file' = [file EXCEPT ![n].state = "torn"]
  /\ pc' = [pc EXCEPT ![n] = "write"]
  /\ dirty' = [dirty EXCEPT ![n] = "rewritten"]
  /\ UNCHANGED <<secrets, drawn, events, history>>

\* save: WriteFile opens the file, which truncates it, ...
Truncate(n) ==
  /\ pc[n] = "save"
  /\ file' = [file EXCEPT ![n] = Torn]
  /\ pc' = [pc EXCEPT ![n] = "write"]
  /\ dirty' = [dirty EXCEPT ![n] =
                 IF file[n].state = "absent" \/ @ = "created" THEN "created" ELSE "rewritten"]
  /\ UNCHANGED <<secrets, drawn, events, history>>

\* ... and writes it; only then does LoadOrGenerate return.
Write(n) ==
  /\ pc[n] = "write"
  /\ file' = [file EXCEPT ![n] = Whole(secrets[n])]
  /\ pc' = [pc EXCEPT ![n] = "up"]
  /\ UNCHANGED <<secrets, dirty, drawn, events, history>>

LoadOrGenerate(n) == \/ LoadNothing(n) \/ LoadComplete(n) \/ LoadIncomplete(n)
                     \/ Truncate(n) \/ Write(n)

-----------------------------------------------------------------------------
(* The node.                                                               *)

Event == events < MaxEvents /\ events' = events + 1

\* What is in use once s is handed out too.
InUseWith(used, s) ==
  IF used = {} THEN {s}
  ELSE {[f \in Fields |-> IF u[f] # Empty THEN u[f] ELSE s[f]] : u \in used}

\* A pass of applyConfig: Postgres is initialised with the password, the app
\* encrypts with the key.  From now on they have to stay, and so has what was
\* added to an older file.
HandOut(n) ==
  /\ pc[n] = "up"
  /\ handed' = [handed EXCEPT ![n] = InUseWith(@, secrets[n])]
  /\ UNCHANGED <<file, pc, secrets, dirty, drawn, events, touched>>

\* The process ends; also when save fails (a full disk, a directory that
\* cannot be made), which log.Fatalf reports.
Die(n) ==
  /\ pc[n] # "down" /\ Event
  /\ pc' = [pc EXCEPT ![n] = "down"]
  /\ secrets' = [secrets EXCEPT ![n] = Blank]
  /\ UNCHANGED <<file, dirty, drawn, history>>

\* The kernel writes the file back, in its own time.
Sync(n) ==
  /\ dirty[n] # "no"
  /\ dirty' = [dirty EXCEPT ![n] = "no"]
  /\ UNCHANGED <<file, pc, secrets, drawn, events, history>>

\* The file at n becomes another one; that matters once its secrets are in use.
Changed(n, f) ==
  /\ file' = [file EXCEPT ![n] = f]
  /\ touched' = [touched EXCEPT ![n] = @ \/ pc[n] # "down" \/ handed[n] # {}]
  /\ UNCHANGED <<drawn, handed>>

\* Power fails before the file has reached the disk.
PowerLoss(n) ==
  /\ dirty[n] # "no" /\ Event
  /\ \/ Changed(n, Torn)
     \/ dirty[n] = "created" /\ Changed(n, Absent)
  /\ dirty' = [dirty EXCEPT ![n] = "no"]
  /\ pc' = [pc EXCEPT ![n] = "down"]
  /\ secrets' = [secrets EXCEPT ![n] = Blank]

(* The operator.                                                           *)

\* README.md:128, at any time, whatever the other node is doing.
Copy(n, m) ==
  /\ n # m /\ Event
  /\ file[n].state = "whole"
  /\ Changed(m, file[n])
  /\ UNCHANGED <<pc, secrets, dirty>>

\* A file that does not parse has to be removed before the agent starts again.
Remove(n) ==
  /\ Event
  /\ file[n].state # "absent"
  /\ Changed(n, Absent)
  /\ UNCHANGED <<pc, secrets, dirty>>

-----------------------------------------------------------------------------
Node(n) == LoadOrGenerate(n) \/ HandOut(n) \/ Die(n) \/ Sync(n) \/ PowerLoss(n)

Next == \E n \in Nodes : \/ Node(n)
                         \/ Remove(n)
                         \/ \E m \in Nodes : Copy(n, m)

Spec == Init /\ [][Next]_vars

\* systemd starts the agent (Restart=always) and its start goes on.
Fairness == \A n \in Nodes : WF_vars(LoadOrGenerate(n))

FairSpec == Spec /\ Fairness

-----------------------------------------------------------------------------
(* Safety properties.                                                      *)

\* s has every secret that t has.
Extends(s, t) == \A f \in Fields : t[f] # Empty => s[f] = t[f]

\* What a node's containers and data were made with stays what its agent hands
\* out, what an upgrade added included, through deaths at any point of a write
\* and restarts, until the file is touched: replaced or removed by someone, or
\* lost with the power (secrets.go:28-87).
HandedOutStays ==
  \A n \in Nodes : pc[n] = "up" /\ ~touched[n] => \A s \in handed[n] : Extends(secrets[n], s)

\* Nothing is handed out before the file holds it (secrets.go:62-66, 83-87).
InUseIsSaved ==
  \A n \in Nodes : pc[n] = "up" /\ ~touched[n] => file[n] = Whole(secrets[n])

\* A file that xavi itself generated, copied anywhere at any time, even onto
\* a node that is about to write its own, gives every node the same secrets
\* (README.md:128): two nodes that share its password share all of it.
GeneratedAgree ==
  \A n, m \in Nodes :
    /\ pc[n] = "up" /\ pc[m] = "up"
    /\ secrets[n][Password] = secrets[m][Password] /\ secrets[n][Password] > Given
    => secrets[n] = secrets[m]

\* Secrets that are in use and complete are out of the agent's way: no start
\* and no death puts their file at risk, so that every later start finds them.
\* Only the addition to an older file, somebody else, or a loss of power before
\* what was written has reached the disk can lose what is in use
\* (secrets.go:31-66, where updated is false for a complete file).
CompleteNeverRewritten ==
  \A n \in Nodes : ~touched[n] =>
    \A s \in handed[n] : ~Incomplete(s) => file[n] = Whole(s)

(* Liveness, under FairSpec.                                               *)

\* Only a torn file keeps the agent from starting: in every other case it comes
\* up again, whenever it died (secrets.go:67-69).
StartsUnlessTorn ==
  \A n \in Nodes : <>[](file[n].state # "torn") => []<>(pc[n] = "up")
==============================================================================
