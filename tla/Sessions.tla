------------------------------ MODULE Sessions ------------------------------
(***************************************************************************)
(* Schema changes of several sessions on one Database.                     *)
(*                                                                         *)
(* None of this is code of the repository, and the granularity is an       *)
(* assumption of this module: a sub-program is applied as a whole and      *)
(* sessions take turns between sub-programs only.  The description         *)
(* promises that much toward concurrent readers (spec.md, section 5) and   *)
(* says nothing of writers, whose concurrency control it leaves out        *)
(* (section 1).  Under the assumption, between two sub-programs of a       *)
(* statement, the plan of DROP SCHEMA a, b or DROP TABLE x, y, another     *)
(* session may have sub-programs of its own statement applied, and the     *)
(* existence checks of the later sub-program see what those left.  What    *)
(* is checked is therefore a statement about the planner's programs: that  *)
(* each sub-program is a whole on its own, whatever ran before it.         *)
(* The process does not stop here: Crash is not a step of this module.     *)
(***************************************************************************)
EXTENDS Database

CONSTANT Sessions   \* the clients that submit schema changes

VARIABLES holder,   \* the session whose statement the executor is at, or None
          parked    \* for each session, its execute() call while it waits
                    \* between two sub-programs, or None

sessions == <<vars, holder, parked>>

\* The statement in execution has finished a sub-program and not begun
\* the next.
BetweenSubprograms == Running /\ exec.sub > 1 /\ exec.pc = 1

SessionsInit ==
    /\ Init
    /\ holder = None
    /\ parked = [s \in Sessions |-> None]

Submit(s, change) ==
    /\ parked[s] = None
    /\ Execute(change)
    /\ holder' = s
    /\ UNCHANGED parked

\* One step of the statement in execution, its return included.
ApplyStep ==
    /\ Step
    /\ holder' = IF exec' = None THEN None ELSE holder
    /\ UNCHANGED parked

\* The executor lets go of a statement between two of its sub-programs ...
Yield ==
    /\ BetweenSubprograms
    /\ parked' = [parked EXCEPT ![holder] = exec]
    /\ exec' = None /\ holder' = None
    /\ UNCHANGED <<persistent, last, history>>

\* ... and takes it up again, with the catalog and the storage as they
\* are by then.
Resume(s) ==
    /\ ~Running /\ parked[s] # None
    /\ exec' = [parked[s] EXCEPT !.before = persistent] /\ holder' = s
    /\ parked' = [parked EXCEPT ![s] = None]
    /\ UNCHANGED <<persistent, last, history>>

SessionsNext ==
    \/ \E s \in Sessions :
            \/ \E change \in SchemaChanges : Submit(s, change)
            \/ Resume(s)
    \/ ApplyStep
    \/ Yield

SessionsSpec == SessionsInit /\ [][SessionsNext]_sessions

-----------------------------------------------------------------------------
\* The statement each session has under way, as Catalog sees it.
requests ==
    [s \in Sessions |->
        CASE s = holder -> served
          [] parked[s] # None -> progress(parked[s])
          [] OTHER -> None]

Interleaved ==
    INSTANCE Catalog
    WITH schemas <- visible[1], tables <- visible[2], columns <- visible[3],
         request <- requests, answer <- last

\* Executing the planner's programs step by step, with the statements of
\* several sessions taking turns between sub-programs (the assumption of
\* this module), implements Catalog:
\* for every statement, flag and list of names the steps of a sub-program
\* add up to the creation or the removal of the one object it is about,
\* all of it, exactly when Catalog allows it at that moment; a sub-program
\* is skipped or refused exactly when Catalog skips or refuses, with the
\* same error, and then adds up to nothing.  What another session did
\* between two names of DROP SCHEMA a, b is what the checks for b see.
SessionsImplementCatalog == Interleaved!Spec

=============================================================================
