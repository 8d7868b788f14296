-------------------------- MODULE RolloutCheckpoint --------------------------
(***************************************************************************)
(* The resumable generation scripts: rollout_checkpoint.py with a local    *)
(* model ("local", batches) or a remote one ("remote", a thread pool whose *)
(* results the main thread appends), and run_gemini.py ("gemini", a thread *)
(* pool whose workers append under a lock).  Each writes one JSON line per *)
(* row to a file opened for appending, and a new run reads what is there.  *)
(*                                                                         *)
(* A crash may leave a part of the last line: all but its newline, a part  *)
(* that is no JSON, or one that ends within a character and is no UTF-8.   *)
(* What the next run appends continues that line.  Writes that raise, the  *)
(* --limit of run_gemini, what a record holds besides its row and whether  *)
(* it is an error, and the check of a checkpoint's parameters are left out.*)
(***************************************************************************)
EXTENDS Integers, FiniteSets

CONSTANTS
    Rows,        \* rows of the data set, in their order
    MaxCrashes,  \* bound on crashes
    MaxErrors,   \* bound on generations that fail
    Configs      \* scripts and their options, see ConfigType

ConfigType ==
    [tool: {"local", "remote", "gemini"},
     workers: Nat \ {0},  \* batch_size, remote_workers or workers
     retry: BOOLEAN]      \* --retry-errors

ASSUME ConfigAssumption ==
    /\ IsFiniteSet(Rows) /\ Rows \subseteq Nat
    /\ {MaxCrashes, MaxErrors} \subseteq Nat
    /\ Configs \subseteq ConfigType

VARIABLES
    conf,
    saved,    \* what the intact lines of the file say of each row, the last one counting
    damage,   \* worst line among the others: none, no JSON, no UTF-8
    tail,     \* the last line if it lacks its newline
    failLog,  \* rows in run_gemini's fail log
    pc,       \* no run, a run, or how the last one ended
    todo, running,   \* rows of this run not begun, rows being generated
    results,  \* results not appended yet
    crashes, errors  \* how many there were

fileVars == <<saved, damage, tail, failLog>>
runVars  == <<pc, todo, running, results>>
vars == <<conf, fileVars, runVars, crashes, errors>>

Outcomes == {"none", "ok", "error"}
Cuts     == {"newline", "line", "bytes"}
Whole    == [cut |-> "none", row |-> 0, result |-> "none"]
Pending(s) == {r \in Rows : s[r] # "none"}
First(S) == CHOOSE r \in S : \A q \in S : r <= q

TypeOK ==
    /\ conf \in Configs
    /\ saved \in [Rows -> Outcomes] /\ damage \in {"no", "line", "bytes"}
    /\ tail \in {Whole} \cup [cut: Cuts, row: Rows, result: {"ok", "error"}]
    /\ failLog \subseteq Rows
    /\ pc \in {"off", "on", "finished", "refused"}
    /\ todo \subseteq Rows /\ running \subseteq Rows \ todo
    /\ results \in [Rows -> Outcomes] /\ Pending(results) \cap (todo \cup running) = {}
    /\ crashes \in 0 .. MaxCrashes /\ errors \in 0 .. MaxErrors

Init ==
    /\ conf \in Configs
    /\ saved = [r \in Rows |-> "none"] /\ damage = "no" /\ tail = Whole /\ failLog = {}
    /\ pc = "off" /\ todo = {} /\ running = {} /\ results = [r \in Rows |-> "none"]
    /\ crashes = 0 /\ errors = 0

-----------------------------------------------------------------------------
(* Reading the file.                                                        *)

Worst == IF "bytes" \in {damage, tail.cut} THEN "bytes"
         ELSE IF damage = "line" \/ tail.cut = "line" THEN "line" ELSE "no"

(* read_checkpoint raises on any line it cannot parse; load_done_records    *)
(* skips it, but what is no UTF-8 raises while the file is iterated.        *)
Readable == IF conf.tool = "gemini" THEN Worst # "bytes" ELSE Worst = "no"

(* A later record of a row replaces the earlier one.  A line that lacks     *)
(* nothing but its newline is read.                                         *)
Known(r) == IF tail.cut = "newline" /\ tail.row = r THEN tail.result ELSE saved[r]

(* Mutant...: plausible defects of the definition they precede, used by no  *)
(* specification.                                                           *)

(* Errors count as done for ever.                                           *)
MutantToDo == {r \in Rows : Known(r) = "none"}

(* With --retry-errors every row is done again.                             *)
MutantToDoAll == {r \in Rows : Known(r) = "none" \/ conf.retry}

(* pending in main of rollout_checkpoint.py, todo in that of run_gemini.py  *)
ToDo == {r \in Rows : \/ Known(r) = "none"
                      \/ conf.tool # "gemini" /\ conf.retry /\ Known(r) = "error"}

(* Somebody runs the script, again.                                         *)
Start ==
    /\ pc # "on"
    /\ IF ~Readable THEN pc' = "refused" /\ UNCHANGED todo
       ELSE /\ todo' = ToDo
            /\ pc' = IF ToDo = {} THEN "finished" ELSE "on"
    /\ UNCHANGED <<conf, fileVars, running, results, crashes, errors>>

(* --overwrite, after the script has refused to go on.                      *)
Overwrite ==
    /\ pc = "refused" /\ conf.tool # "gemini"
    /\ saved' = [r \in Rows |-> "none"] /\ damage' = "no" /\ tail' = Whole
    /\ todo' = Rows /\ pc' = "on"
    /\ UNCHANGED <<conf, failLog, running, results, crashes, errors>>

-----------------------------------------------------------------------------
(* Generating.                                                              *)

(* Mutant: the next batch begins while the last one is being appended.      *)
MutantFree ==
    IF conf.tool = "local"
    THEN IF running = {} THEN conf.workers ELSE 0
    ELSE conf.workers - Cardinality(running)

(* How many rows may begin: a local batch when the last one is appended; a  *)
(* thread of the remote pool when it has delivered its result, one of       *)
(* run_gemini when it has appended it.                                      *)
Free ==
    IF conf.tool = "local"
    THEN IF running = {} /\ Pending(results) = {} THEN conf.workers ELSE 0
    ELSE conf.workers - Cardinality(running)
           - IF conf.tool = "gemini" THEN Cardinality(Pending(results)) ELSE 0

(* Mutant: rows begun are not taken off the list.                           *)
MutantBegin ==
    /\ pc = "on" /\ todo # {} /\ Free > 0
    /\ \E r \in todo : running' = running \cup {r}
    /\ UNCHANGED <<conf, fileVars, pc, todo, results, crashes, errors>>

Begin ==
    /\ pc = "on" /\ todo # {} /\ Free > 0
    /\ LET n == IF conf.tool # "local" THEN 1
                ELSE IF Free < Cardinality(todo) THEN Free ELSE Cardinality(todo)
           next == {r \in todo : Cardinality({q \in todo : q < r}) < n}
       IN  running' = running \cup next /\ todo' = todo \ next
    /\ UNCHANGED <<conf, fileVars, pc, results, crashes, errors>>

(* A row that fails is a record too: of its error, or in the fail log.      *)
Generate(r) ==
    /\ pc = "on" /\ r \in running
    /\ \/ results' = [results EXCEPT ![r] = "ok"] /\ UNCHANGED errors
       \/ /\ errors < MaxErrors /\ errors' = errors + 1
          /\ results' = [results EXCEPT ![r] = "error"]
    /\ running' = running \ {r}
    /\ UNCHANGED <<conf, fileVars, pc, todo, crashes>>

(* A local batch is appended in its order, when all of it is there.         *)
MayAppend(r) ==
    /\ pc = "on" /\ results[r] # "none"
    /\ conf.tool = "local" => running = {} /\ r = First(Pending(results))

(* The line goes behind whatever the file ends with.                        *)
Append(r) ==
    /\ MayAppend(r)
    /\ IF conf.tool = "gemini" /\ results[r] = "error"
       THEN failLog' = failLog \cup {r} /\ UNCHANGED <<saved, damage, tail>>
       ELSE /\ IF tail = Whole THEN saved' = [saved EXCEPT ![r] = results[r]] /\ UNCHANGED damage
               ELSE damage' = (IF Worst = "bytes" THEN "bytes" ELSE "line") /\ UNCHANGED saved
            /\ tail' = Whole
            /\ UNCHANGED failLog
    /\ results' = [results EXCEPT ![r] = "none"]
    /\ UNCHANGED <<conf, pc, todo, running, crashes, errors>>

(* Mutant: the run ends when everything is generated, appended or not.      *)
MutantFinish ==
    /\ pc = "on" /\ todo = {} /\ running = {}
    /\ pc' = "finished" /\ results' = [r \in Rows |-> "none"]
    /\ UNCHANGED <<conf, fileVars, todo, running, crashes, errors>>

Finish ==
    /\ pc = "on" /\ todo = {} /\ running = {} /\ Pending(results) = {}
    /\ pc' = "finished"
    /\ UNCHANGED <<conf, fileVars, todo, running, results, crashes, errors>>

(* The process dies, perhaps within a write; what was generated and not     *)
(* appended is lost.  The fail log is never read again.                     *)
Crash ==
    /\ pc = "on" /\ crashes < MaxCrashes
    /\ \/ UNCHANGED tail
       \/ \E r \in Rows, cut \in Cuts :
            /\ MayAppend(r) /\ ~(conf.tool = "gemini" /\ results[r] = "error")
            /\ tail' = [cut |-> IF tail = Whole THEN cut
                                ELSE IF "bytes" \in {cut, tail.cut} THEN "bytes" ELSE "line",
                        row |-> r, result |-> results[r]]
    /\ pc' = "off" /\ crashes' = crashes + 1
    /\ todo' = {} /\ running' = {} /\ results' = [r \in Rows |-> "none"]
    /\ UNCHANGED <<conf, saved, damage, failLog, errors>>

Next ==
    \/ Start \/ Overwrite \/ Begin \/ Finish \/ Crash
    \/ \E r \in Rows : Generate(r) \/ Append(r)

Spec == Init /\ [][Next]_vars

(* Generations end, and somebody runs the script until it has nothing to do.*)
Fairness ==
    /\ WF_vars(Start) /\ WF_vars(Overwrite) /\ WF_vars(Begin) /\ WF_vars(Finish)
    /\ \A r \in Rows : WF_vars(Generate(r)) /\ WF_vars(Append(r))

FairSpec == Spec /\ Fairness

-----------------------------------------------------------------------------
(* Properties.                                                              *)

(* A result in an intact line stays, through crashes, retries and damage,   *)
(* until the user discards the file.                                        *)
ResultsKept ==
    [][\A r \in Rows : saved[r] = "ok" => saved'[r] = "ok" \/ pc = "refused"]_vars

(* A run that ends normally has a record of every row, in the file or in    *)
(* the fail log, if nothing ever crashed; after crashes at most two rows    *)
(* are missing: the one cut off and the one appended to it.                 *)
Missing == {r \in Rows : Known(r) = "none" /\ r \notin failLog}

MissingBounded ==
    pc = "finished" => Cardinality(Missing) <= IF crashes = 0 THEN 0 ELSE 2

(* At any moment a crash costs no more results than a batch, or than there  *)
(* are threads -- except with the remote pool, whose results wait for the   *)
(* main thread without bound.                                               *)
UnsavedBounded ==
    conf.tool # "remote" => Cardinality(Pending(results)) <= conf.workers

(* Running the script again in the end leaves a readable file with every    *)
(* row, without errors where it retries them: only run_gemini on a file     *)
(* that is no UTF-8 never gets there, as it has no way to discard it.       *)
Complete ==
    /\ Readable
    /\ \A r \in Rows : Known(r) # "none" /\ (conf.retry => Known(r) = "ok")

RerunsComplete ==
    \/ <>[](pc = "finished" /\ Complete)
    \/ conf.tool = "gemini" /\ <>[](pc = "refused" /\ Worst = "bytes")

(* A run that ends normally leaves a checkpoint that can be resumed and     *)
(* evaluated.  False after a cut in a last line of which the run appends to *)
(* what is read as complete; no run checks it.                              *)
FinishedIsReadable == pc = "finished" => Readable

=============================================================================
