----------------------- MODULE RolloutCheckpointProofs -----------------------
(***************************************************************************)
(* Proofs about RolloutCheckpoint: its types, what a crash may cost, what  *)
(* stays in the file, and what a run that ends may miss, for any number of *)
(* rows, workers, crashes and errors.                                      *)
(***************************************************************************)
EXTENDS RolloutCheckpoint, FiniteSetTheorems, TLAPS

(* Rows of the run that are not in the file yet.                            *)
Unwritten == todo \cup running \cup Pending(results)

(* Between runs there are none: Start takes the types for granted.          *)
TypeInv == TypeOK /\ (pc # "on" => Unwritten = {})

(* Rows the run will not come back to and has no record of.                 *)
Lost == {r \in Rows : /\ Known(r) = "none" /\ r \notin failLog
                      /\ r \notin Unwritten}

(* What is generated or being generated fits the batch or the pool.         *)
HeldInv ==
    conf.tool # "remote" => Cardinality(running \cup Pending(results)) <= conf.workers

(* Rows with a good result in an intact line are not done again, nor is a   *)
(* cut line one of theirs.                                                  *)
KeptInv ==
    /\ \A r \in Unwritten : saved[r] # "ok"
    /\ tail # Whole => saved[tail.row] # "ok"

(* The first append of a run may cost its own row and that of the cut line  *)
(* it continues; no other step costs any.                                   *)
LossInv ==
    /\ crashes = 0 => tail = Whole
    /\ pc \in {"on", "finished"} =>
          /\ Cardinality(Lost) <= 2
          /\ tail # Whole \/ crashes = 0 => Lost = {}

IInv == TypeInv /\ HeldInv /\ KeptInv /\ LossInv

-----------------------------------------------------------------------------
(* Rows.                                                                    *)

LEMMA ConfFacts ==
    ASSUME conf \in Configs
    PROVE  conf.workers \in Nat /\ conf.workers > 0
BY ConfigAssumption DEF ConfigType

LEMMA RowsFinite ==
    ASSUME NEW S \in SUBSET Rows
    PROVE  IsFiniteSet(S) /\ Cardinality(S) \in Nat
BY ConfigAssumption, FS_Subset, FS_CardinalityType

LEMMA UnionFacts ==
    ASSUME NEW S \in SUBSET Rows, NEW T \in SUBSET Rows
    PROVE  /\ Cardinality(S \cup T) <= Cardinality(S) + Cardinality(T)
           /\ S \cap T = {} => Cardinality(S \cup T) = Cardinality(S) + Cardinality(T)
<1>1. /\ IsFiniteSet(S) /\ IsFiniteSet(T)
      /\ Cardinality(S) \in Nat /\ Cardinality(T) \in Nat
  BY RowsFinite
<1>2. Cardinality(S \cap T) \in Nat /\ Cardinality({}) = 0
  BY RowsFinite, FS_EmptySet
<1>3. Cardinality(S \cup T) = Cardinality(S) + Cardinality(T) - Cardinality(S \cap T)
  BY <1>1, FS_Union
<1> QED BY <1>1, <1>2, <1>3

(* The rows with fewer than n rows before them are at most n: the number of *)
(* rows before a row tells them apart.                                      *)
LEMMA FirstRows ==
    ASSUME NEW S \in SUBSET Rows, NEW n \in Nat
    PROVE  Cardinality({r \in S : Cardinality({q \in S : q < r}) < n}) <= n
<1> DEFINE before(r) == {q \in S : q < r}
<1>0. S \subseteq Nat
  BY ConfigAssumption
<1>1. \A r \in S : before(r) \in SUBSET Rows /\ IsFiniteSet(before(r))
                   /\ Cardinality(before(r)) \in Nat
  BY RowsFinite
<1>2. ASSUME NEW r \in S, NEW s \in S, r < s
      PROVE  Cardinality(before(r)) < Cardinality(before(s))
  <2>1. before(r) \cup {r} \subseteq before(s) /\ r \notin before(r)
    <3>1. r \in Nat /\ s \in Nat
      BY <1>0
    <3>2. ASSUME NEW q \in before(r) PROVE q \in before(s)
      BY <1>0, <1>2, <3>1
    <3>3. r \in before(s) /\ r \notin before(r)
      BY <1>2, <3>1
    <3> HIDE DEF before
    <3> QED BY <3>2, <3>3
  <2> HIDE DEF before
  <2>2. /\ IsFiniteSet(before(r) \cup {r})
        /\ Cardinality(before(r) \cup {r}) = Cardinality(before(r)) + 1
    BY <1>1, <2>1, FS_AddElement
  <2>3. Cardinality(before(r) \cup {r}) <= Cardinality(before(s))
    BY <1>1, <2>1, FS_Subset
  <2> QED BY <1>1, <2>2, <2>3
<1> HIDE DEF before
<1> DEFINE first == {r \in S : Cardinality(before(r)) < n}
           f == [r \in first |-> Cardinality(before(r))]
<1>3. f \in [first -> 0 .. n - 1]
  <2>1. ASSUME NEW r \in first PROVE Cardinality(before(r)) \in 0 .. n - 1
    BY <1>1
  <2> QED BY <2>1
<1>4. ASSUME NEW r \in first, NEW s \in first, f[r] = f[s]
      PROVE  r = s
  <2>1. r \in Nat /\ s \in Nat
    BY <1>0
  <2>2. ~(r < s) /\ ~(s < r)
    BY <1>1, <1>2, <1>4
  <2> QED BY <2>1, <2>2
<1>5. f \in Injection(first, 0 .. n - 1)
  BY <1>3, <1>4 DEF Injection, IsInjective
<1>6. IsFiniteSet(0 .. n - 1) /\ Cardinality(0 .. n - 1) = n
  BY FS_Interval
<1>7. Cardinality(first) <= Cardinality(0 .. n - 1)
  BY <1>5, <1>6, FS_Injection
<1> QED BY <1>6, <1>7 DEF before

(* A result that is there or not.                                           *)
LEMMA PendingFacts ==
    ASSUME NEW s \in [Rows -> Outcomes], NEW r \in Rows, NEW v \in Outcomes
    PROVE  /\ Pending(s) \subseteq Rows
           /\ v # "none" => Pending([s EXCEPT ![r] = v]) = Pending(s) \cup {r}
           /\ v = "none" => Pending([s EXCEPT ![r] = v]) = Pending(s) \ {r}
           /\ Pending([q \in Rows |-> "none"]) = {}
BY DEF Pending, Outcomes

-----------------------------------------------------------------------------
LEMMA TypesInit == Init => TypeInv
BY ConfigAssumption DEF Init, TypeInv, TypeOK, Outcomes, Pending, Unwritten

LEMMA TypesStep == TypeInv /\ [Next]_vars => TypeInv'
<1> SUFFICES ASSUME TypeInv, [Next]_vars PROVE TypeInv'
  OBVIOUS
<1>a. todo \subseteq Rows /\ ToDo \subseteq Rows
  BY DEF TypeInv, TypeOK, ToDo
<1> USE DEF TypeInv, TypeOK, Unwritten
<1>1. CASE Start
  BY <1>1, <1>a DEF Start, fileVars, Pending
<1>2. CASE Overwrite
  BY <1>2 DEF Overwrite, Outcomes, Pending
<1>3. CASE Begin
  <2> DEFINE n == IF conf.tool # "local" THEN 1
                  ELSE IF Free < Cardinality(todo) THEN Free ELSE Cardinality(todo)
             next == {r \in todo : Cardinality({q \in todo : q < r}) < n}
  <2>1. running' = running \cup next /\ todo' = todo \ next
    BY <1>3 DEF Begin
  <2>2. next \subseteq todo
    OBVIOUS
  <2> HIDE DEF next
  <2> QED BY <1>3, <2>1, <2>2 DEF Begin, fileVars, Pending
<1>4. ASSUME NEW r \in Rows, Generate(r) PROVE TypeInv'
  <2>1. results' \in [Rows -> Outcomes] /\ Pending(results') = Pending(results) \cup {r}
    BY <1>4, PendingFacts DEF Generate, Outcomes
  <2>2. errors' \in 0 .. MaxErrors
    BY <1>4, ConfigAssumption DEF Generate
  <2> QED BY <1>4, <2>1, <2>2 DEF Generate, fileVars
<1>5. ASSUME NEW r \in Rows, Append(r) PROVE TypeInv'
  <2>1. results' \in [Rows -> Outcomes] /\ Pending(results') = Pending(results) \ {r}
    BY <1>5, PendingFacts DEF Append, Outcomes
  <2>2. results[r] \in Outcomes
    OBVIOUS
  <2>3. saved' \in [Rows -> Outcomes] /\ damage' \in {"no", "line", "bytes"} /\ failLog' \subseteq Rows
    BY <1>5, <2>2 DEF Append
  <2>4. tail' \in {Whole} \cup [cut: Cuts, row: Rows, result: {"ok", "error"}]
    BY <1>5 DEF Append
  <2> QED BY <1>5, <2>1, <2>3, <2>4 DEF Append, MayAppend
<1>6. CASE Finish
  BY <1>6 DEF Finish, fileVars, Pending
<1>7. CASE Crash
  <2>1. tail' \in {Whole} \cup [cut: Cuts, row: Rows, result: {"ok", "error"}]
    BY <1>7 DEF Crash, MayAppend, Cuts, Outcomes
  <2>2. crashes' \in 0 .. MaxCrashes
    BY <1>7, ConfigAssumption DEF Crash
  <2> QED BY <1>7, <2>1, <2>2 DEF Crash, Outcomes, Pending
<1>8. CASE UNCHANGED vars
  BY <1>8 DEF vars, fileVars, runVars, Pending
<1> QED BY <1>1, <1>2, <1>3, <1>4, <1>5, <1>6, <1>7, <1>8 DEF Next

-----------------------------------------------------------------------------
LEMMA HeldStep == TypeInv /\ HeldInv /\ [Next]_vars => HeldInv'
<1> SUFFICES ASSUME TypeOK, HeldInv, [Next]_vars, conf'.tool # "remote"
             PROVE  Cardinality((running \cup Pending(results))') <= conf'.workers
  BY DEF HeldInv, TypeInv
<1> DEFINE held == running \cup Pending(results)
<1>0. /\ conf' = conf /\ conf.workers \in Nat /\ held \in SUBSET Rows
      /\ IsFiniteSet(held) /\ Cardinality(held) \in Nat
  <2>1. conf' = conf
    BY DEF Next, vars, Start, Overwrite, Begin, Generate, Append, Finish, Crash
  <2>2. held \in SUBSET Rows
    BY DEF TypeOK, Pending
  <2> QED BY <2>1, <2>2, ConfFacts, RowsFinite DEF TypeOK
<1>1. ASSUME held' \subseteq held PROVE Cardinality(held') <= conf.workers
  BY <1>0, <1>1, FS_Subset, RowsFinite DEF HeldInv
<1>2. ASSUME Begin PROVE Cardinality(held') <= conf.workers
  <2> DEFINE n == IF conf.tool # "local" THEN 1
                  ELSE IF Free < Cardinality(todo) THEN Free ELSE Cardinality(todo)
             next == {r \in todo : Cardinality({q \in todo : q < r}) < n}
  <2>1. running' = running \cup next /\ results' = results
    BY <1>2 DEF Begin
  <2>2. todo \in SUBSET Rows /\ Cardinality(todo) \in Nat
    BY RowsFinite DEF TypeOK
  <2>3. CASE conf.tool = "local"
    <3>1. running = {} /\ Pending(results) = {} /\ Free = conf.workers
      BY <1>0, <1>2, <2>3 DEF Begin, Free
    <3>2. n \in Nat /\ n <= conf.workers
      BY <1>0, <2>2, <2>3, <3>1
    <3>3. Cardinality(next) <= n
      BY <2>2, <3>2, FirstRows
    <3>4. held' = next /\ Cardinality(next) \in Nat
      BY <2>1, <2>2, <3>1, RowsFinite
    <3> HIDE DEF held, next, n
    <3> QED BY <1>0, <3>2, <3>3, <3>4
  <2>4. CASE conf.tool = "gemini"
    <3>1. /\ running \in SUBSET Rows /\ Pending(results) \in SUBSET Rows
          /\ running \cap Pending(results) = {}
      BY DEF TypeOK, Pending
    <3>2. /\ IsFiniteSet(running) /\ Cardinality(running) \in Nat
          /\ IsFiniteSet(Pending(results)) /\ Cardinality(Pending(results)) \in Nat
      BY <3>1, RowsFinite
    <3>3. Cardinality(held) = Cardinality(running) + Cardinality(Pending(results))
      BY <3>1, UnionFacts
    <3>4. Cardinality(held) + 1 <= conf.workers
      BY <1>0, <1>2, <2>4, <3>2, <3>3 DEF Begin, Free
    <3>5. n = 1 /\ Cardinality(next) <= 1 /\ IsFiniteSet(next) /\ Cardinality(next) \in Nat
      BY <2>2, <2>4, FirstRows, RowsFinite
    <3>6. held' = held \cup next
      BY <2>1
    <3>7. Cardinality(held \cup next) <= Cardinality(held) + Cardinality(next)
      BY <1>0, <2>2, UnionFacts
    <3>8. held' \in SUBSET Rows
      BY <1>0, <2>2, <3>6
    <3>9. Cardinality(held \cup next) \in Nat
      BY <3>6, <3>8, RowsFinite
    <3> HIDE DEF held, next, n
    <3> QED BY <1>0, <3>4, <3>5, <3>6, <3>7, <3>9
  <2> QED BY <1>0, <2>3, <2>4, ConfigAssumption DEF TypeOK, ConfigType
<1>3. ASSUME NEW r \in Rows, Generate(r) PROVE held' \subseteq held
  <2>1. Pending(results') = Pending(results) \cup {r}
    BY <1>3, PendingFacts DEF Generate, TypeOK, Outcomes
  <2> QED BY <1>3, <2>1 DEF Generate
<1>4. ASSUME NEW r \in Rows, Append(r) PROVE held' \subseteq held
  <2>1. Pending(results') = Pending(results) \ {r}
    BY <1>4, PendingFacts DEF Append, TypeOK, Outcomes
  <2> QED BY <1>4, <2>1 DEF Append
<1>5. CASE Crash
  BY <1>0, <1>1, <1>5 DEF Crash, Pending
<1>6. CASE Start \/ Overwrite \/ Finish \/ UNCHANGED vars
  BY <1>0, <1>1, <1>6 DEF Start, Overwrite, Finish, vars, runVars, Pending
<1> QED BY <1>0, <1>1, <1>2, <1>3, <1>4, <1>5, <1>6 DEF Next

LEMMA KeptInit == Init => KeptInv
BY DEF Init, KeptInv, Unwritten, Pending

(* A row of the run is appended once and then is no longer one; a cut line  *)
(* is that of a row of the run.                                             *)
LEMMA KeptStep == TypeInv /\ KeptInv /\ [Next]_vars => KeptInv'
<1> SUFFICES ASSUME TypeInv, TypeOK, KeptInv, [Next]_vars PROVE KeptInv'
  BY DEF TypeInv
<1>0. /\ Unwritten \subseteq Rows /\ Pending(results) \subseteq Rows
      /\ tail # Whole => tail.row \in Rows /\ tail.result \in {"ok", "error"}
  BY DEF TypeOK, Unwritten, Pending
<1>1. CASE Start
  <2>1. \A r \in ToDo : Known(r) # "ok"
    BY DEF ToDo
  <2>2. \A r \in Rows : saved[r] = "ok" => Known(r) = "ok"
    BY DEF Known, KeptInv, Whole
  <2>3. ToDo \subseteq Rows
    BY DEF ToDo
  <2>4. \A r \in Unwritten' : r \in Unwritten \/ r \in ToDo
    BY <1>1 DEF Start, Unwritten, Pending
  <2> QED BY <1>1, <2>1, <2>2, <2>3, <2>4 DEF Start, KeptInv, fileVars
<1>2. CASE Overwrite
  <2>1. Unwritten' \subseteq Rows
    BY <1>2 DEF Overwrite, Unwritten, Pending, TypeOK
  <2> QED BY <1>2, <2>1 DEF Overwrite, KeptInv
<1>3. ASSUME Unwritten' \subseteq Unwritten, saved' = saved, tail' = tail
      PROVE  KeptInv'
  BY <1>3 DEF KeptInv
<1>4. CASE Begin
  <2> DEFINE n == IF conf.tool # "local" THEN 1
                  ELSE IF Free < Cardinality(todo) THEN Free ELSE Cardinality(todo)
             next == {r \in todo : Cardinality({q \in todo : q < r}) < n}
  <2>1. running' = running \cup next /\ todo' = todo \ next /\ next \subseteq todo
    BY <1>4 DEF Begin
  <2> HIDE DEF next
  <2> QED BY <1>3, <1>4, <2>1 DEF Begin, fileVars, Unwritten, Pending
<1>5. ASSUME NEW r \in Rows, Generate(r) PROVE KeptInv'
  <2>1. Pending(results') = Pending(results) \cup {r}
    BY <1>5, PendingFacts DEF Generate, TypeOK, Outcomes
  <2> QED BY <1>3, <1>5, <2>1 DEF Generate, fileVars, Unwritten
<1>6. ASSUME NEW r \in Rows, Append(r) PROVE KeptInv'
  <2>1. /\ Pending(results') = Pending(results) \ {r} /\ r \in Pending(results)
        /\ todo' = todo /\ running' = running
    BY <1>6, PendingFacts DEF Append, MayAppend, TypeOK, Outcomes, Pending
  <2>2. r \notin todo /\ r \notin running
    BY <2>1 DEF TypeOK
  <2>3. Unwritten' = Unwritten \ {r}
    BY <2>1, <2>2 DEF Unwritten
  <2>4. saved' \in {saved, [saved EXCEPT ![r] = results[r]]} /\ tail' \in {tail, Whole}
        /\ (saved' # saved => tail' = Whole)
    BY <1>6 DEF Append
  <2>5. \A q \in Rows : q # r => saved'[q] = saved[q]
    BY <2>4 DEF TypeOK
  <2> QED BY <1>0, <2>3, <2>4, <2>5 DEF KeptInv
<1>7. CASE Finish
  BY <1>3, <1>7 DEF Finish, fileVars, Unwritten, Pending
<1>8. CASE Crash
  <2>1. Unwritten' = {} /\ saved' = saved
    BY <1>8 DEF Crash, Unwritten, Pending
  <2>2. \/ tail' = tail
        \/ \E r \in Rows : tail'.row = r /\ results[r] # "none"
    BY <1>8 DEF Crash, MayAppend
  <2> QED BY <2>1, <2>2 DEF KeptInv, Unwritten, Pending
<1>9. CASE UNCHANGED vars
  BY <1>3, <1>9 DEF vars, fileVars, runVars, Unwritten, Pending
<1> QED BY <1>1, <1>2, <1>4, <1>5, <1>6, <1>7, <1>8, <1>9 DEF Next

-----------------------------------------------------------------------------
LEMMA LossInit == Init => LossInv
BY DEF Init, LossInv

LEMMA LossStep == TypeInv /\ LossInv /\ [Next]_vars => LossInv'
<1> SUFFICES ASSUME TypeInv, TypeOK, LossInv, [Next]_vars PROVE LossInv'
  BY DEF TypeInv
<1>0. /\ Cardinality({}) = 0
      /\ \A S \in SUBSET Rows : IsFiniteSet(S) /\ Cardinality(S) \in Nat
      /\ crashes \in Nat
      /\ Lost \subseteq Rows
  BY RowsFinite, FS_EmptySet, ConfigAssumption DEF TypeOK, Lost
<1>1. ASSUME Lost' = {}, crashes' = 0 => tail' = Whole
      PROVE  LossInv'
  BY <1>0, <1>1 DEF LossInv
<1>2. ASSUME Lost' \subseteq Lost, tail' = tail, crashes' = crashes, pc = "on"
      PROVE  LossInv'
  <2>1. Cardinality(Lost') <= Cardinality(Lost)
    BY <1>0, <1>2, FS_Subset
  <2>2. Cardinality(Lost') \in Nat /\ Cardinality(Lost) \in Nat
    BY <1>0, <1>2
  <2>3. /\ Cardinality(Lost) <= 2
        /\ tail # Whole \/ crashes = 0 => Lost = {}
        /\ crashes = 0 => tail = Whole
    BY <1>2 DEF LossInv
  <2>4. Cardinality(Lost') <= 2
    BY <2>1, <2>2, <2>3
  <2> QED BY <1>2, <2>3, <2>4 DEF LossInv
<1>3. CASE Start
  <2>1. CASE Readable
    <3>1. ToDo \subseteq Unwritten' /\ failLog' = failLog
          /\ tail' = tail /\ crashes' = crashes /\ saved' = saved
      BY <1>3, <2>1 DEF Start, Unwritten, fileVars
    <3>2. \A r \in Rows : Known(r)' = Known(r)
      BY <3>1 DEF Known
    <3>3. \A r \in Rows : Known(r) = "none" => r \in ToDo
      BY DEF ToDo
    <3>4. Lost' = {}
      BY <3>1, <3>2, <3>3 DEF Lost
    <3> QED BY <1>1, <3>1, <3>4 DEF LossInv
  <2>2. CASE ~Readable
    BY <1>3, <2>2 DEF Start, LossInv, fileVars
  <2> QED BY <2>1, <2>2
<1>4. CASE Overwrite
  <2>1. Lost' = {}
    BY <1>4 DEF Overwrite, Lost, Unwritten
  <2> QED BY <1>1, <1>4, <2>1 DEF Overwrite
<1>5. ASSUME pc = "on", Unwritten' = Unwritten, UNCHANGED fileVars, crashes' = crashes
      PROVE  LossInv'
  <2>1. \A r \in Rows : Known(r)' = Known(r)
    BY <1>5 DEF Known, fileVars
  <2>2. Lost' \subseteq Lost
    BY <1>5, <2>1 DEF Lost, fileVars
  <2> QED BY <1>2, <1>5, <2>2 DEF fileVars
<1>6. CASE Begin
  <2> DEFINE n == IF conf.tool # "local" THEN 1
                  ELSE IF Free < Cardinality(todo) THEN Free ELSE Cardinality(todo)
             next == {r \in todo : Cardinality({q \in todo : q < r}) < n}
  <2>1. running' = running \cup next /\ todo' = todo \ next /\ next \subseteq todo
    BY <1>6 DEF Begin
  <2> HIDE DEF next
  <2>2. Unwritten' = Unwritten
    BY <1>6, <2>1 DEF Begin, Unwritten, Pending
  <2> QED BY <1>5, <1>6, <2>2 DEF Begin
<1>7. ASSUME NEW r \in Rows, Generate(r) PROVE LossInv'
  <2>1. Pending(results') = Pending(results) \cup {r}
    BY <1>7, PendingFacts DEF Generate, TypeOK, Outcomes
  <2>2. Unwritten' = Unwritten
    BY <1>7, <2>1 DEF Generate, Unwritten
  <2> QED BY <1>5, <1>7, <2>2 DEF Generate
<1>8. ASSUME NEW r \in Rows, Append(r) PROVE LossInv'
  <2>1. /\ Pending(results') = Pending(results) \ {r} /\ r \in Pending(results)
        /\ results[r] \in {"ok", "error"}
        /\ pc = "on" /\ todo' = todo /\ running' = running /\ crashes' = crashes
    BY <1>8, PendingFacts DEF Append, MayAppend, TypeOK, Outcomes, Pending
  <2>2. Unwritten' \cup {r} = Unwritten
    BY <2>1 DEF Unwritten
  <2>3. CASE conf.tool = "gemini" /\ results[r] = "error"
    <3>1. failLog' = failLog \cup {r} /\ saved' = saved /\ tail' = tail
      BY <1>8, <2>3 DEF Append
    <3>2. \A q \in Rows : Known(q)' = Known(q)
      BY <3>1 DEF Known
    <3>3. Lost' \subseteq Lost
      BY <2>2, <3>1, <3>2 DEF Lost
    <3> QED BY <1>2, <2>1, <3>1, <3>3
  <2>4. CASE ~(conf.tool = "gemini" /\ results[r] = "error") /\ tail = Whole
    <3>1. failLog' = failLog /\ saved' = [saved EXCEPT ![r] = results[r]] /\ tail' = tail
      BY <1>8, <2>4 DEF Append
    <3>2. \A q \in Rows : Known(q)' = saved'[q] /\ Known(q) = saved[q]
      BY <2>4, <3>1 DEF Known, Whole
    <3>3. saved'[r] # "none" /\ \A q \in Rows : q # r => saved'[q] = saved[q]
      BY <2>1, <3>1 DEF TypeOK
    <3>4. Lost' \subseteq Lost
      BY <2>2, <3>1, <3>2, <3>3 DEF Lost
    <3> QED BY <1>2, <2>1, <3>1, <3>4
  <2>5. CASE ~(conf.tool = "gemini" /\ results[r] = "error") /\ tail # Whole
    <3>1. failLog' = failLog /\ saved' = saved /\ tail' = Whole
      BY <1>8, <2>5 DEF Append
    <3>2. Lost = {} /\ crashes # 0
      BY <2>1, <2>5 DEF LossInv
    <3>3. ASSUME NEW q \in Lost' PROVE q \in {r, tail.row}
      <4>1. q \in Rows /\ saved[q] = "none" /\ q \notin failLog /\ q \notin Unwritten'
        BY <3>1, <3>3 DEF Lost, Known, Whole
      <4>2. SUFFICES ASSUME q # r, q # tail.row PROVE FALSE
        OBVIOUS
      <4>3. Known(q) = "none" /\ q \notin Unwritten
        BY <2>2, <4>1, <4>2 DEF Known
      <4> QED BY <3>2, <4>1, <4>3 DEF Lost
    <3>4. tail.row \in Rows
      BY <2>5 DEF TypeOK
    <3>5. /\ IsFiniteSet({r, tail.row}) /\ Cardinality({r, tail.row}) \in Nat
          /\ Cardinality({r, tail.row}) <= 2
      <4>1. IsFiniteSet({r}) /\ Cardinality({r}) = 1
        BY FS_Singleton
      <4>2. {r, tail.row} = {r} \cup {tail.row}
        OBVIOUS
      <4> QED BY <4>1, <4>2, FS_AddElement
    <3>6. Lost' \subseteq {r, tail.row}
      BY <3>3
    <3>7. Cardinality(Lost') <= Cardinality({r, tail.row}) /\ Cardinality(Lost') \in Nat
      <4>1. Cardinality(Lost') <= Cardinality({r, tail.row})
        BY <3>5, <3>6, FS_Subset
      <4>2. Lost' \in SUBSET Rows
        BY <3>4, <3>6
      <4> QED BY <1>0, <4>1, <4>2
    <3>8. Cardinality(Lost') <= 2
      BY <3>5, <3>7
    <3> QED BY <2>1, <3>1, <3>2, <3>8 DEF LossInv
  <2> QED BY <2>3, <2>4, <2>5
<1>9. CASE Finish
  BY <1>5, <1>9 DEF Finish, Unwritten, Pending
<1>10. CASE Crash
  BY <1>0, <1>10 DEF Crash, LossInv
<1>11. CASE UNCHANGED vars
  <2>1. /\ Unwritten' = Unwritten /\ pc' = pc /\ crashes' = crashes
        /\ saved' = saved /\ tail' = tail /\ failLog' = failLog
    BY <1>11 DEF vars, fileVars, runVars, Unwritten, Pending
  <2>2. Lost' = Lost
    BY <2>1 DEF Lost, Known
  <2> QED BY <2>1, <2>2 DEF LossInv
<1> QED BY <1>3, <1>4, <1>6, <1>7, <1>8, <1>9, <1>10, <1>11 DEF Next

-----------------------------------------------------------------------------
THEOREM Invariant == Spec => []IInv
<1>1. Init => IInv
  <2>1. Init => HeldInv
    BY ConfFacts, FS_EmptySet DEF Init, HeldInv, Pending
  <2> QED BY <2>1, TypesInit, KeptInit, LossInit DEF IInv
<1>2. IInv /\ [Next]_vars => IInv'
  BY TypesStep, HeldStep, KeptStep, LossStep DEF IInv
<1> QED BY <1>1, <1>2, PTL DEF Spec

(* Types, and nothing is left over between runs.                            *)
THEOREM TypesHold == Spec => []TypeOK
<1>1. IInv => TypeOK
  BY DEF IInv, TypeInv
<1> QED BY Invariant, <1>1, PTL

(* A crash of a local run or of run_gemini costs at most a batch, or a      *)
(* result of each thread.                                                   *)
THEOREM CrashCostBounded == Spec => []UnsavedBounded
<1>1. IInv => UnsavedBounded
  <2> SUFFICES ASSUME IInv, conf.tool # "remote"
               PROVE  Cardinality(Pending(results)) <= conf.workers
    BY DEF UnsavedBounded
  <2>1. /\ running \cup Pending(results) \in SUBSET Rows
        /\ Pending(results) \in SUBSET (running \cup Pending(results))
        /\ conf.workers \in Nat
    BY ConfFacts DEF IInv, TypeInv, TypeOK, Pending
  <2>2. /\ IsFiniteSet(running \cup Pending(results))
        /\ Cardinality(running \cup Pending(results)) \in Nat
        /\ Cardinality(Pending(results)) \in Nat
    BY <2>1, RowsFinite
  <2>3. Cardinality(Pending(results)) <= Cardinality(running \cup Pending(results))
    BY <2>1, <2>2, FS_Subset
  <2>4. Cardinality(running \cup Pending(results)) <= conf.workers
    BY DEF IInv, HeldInv
  <2> QED BY <2>1, <2>2, <2>3, <2>4
<1> QED BY Invariant, <1>1, PTL

(* A run that ends normally has all rows, or all but two after a crash.     *)
THEOREM FewRowsMissing == Spec => []MissingBounded
<1>1. IInv => MissingBounded
  <2> SUFFICES ASSUME IInv, pc = "finished"
               PROVE  Cardinality(Missing) <= IF crashes = 0 THEN 0 ELSE 2
    BY DEF MissingBounded
  <2>1. Missing = Lost
    BY DEF IInv, TypeInv, Missing, Lost
  <2> QED BY <2>1, FS_EmptySet DEF IInv, LossInv
<1> QED BY Invariant, <1>1, PTL

(* A good result in an intact line is replaced by nothing but --overwrite.  *)
THEOREM GoodResultsStay == Spec => ResultsKept
<1>1. ASSUME IInv, [Next]_vars, NEW r \in Rows, saved[r] = "ok", pc # "refused"
      PROVE  saved'[r] = "ok"
  <2>1. CASE \E q \in Rows : Append(q)
    <3> PICK q \in Rows : Append(q)
      BY <2>1
    <3>1. q # r
      BY <1>1 DEF Append, MayAppend, IInv, KeptInv, Unwritten, Pending
    <3> QED BY <1>1, <3>1 DEF Append, IInv, TypeInv, TypeOK
  <2>2. CASE ~\E q \in Rows : Append(q)
    BY <1>1, <2>2 DEF Next, vars, fileVars, Start, Overwrite, Begin, Generate, Finish, Crash
  <2> QED BY <2>1, <2>2
<1>2. IInv /\ [Next]_vars => [\A r \in Rows : saved[r] = "ok" => saved'[r] = "ok" \/ pc = "refused"]_vars
  BY <1>1
<1> QED BY Invariant, <1>2, PTL DEF Spec, ResultsKept

=============================================================================
