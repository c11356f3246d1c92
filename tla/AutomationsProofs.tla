-------------------------- MODULE AutomationsProofs --------------------------
(***************************************************************************)
(* Proofs about Automations, for any automations, handlers and bounds: the *)
(* type invariant, and that the cooldown is kept.                          *)
(***************************************************************************)
EXTENDS Automations, TLAPS

\* The row of r, or the copy that a handler is about to save, knows of the
\* execution, or a handler is about to record it.
Remembered(r) ==
  \/ rule[r].recent
  \/ \E h \in Handlers :
       cur[h] = r /\ (pc[h] = "record" \/ (pc[h] # "rules" /\ copies[h][r].recent))

\* An execution in the running cooldown is not forgotten.
Counted(r) == runs[r] = 0 \/ (runs[r] = 1 /\ Remembered(r))

Inv == TypeOK /\ \A r \in Cooling : r \in loose \/ Counted(r)

USE RuleConstants

-----------------------------------------------------------------------------
(* What the actions are built from.                                        *)

\* Changing one copy of what was read leaves the others as they are.
LEMMA ChangedCopy ==
  ASSUME NEW c \in Copies, NEW r \in DOMAIN c, NEW x \in RuleRows
  PROVE  /\ [c EXCEPT ![r] = x] \in Copies
         /\ DOMAIN [c EXCEPT ![r] = x] = DOMAIN c
  BY DEF Copies

\* Reading some rows of the table, or letting some copies go.
LEMMA RestrictedCopies ==
  ASSUME NEW c \in Copies, NEW S \in SUBSET DOMAIN c
  PROVE  /\ Restrict(c, S) \in Copies
         /\ DOMAIN Restrict(c, S) = S
  <1>1. Restrict(c, S) = [r \in S |-> c[r]]
    BY DEF Restrict
  <1>2. S \in SUBSET Rules /\ \A r \in S : c[r] \in RuleRows
    BY DEF Copies
  <1>3. [r \in S |-> c[r]] \in [S -> RuleRows]
    BY <1>2
  <1> QED  BY <1>1, <1>2, <1>3 DEF Copies

\* Having read nothing.
LEMMA NothingRead == NoCopies \in Copies /\ DOMAIN NoCopies = {}
  <1>1. NoCopies \in [{} -> RuleRows] /\ DOMAIN NoCopies = {}
    BY DEF NoCopies
  <1>2. {} \in SUBSET Rules
    OBVIOUS
  <1> QED  BY <1>1, <1>2 DEF Copies

\* What users and time make of a row is a row.
LEMMA RowTypes ==
  ASSUME NEW row \in RuleRows
  PROVE  /\ \A op \in RuleOps : EditedRule(op, row) \in RuleRows
         /\ RecordExecution(row) \in RuleRows
         /\ RecordError(row) \in RuleRows
         /\ Aged(row) \in RuleRows
         /\ [row EXCEPT !.removed = TRUE] \in RuleRows
  BY DEF RuleRows, RuleStatuses, RuleOps, EditedRule, Switched, RecordExecution,
         RecordError, Aged

\* No change of a row makes it forget an execution.
LEMMA RowsRemember ==
  ASSUME NEW row \in RuleRows, row.recent
  PROVE  /\ \A op \in RuleOps : EditedRule(op, row).recent
         /\ RecordError(row).recent
         /\ [row EXCEPT !.removed = TRUE].recent
  BY DEF RuleRows, EditedRule, Switched, RecordError

\* After an execution is recorded the row knows of it.
LEMMA RecordRemembers ==
  ASSUME NEW row \in RuleRows
  PROVE  RecordExecution(row).recent
  BY DEF RuleRows, RecordExecution

-----------------------------------------------------------------------------
(* The type invariant.                                                     *)

LEMMA TypeInit == Init => TypeOK
  <1> SUFFICES ASSUME Init PROVE TypeOK
    OBVIOUS
  <1>1. \A on \in BOOLEAN : NewRule(on) \in RuleRows
    BY DEF NewRule, Switched, RuleRows, RuleStatuses
  <1>2. rule \in [Rules -> RuleRows]
    BY <1>1 DEF Init
  <1> QED  BY <1>2, NothingRead DEF Init, TypeOK

\* One step of each action keeps the types.
LEMMA TypeStep == TypeOK /\ [Next]_vars => TypeOK'
  <1> SUFFICES ASSUME TypeOK, [Next]_vars PROVE TypeOK'
    OBVIOUS
  <1>0. NoCopies \in Copies /\ DOMAIN NoCopies = {}
    BY NothingRead
  <1>1. CASE UNCHANGED vars
    BY <1>1 DEF vars, TypeOK
  <1>2. ASSUME NEW q \in RuleRequests, RuleRead(q) PROVE TypeOK'
    <2>1. PICK r \in Rules, op \in RuleOps :
            edit' = [edit EXCEPT ![q] = [op |-> op, id |-> r, copy |-> rule[r]]]
      BY <1>2 DEF RuleRead
    <2>2. [op |-> op, id |-> r, copy |-> rule[r]] \in RuleEdits
      BY DEF TypeOK, RuleEdits
    <2> QED  BY <1>2, <2>1, <2>2 DEF RuleRead, TypeOK, handlerVars
  <1>3. ASSUME NEW q \in RuleRequests, RuleSave(q) PROVE TypeOK'
    <2>1. edit[q] \in RuleEdits
      BY <1>3 DEF RuleSave, TypeOK
    <2>2. /\ edit[q].id \in Rules /\ edit[q].op \in RuleOps
          /\ edit[q].copy \in RuleRows
      BY <2>1 DEF RuleEdits
    <2>3. /\ EditedRule(edit[q].op, edit[q].copy) \in RuleRows
          /\ [rule[edit[q].id] EXCEPT !.removed = TRUE] \in RuleRows
      BY <2>2, RowTypes DEF TypeOK
    <2>4. rule' \in [Rules -> RuleRows] /\ loose' \subseteq Rules
      BY <1>3, <2>2, <2>3 DEF RuleSave, SaveRule, TypeOK
    <2> QED  BY <1>3, <2>4 DEF RuleSave, TypeOK, handlerVars, boundVars
  <1>4. ASSUME NEW h \in Handlers, ProcessTelemetry(h) PROVE TypeOK'
    <2>1. PICK S \in SUBSET Rules :
            copies' = [copies EXCEPT ![h] = Restrict(rule, Watching \cap S)]
      BY <1>4 DEF ProcessTelemetry
    <2>2. rule \in Copies /\ DOMAIN rule = Rules
      BY DEF TypeOK, Copies
    <2>3. Restrict(rule, Watching \cap S) \in Copies
      BY <2>2, RestrictedCopies DEF Watching
    <2> QED  BY <1>4, <2>1, <2>3 DEF ProcessTelemetry, GoTo, TypeOK
  <1>5. ASSUME NEW h \in Handlers, ExecuteAction(h) PROVE TypeOK'
    <2>1. PICK r \in Runnable(h) :
            /\ cur' = [cur EXCEPT ![h] = r]
            /\ pc' \in {[pc EXCEPT ![h] = "record"], [pc EXCEPT ![h] = "error"]}
            /\ failures' \in 0..MaxFailures
            /\ runs' \in [Rules -> Nat] /\ loose' \subseteq Rules
      <3>1. PICK r \in Runnable(h) :
              /\ cur' = [cur EXCEPT ![h] = r]
              /\ \/ /\ runs' = [runs EXCEPT ![r] = @ + 1]
                    /\ loose' = IF BusyWith(r, h) \/ copies[h][r] # rule[r]
                                THEN loose \cup {r} ELSE loose
                    /\ pc' = [pc EXCEPT ![h] = "record"]
                    /\ failures' = failures
                 \/ /\ MayFail
                    /\ pc' = [pc EXCEPT ![h] = "error"]
                    /\ runs' = runs /\ loose' = loose
        BY <1>5 DEF ExecuteAction, GoTo
      <3>2. r \in Rules
        BY DEF Runnable, TypeOK, Copies
      <3>3. failures' \in 0..MaxFailures
        BY <3>1 DEF MayFail, TypeOK
      <3>4. runs' \in [Rules -> Nat] /\ loose' \subseteq Rules
        BY <3>1, <3>2 DEF TypeOK
      <3> QED  BY <3>1, <3>3, <3>4
    <2>2. r \in DOMAIN copies[h] /\ r \in Rules
      BY DEF Runnable, TypeOK, Copies
    <2> QED  BY <1>5, <2>1, <2>2 DEF ExecuteAction, TypeOK
  <1>6. ASSUME NEW h \in Handlers, pc[h] \in {"record", "error", "again"}
        PROVE  /\ cur[h] \in DOMAIN copies[h] /\ cur[h] \in Rules
               /\ copies[h] \in Copies /\ copies[h][cur[h]] \in RuleRows
               /\ RecordExecution(copies[h][cur[h]]) \in RuleRows
               /\ RecordError(copies[h][cur[h]]) \in RuleRows
    <2>1. /\ cur[h] \in DOMAIN copies[h] /\ copies[h] \in Copies
          /\ cur[h] \in Rules /\ copies[h][cur[h]] \in RuleRows
      BY <1>6 DEF TypeOK, Copies
    <2> QED  BY <2>1, RowTypes
  <1>7. ASSUME NEW h \in Handlers, pc[h] \in {"record", "error", "again"}, NextRule(h)
        PROVE  /\ pc' = [pc EXCEPT ![h] = "rules"] /\ cur' = [cur EXCEPT ![h] = None]
               /\ copies' \in [Handlers -> Copies]
               /\ \A k \in Handlers \ {h} : copies'[k] = copies[k]
    <2>1. Restrict(copies[h], DOMAIN copies[h] \ {cur[h]}) \in Copies
      BY <1>6, <1>7, RestrictedCopies
    <2> QED  BY <1>7, <2>1 DEF NextRule, GoTo, TypeOK
  <1>8. ASSUME NEW h \in Handlers, pc[h] \in {"record", "error", "again"},
               NEW new \in RuleRows, NEW label, Catch(h, new, label)
        PROVE  /\ pc' = [pc EXCEPT ![h] = label] /\ cur' = cur
               /\ copies' \in [Handlers -> Copies]
               /\ \A k \in Handlers : DOMAIN copies'[k] = DOMAIN copies[k]
    <2>1. /\ [copies[h] EXCEPT ![cur[h]] = new] \in Copies
          /\ DOMAIN [copies[h] EXCEPT ![cur[h]] = new] = DOMAIN copies[h]
      BY <1>6, <1>8, ChangedCopy
    <2>2. copies' = [copies EXCEPT ![h] = [copies[h] EXCEPT ![cur[h]] = new]]
      BY <1>8 DEF Catch
    <2> QED  BY <1>8, <2>1, <2>2 DEF Catch, GoTo, TypeOK
  <1>9. ASSUME NEW h \in Handlers, RecordRun(h) PROVE TypeOK'
    <2>1. /\ pc[h] = "record"
          /\ \/ /\ SaveRule(cur[h], copies[h][cur[h]],
                            RecordExecution(copies[h][cur[h]]))
                /\ NextRule(h) /\ UNCHANGED failures
             \/ /\ MayFail /\ UNCHANGED <<rule, loose>>
                /\ Catch(h, RecordExecution(copies[h][cur[h]]), "error")
      BY <1>9 DEF RecordRun
    <2>2. rule' \in [Rules -> RuleRows] /\ loose' \subseteq Rules
      BY <2>1, <1>6 DEF SaveRule, TypeOK
    <2>3. failures' \in 0..MaxFailures
      BY <2>1 DEF MayFail, TypeOK
    <2>4. CASE NextRule(h)
      BY <1>9, <2>1, <2>2, <2>3, <2>4, <1>7 DEF RecordRun, TypeOK
    <2>5. CASE Catch(h, RecordExecution(copies[h][cur[h]]), "error")
      <3>1. /\ pc' = [pc EXCEPT ![h] = "error"] /\ cur' = cur
            /\ copies' \in [Handlers -> Copies]
            /\ \A k \in Handlers : DOMAIN copies'[k] = DOMAIN copies[k]
        BY <2>1, <2>5, <1>6, <1>8
      <3> QED  BY <1>9, <2>1, <2>2, <2>3, <3>1 DEF RecordRun, TypeOK
    <2> QED  BY <2>1, <2>4, <2>5
  <1>10. ASSUME NEW h \in Handlers, RecordFailure(h) PROVE TypeOK'
    <2>1. /\ pc[h] = "error"
          /\ \/ /\ SaveRule(cur[h], copies[h][cur[h]],
                            RecordError(copies[h][cur[h]]))
                /\ UNCHANGED failures
             \/ MayFail /\ UNCHANGED <<rule, loose>>
          /\ Catch(h, RecordError(copies[h][cur[h]]), "again")
      BY <1>10 DEF RecordFailure
    <2>2. rule' \in [Rules -> RuleRows] /\ loose' \subseteq Rules
      BY <2>1, <1>6 DEF SaveRule, TypeOK
    <2>3. failures' \in 0..MaxFailures
      BY <2>1 DEF MayFail, TypeOK
    <2>4. /\ pc' = [pc EXCEPT ![h] = "again"] /\ cur' = cur
          /\ copies' \in [Handlers -> Copies]
          /\ \A k \in Handlers : DOMAIN copies'[k] = DOMAIN copies[k]
      BY <2>1, <1>6, <1>8
    <2> QED  BY <1>10, <2>1, <2>2, <2>3, <2>4 DEF RecordFailure, TypeOK
  <1>11. ASSUME NEW h \in Handlers, RecordFailureAgain(h) PROVE TypeOK'
    <2>1. CASE /\ SaveRule(cur[h], copies[h][cur[h]], copies[h][cur[h]])
               /\ NextRule(h) /\ UNCHANGED failures
      <3>1. rule' \in [Rules -> RuleRows] /\ loose' \subseteq Rules
        BY <1>11, <2>1, <1>6 DEF RecordFailureAgain, SaveRule, TypeOK
      <3> QED  BY <1>11, <2>1, <3>1, <1>7 DEF RecordFailureAgain, TypeOK
    <2>2. CASE /\ MayFail
               /\ loose' = loose \cup {cur[h]}
               /\ cur' = [cur EXCEPT ![h] = None]
               /\ copies' = [copies EXCEPT ![h] = NoCopies]
               /\ GoTo(h, "rules")
               /\ UNCHANGED rule
      BY <1>11, <2>2, <1>6, <1>0 DEF RecordFailureAgain, MayFail, GoTo, TypeOK
    <2> QED  BY <1>11, <2>1, <2>2 DEF RecordFailureAgain
  <1>12. ASSUME NEW h \in Handlers, Done(h) PROVE TypeOK'
    BY <1>12, <1>0 DEF Done, GoTo, TypeOK, boundVars
  <1>13. ASSUME NEW h \in Handlers, Die(h) PROVE TypeOK'
    BY <1>13, <1>0 DEF Die, GoTo, TypeOK
  <1>14. CASE CooldownPasses
    <2>1. rule' \in [Rules -> RuleRows]
      BY <1>14, RowTypes DEF CooldownPasses, TypeOK
    <2>2. edit' \in [RuleRequests -> RuleEdits \cup {None}]
      BY <1>14, RowTypes DEF CooldownPasses, TypeOK, RuleEdits
    <2>3. ASSUME NEW h \in Handlers
          PROVE  /\ copies'[h] \in Copies
                 /\ DOMAIN copies'[h] = DOMAIN copies[h]
      <3>1. copies'[h] = [r \in DOMAIN copies[h] |-> Aged(copies[h][r])]
        BY <1>14 DEF CooldownPasses
      <3>2. \A r \in DOMAIN copies[h] : Aged(copies[h][r]) \in RuleRows
        <4>1. \A r \in DOMAIN copies[h] : copies[h][r] \in RuleRows
          BY DEF TypeOK, Copies
        <4> QED  BY <4>1, RowTypes
      <3>3. DOMAIN copies[h] \in SUBSET Rules
        BY DEF TypeOK, Copies
      <3> QED  BY <3>1, <3>2, <3>3 DEF Copies
    <2>4. copies' \in [Handlers -> Copies]
      BY <1>14, <2>3 DEF CooldownPasses
    <2> QED  BY <1>14, <2>1, <2>2, <2>3, <2>4 DEF CooldownPasses, TypeOK
  <1> QED  BY <1>1, <1>2, <1>3, <1>4, <1>5, <1>9, <1>10, <1>11, <1>12, <1>13, <1>14
           DEF Next, Handle

\* Rows, requests and handlers keep their types, for any number of them.
THEOREM TypeCorrect == Spec => []TypeOK
  <1> QED  BY TypeInit, TypeStep, PTL DEF Spec

-----------------------------------------------------------------------------
(* The cooldown.                                                           *)

\* A handler whose row and copy of r stay what they were goes on remembering.
LEMMA SavedRow ==
  ASSUME TypeOK, NEW r \in Rules, NEW s \in Rules, NEW copy \in RuleRows,
         NEW new \in RuleRows, SaveRule(s, copy, new),
         copy.recent => new.recent, r \notin loose'
  PROVE  /\ r \notin loose
         /\ rule[r].recent => rule'[r].recent
         /\ r = s => rule[r] = copy /\ rule'[r] = new
  BY DEF SaveRule, TypeOK

LEMMA CountedStep ==
  ASSUME Inv, [Next]_vars, NEW r \in Cooling, r \notin loose'
  PROVE  Counted(r)'
  <1> r \in Rules /\ TypeOK
    BY DEF Inv
  <1>0. TypeOK'
    BY TypeStep
  <1>1. ASSUME r \notin loose PROVE Counted(r) /\ runs[r] \in Nat
    BY <1>1 DEF Inv, TypeOK
  <1>2. CASE UNCHANGED vars
    BY <1>1, <1>2 DEF vars, Counted, Remembered
  <1>3. ASSUME NEW q \in RuleRequests, RuleRead(q) PROVE Counted(r)'
    BY <1>1, <1>3 DEF RuleRead, handlerVars, Counted, Remembered
  <1>4. ASSUME NEW q \in RuleRequests, RuleSave(q) PROVE Counted(r)'
    <2>1. edit[q].id \in Rules /\ edit[q].op \in RuleOps /\ edit[q].copy \in RuleRows
      BY <1>4 DEF RuleSave, TypeOK, RuleEdits
    <2>2. /\ EditedRule(edit[q].op, edit[q].copy) \in RuleRows
          /\ edit[q].copy.recent => EditedRule(edit[q].op, edit[q].copy).recent
      BY <2>1, RowTypes, RowsRemember
    <2>3. r \notin loose /\ (rule[r].recent => rule'[r].recent)
      <3>1. CASE /\ rule' = [rule EXCEPT ![edit[q].id].removed = TRUE]
                 /\ UNCHANGED loose
        BY <3>1, RowsRemember DEF TypeOK
      <3>2. CASE SaveRule(edit[q].id, edit[q].copy,
                          EditedRule(edit[q].op, edit[q].copy))
        BY <2>1, <2>2, <3>2, SavedRow
      <3> QED  BY <1>4, <3>1, <3>2 DEF RuleSave
    <2> QED  BY <1>1, <1>4, <2>3 DEF RuleSave, handlerVars, Counted, Remembered
  <1>5. ASSUME NEW h \in Handlers, ProcessTelemetry(h) PROVE Counted(r)'
    <2>1. \A k \in Handlers : pc[k] = "idle" => cur[k] = None
      BY DEF TypeOK
    <2>2. /\ rule' = rule /\ cur' = cur /\ runs' = runs /\ loose' = loose
          /\ \A k \in Handlers \ {h} : pc'[k] = pc[k] /\ copies'[k] = copies[k]
          /\ cur[h] # r
      BY <1>5, <2>1 DEF ProcessTelemetry, GoTo, TypeOK
    <2> QED  BY <1>1, <2>2 DEF Counted, Remembered
  <1>6. ASSUME NEW h \in Handlers, ExecuteAction(h) PROVE Counted(r)'
    <2>1. /\ pc[h] = "rules" /\ cur[h] = None
          /\ rule' = rule /\ copies' = copies
          /\ \A k \in Handlers \ {h} : cur'[k] = cur[k] /\ pc'[k] = pc[k]
      BY <1>6 DEF ExecuteAction, GoTo, MayFail, TypeOK
    <2>2. PICK s \in Runnable(h) :
            /\ cur' = [cur EXCEPT ![h] = s]
            /\ \/ /\ runs' = [runs EXCEPT ![s] = @ + 1]
                  /\ loose' = IF BusyWith(s, h) \/ copies[h][s] # rule[s]
                              THEN loose \cup {s} ELSE loose
                  /\ pc' = [pc EXCEPT ![h] = "record"]
               \/ runs' = runs /\ loose' = loose
      BY <1>6 DEF ExecuteAction, GoTo
    <2>3. r \notin loose
      BY <2>2
    <2>4. CASE runs' = runs
      <3>1. Remembered(r) => Remembered(r)'
        BY <2>1 DEF Remembered
      <3> QED  BY <1>1, <2>3, <2>4, <3>1 DEF Counted
    <2>5. CASE /\ runs' = [runs EXCEPT ![s] = @ + 1]
               /\ loose' = IF BusyWith(s, h) \/ copies[h][s] # rule[s]
                           THEN loose \cup {s} ELSE loose
               /\ pc' = [pc EXCEPT ![h] = "record"]
      <3>1. CASE s = r
        <4>1. ~BusyWith(r, h) /\ copies[h][r] = rule[r]
          BY <2>5, <3>1
        <4>2. ~rule[r].recent
          BY <3>1, <4>1 DEF Runnable, CanExecute
        <4>3. ~Remembered(r)
          BY <2>1, <4>1, <4>2 DEF Remembered, BusyWith
        <4>4. runs[r] = 0
          BY <1>1, <2>3, <4>3 DEF Counted
        <4>5. runs'[r] = 1
          BY <2>5, <3>1, <4>4 DEF TypeOK
        <4>6. cur'[h] = r /\ pc'[h] = "record"
          BY <2>2, <2>5, <3>1 DEF TypeOK
        <4>7. Remembered(r)'
          BY <4>6 DEF Remembered
        <4> QED  BY <4>5, <4>7 DEF Counted
      <3>2. CASE s # r
        <4>1. runs'[r] = runs[r]
          BY <2>5, <3>2 DEF TypeOK
        <4>2. Remembered(r) => Remembered(r)'
          BY <2>1 DEF Remembered
        <4> QED  BY <1>1, <2>3, <4>1, <4>2 DEF Counted
      <3> QED  BY <3>1, <3>2
    <2> QED  BY <2>2, <2>4, <2>5
  <1>7. ASSUME NEW h \in Handlers, pc[h] \in {"record", "error", "again"}
        PROVE  /\ cur[h] \in Rules /\ cur[h] \in DOMAIN copies[h]
               /\ copies[h][cur[h]] \in RuleRows
               /\ RecordExecution(copies[h][cur[h]]) \in RuleRows
               /\ RecordError(copies[h][cur[h]]) \in RuleRows
    <2>1. /\ cur[h] \in DOMAIN copies[h]
          /\ cur[h] \in Rules /\ copies[h][cur[h]] \in RuleRows
      BY <1>7 DEF TypeOK, Copies
    <2> QED  BY <2>1, RowTypes
  <1>8. ASSUME NEW h \in Handlers, NextRule(h)
        PROVE  \A k \in Handlers \ {h} : /\ pc'[k] = pc[k] /\ cur'[k] = cur[k]
                                         /\ copies'[k] = copies[k]
    BY <1>8 DEF NextRule, GoTo, TypeOK
  <1>9. ASSUME NEW h \in Handlers, pc[h] \in {"record", "error", "again"},
               NEW new, NEW label, Catch(h, new, label)
        PROVE  /\ pc'[h] = label /\ cur' = cur /\ copies'[h][cur[h]] = new
               /\ \A k \in Handlers \ {h} : /\ pc'[k] = pc[k]
                                            /\ copies'[k] = copies[k]
    <2>1. cur[h] \in DOMAIN copies[h] /\ copies[h] \in Copies
      BY <1>9 DEF TypeOK
    <2>2. copies' = [copies EXCEPT ![h] = [copies[h] EXCEPT ![cur[h]] = new]]
      BY <1>9 DEF Catch
    <2> QED  BY <1>9, <2>1, <2>2 DEF Catch, GoTo, TypeOK, Copies
  <1>10. ASSUME NEW h \in Handlers, RecordRun(h) PROVE Counted(r)'
    <2> DEFINE copy == copies[h][cur[h]]
               new  == RecordExecution(copy)
    <2>1. /\ pc[h] = "record" /\ runs' = runs
          /\ \/ SaveRule(cur[h], copy, new) /\ NextRule(h)
             \/ Catch(h, new, "error") /\ rule' = rule /\ loose' = loose
      BY <1>10 DEF RecordRun
    <2>2. copy \in RuleRows /\ new \in RuleRows /\ new.recent /\ cur[h] \in Rules
      BY <2>1, <1>7, RecordRemembers
    <2> HIDE DEF copy, new
    <2>3. CASE SaveRule(cur[h], copy, new) /\ NextRule(h)
      <3>1. /\ r \notin loose /\ (rule[r].recent => rule'[r].recent)
            /\ r = cur[h] => rule'[r].recent
        BY <2>2, <2>3, SavedRow
      <3>2. Remembered(r) => Remembered(r)'
        BY <2>3, <3>1, <1>8 DEF Remembered
      <3> QED  BY <1>1, <2>1, <3>1, <3>2 DEF Counted
    <2>4. CASE Catch(h, new, "error") /\ rule' = rule /\ loose' = loose
      <3>1. /\ pc'[h] = "error" /\ cur' = cur /\ copies'[h][cur[h]].recent
            /\ \A k \in Handlers \ {h} : pc'[k] = pc[k] /\ copies'[k] = copies[k]
        BY <2>1, <2>2, <2>4, <1>9
      <3>2. Remembered(r) => Remembered(r)'
        BY <2>4, <3>1 DEF Remembered
      <3> QED  BY <1>1, <2>1, <2>4, <3>2 DEF Counted
    <2> QED  BY <2>1, <2>3, <2>4
  <1>11. ASSUME NEW h \in Handlers, RecordFailure(h) PROVE Counted(r)'
    <2> DEFINE copy == copies[h][cur[h]]
               new  == RecordError(copy)
    <2>1. /\ pc[h] = "error" /\ runs' = runs
          /\ \/ SaveRule(cur[h], copy, new)
             \/ rule' = rule /\ loose' = loose
          /\ Catch(h, new, "again")
      BY <1>11 DEF RecordFailure
    <2>2. /\ copy \in RuleRows /\ new \in RuleRows /\ cur[h] \in Rules
          /\ copy.recent => new.recent
      BY <2>1, <1>7, RowsRemember
    <2>3. r \notin loose /\ (rule[r].recent => rule'[r].recent)
      <3>1. CASE SaveRule(cur[h], copy, new)
        BY <2>2, <3>1, SavedRow
      <3> QED  BY <2>1, <3>1
    <2>4. /\ pc'[h] = "again" /\ cur' = cur /\ copies'[h][cur[h]] = new
          /\ \A k \in Handlers \ {h} : pc'[k] = pc[k] /\ copies'[k] = copies[k]
      BY <2>1, <1>9
    <2>5. Remembered(r) => Remembered(r)'
      BY <2>1, <2>2, <2>3, <2>4 DEF Remembered
    <2> QED  BY <1>1, <2>1, <2>3, <2>5 DEF Counted
  <1>12. ASSUME NEW h \in Handlers, RecordFailureAgain(h) PROVE Counted(r)'
    <2> DEFINE copy == copies[h][cur[h]]
    <2>1. pc[h] = "again" /\ runs' = runs
      BY <1>12 DEF RecordFailureAgain
    <2>2. copy \in RuleRows /\ cur[h] \in Rules
      BY <2>1, <1>7
    <2>3. CASE SaveRule(cur[h], copy, copy) /\ NextRule(h)
      <3>1. /\ r \notin loose /\ (rule[r].recent => rule'[r].recent)
            /\ r = cur[h] => rule'[r] = copy
        BY <2>2, <2>3, SavedRow
      <3>2. Remembered(r) => Remembered(r)'
        BY <2>1, <2>3, <3>1, <1>8 DEF Remembered
      <3> QED  BY <1>1, <2>1, <3>1, <3>2 DEF Counted
    <2>4. CASE /\ loose' = loose \cup {cur[h]} /\ rule' = rule
               /\ cur' = [cur EXCEPT ![h] = None]
               /\ copies' = [copies EXCEPT ![h] = NoCopies]
               /\ GoTo(h, "rules")
      <3>1. /\ r \notin loose /\ cur[h] # r
            /\ \A k \in Handlers \ {h} : /\ pc'[k] = pc[k] /\ cur'[k] = cur[k]
                                         /\ copies'[k] = copies[k]
        BY <2>4 DEF GoTo, TypeOK
      <3>2. Remembered(r) => Remembered(r)'
        BY <2>4, <3>1 DEF Remembered
      <3> QED  BY <1>1, <2>1, <3>1, <3>2 DEF Counted
    <2> QED  BY <1>12, <2>3, <2>4 DEF RecordFailureAgain
  <1>13. ASSUME NEW h \in Handlers, Done(h) PROVE Counted(r)'
    <2>1. /\ cur[h] = None /\ cur' = cur /\ rule' = rule /\ runs' = runs
          /\ loose' = loose
          /\ \A k \in Handlers \ {h} : pc'[k] = pc[k] /\ copies'[k] = copies[k]
      BY <1>13 DEF Done, GoTo, TypeOK
    <2>2. Remembered(r) => Remembered(r)'
      BY <2>1 DEF Remembered
    <2> QED  BY <1>1, <2>1, <2>2 DEF Counted
  <1>14. ASSUME NEW h \in Handlers, Die(h) PROVE Counted(r)'
    <2>1. /\ r \notin loose /\ cur[h] # r /\ rule' = rule /\ runs' = runs
          /\ \A k \in Handlers \ {h} : /\ pc'[k] = pc[k] /\ cur'[k] = cur[k]
                                       /\ copies'[k] = copies[k]
      BY <1>14 DEF Die, GoTo, TypeOK
    <2>2. Remembered(r) => Remembered(r)'
      BY <2>1 DEF Remembered
    <2> QED  BY <1>1, <2>1, <2>2 DEF Counted
  <1>15. CASE CooldownPasses
    <2>1. runs'[r] = 0
      BY <1>15 DEF CooldownPasses
    <2> QED  BY <2>1 DEF Counted
  <1> QED  BY <1>2, <1>3, <1>4, <1>5, <1>6, <1>10, <1>11, <1>12, <1>13, <1>14, <1>15
           DEF Next, Handle

\* The invariant holds in every state.
THEOREM Invariant == Spec => []Inv
  <1>1. Init => Inv
    <2> SUFFICES ASSUME Init PROVE Inv
      OBVIOUS
    <2>1. ASSUME NEW r \in Cooling PROVE Counted(r)
      <3>1. runs[r] = 0
        BY DEF Init
      <3> QED  BY <3>1 DEF Counted
    <2> QED  BY <2>1, TypeInit DEF Inv
  <1>2. Inv /\ [Next]_vars => Inv'
    <2> SUFFICES ASSUME Inv, [Next]_vars PROVE Inv'
      OBVIOUS
    <2>1. TypeOK'
      BY TypeStep DEF Inv
    <2>2. \A r \in Cooling : r \in loose' \/ Counted(r)'
      BY CountedStep
    <2> QED  BY <2>1, <2>2 DEF Inv
  <1> QED  BY <1>1, <1>2, PTL DEF Spec

\* An action is executed once in a cooldown, for any number of consumers and
\* any number of redeliveries, but for the exceptions in loose.
THEOREM CooldownIsKept == Spec => []CooldownKept
  <1>1. Inv => CooldownKept
    BY DEF Inv, Counted, CooldownKept
  <1> QED  BY <1>1, Invariant, PTL

=============================================================================
