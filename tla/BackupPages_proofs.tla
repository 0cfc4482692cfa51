-------------------------- MODULE BackupPages_proofs --------------------------
(***************************************************************************)
(* Proofs about BackupPages, for any number of workers, sets and tokens.   *)
(*                                                                         *)
(* IInv adds to the type invariant what the two properties rest on: a      *)
(* token that was carried out is in the table unless a restore took it     *)
(* out, and damaged sets are accounted for.                                *)
(***************************************************************************)
EXTENDS BackupPages, TLAPS

\* The table knows every token carried out, but for those restores took out.
Remembered == acted \ forgotten \subseteq used

IInv == TypeOK /\ Remembered /\ DamagedExplained

SetTable == [Ids -> SetRecords \cup {NoDir}]
\* A step is one of a worker, its request and its tool; it keeps the rest.
RequestStep(x) == RequestOK(req'[x]) /\ req' = [req EXCEPT ![x] = req'[x]]
ToolStep(x) == ToolOK(tool'[x]) /\ tool' = [tool EXCEPT ![x] = tool'[x]]
Flags == used' \in SUBSET Tokens /\ loading' \in Workers \cup {None} /\ busy' \in BOOLEAN
TokenSets == issued' \in SUBSET Tokens /\ acted' \in SUBSET Tokens /\ forgotten' \in SUBSET Tokens

LEMMA Assemble ==
  ASSUME TypeOK, NEW x \in Workers, RequestStep(x), ToolStep(x), sets' \in SetTable, Flags, TokenSets
  PROVE  TypeOK'
<1>1. req' \in [Workers -> Requests] /\ \A y \in Workers : RequestOK(req'[y])
  <2>1. req'[x] \in Requests
      BY DEF RequestStep, RequestOK
  <2> QED
      BY <2>1 DEF RequestStep, TypeOK
<1>2. tool' \in [Workers -> ToolStates] /\ \A y \in Workers : ToolOK(tool'[y])
  <2>1. tool'[x] \in ToolStates
      BY DEF ToolStep, ToolOK
  <2> QED
      BY <2>1 DEF ToolStep, TypeOK
<1> QED
    BY <1>1, <1>2 DEF TypeOK, SetTable, Flags, TokenSets

\* Sets that are published, removed or marked stay sets.
LEMMA SetsKept ==
  ASSUME TypeOK, NEW i \in Ids
  PROVE  /\ sets \in SetTable
         /\ [sets EXCEPT ![i] = NoDir] \in SetTable
         /\ \A r \in SetRecords : [sets EXCEPT ![i] = r] \in SetTable
         /\ Present(i) => [sets EXCEPT ![i].kept = TRUE] \in SetTable
         /\ Present(i) => [sets EXCEPT ![i].good = FALSE, ![i].kept = TRUE] \in SetTable
BY DEF TypeOK, SetTable, SetRecords, Present

\* A request that goes on, and one that is answered.
LEMMA RequestGoesOn ==
  ASSUME TypeOK, NEW x \in Workers,
         NEW c \in {"probe", "consume", "remove", "rename", "verify", "discard"},
         req' = [req EXCEPT ![x].pc = c], req[x].want \in Selections,
         c = "consume" => req[x].token \in Tokens
  PROVE  RequestStep(x)
<1>1. req[x] \in Requests
    BY DEF TypeOK
<1>2. req'[x] = [req[x] EXCEPT !.pc = c] /\ req' = [req EXCEPT ![x] = req'[x]]
    BY DEF TypeOK
<1> QED
    BY <1>1, <1>2 DEF RequestStep, RequestOK, Requests
LEMMA RequestLeaves == ASSUME TypeOK, NEW x \in Workers, Leave(x) PROVE RequestStep(x)
BY DEF RequestStep, RequestOK, Requests, TypeOK, Leave, Idle

\* What a response issues are tokens.
LEMMA TokensIssued ==
  ASSUME TypeOK, NEW s \in Selections, Issue(s)
  PROVE  issued' \in SUBSET Tokens
BY DEF TypeOK, Issue, FreeNonces, Selections, Tokens

\* Every step keeps every variable in its type.
LEMMA TypeStep == TypeOK /\ [Next]_vars => TypeOK'
<1> SUFFICES ASSUME TypeOK, [Next]_vars PROVE TypeOK'
    OBVIOUS
<1> USE NothingAssumption DEF At, database, history
<1>1. ASSUME NEW x \in Workers, NEW s \in Selections, SelectSet(x, s) PROVE TypeOK'
  <2>1. RequestStep(x)
      BY <1>1 DEF SelectSet, Probe, RequestStep, TypeOK, Probe, RequestOK, Requests, Idle
  <2>2. ToolStep(x)
      BY <1>1 DEF SelectSet, Probe, ToolStep, TypeOK
  <2>3. sets' \in SetTable
      BY <1>1 DEF SelectSet, Probe, SetTable, TypeOK
  <2>4. Flags /\ TokenSets
      BY <1>1 DEF SelectSet, Probe, Flags, TokenSets, TypeOK
  <2> QED
      BY <2>1, <2>2, <2>3, <2>4, Assemble
<1>2. ASSUME NEW x \in Workers, NEW t \in issued, Confirm(x, t) PROVE TypeOK'
  <2>1. RequestStep(x)
      BY <1>2 DEF Confirm, Probe, RequestStep, TypeOK, Tokens, Selections, RequestOK, Requests, Idle
  <2>2. ToolStep(x)
      BY <1>2 DEF Confirm, Probe, ToolStep, TypeOK
  <2>3. sets' \in SetTable
      BY <1>2 DEF Confirm, Probe, SetTable, TypeOK
  <2>4. Flags /\ TokenSets
      BY <1>2 DEF Confirm, Probe, Flags, TokenSets, TypeOK
  <2> QED
      BY <2>1, <2>2, <2>3, <2>4, Assemble
<1>3. ASSUME NEW x \in Workers, Select(x) PROVE TypeOK'
  <2>1. RequestStep(x)
      BY <1>3, RequestLeaves DEF Select
  <2>2. ToolStep(x)
      BY <1>3 DEF Select, ToolStep, TypeOK
  <2>3. sets' \in SetTable
      BY <1>3 DEF Select, SetTable, TypeOK
  <2>4. Flags /\ TokenSets
    <3>1. req[x].want \in Selections
        BY <1>3 DEF Select, Probed, TypeOK, RequestOK
    <3> QED
        BY <1>3, <3>1, TokensIssued DEF Select, Probed, Flags, TokenSets, TypeOK
  <2> QED
      BY <2>1, <2>2, <2>3, <2>4, Assemble
<1>4. ASSUME NEW x \in Workers, Check(x) PROVE TypeOK'
  <2>1. RequestStep(x)
    <3>1. req[x].want \in Selections /\ (req[x].token # None => req[x].token \in Tokens)
        BY <1>4 DEF Check, Probed, TypeOK, RequestOK, Requests
    <3> QED
        BY <1>4, <3>1, RequestLeaves, RequestGoesOn DEF Check, Goto, Probed
  <2>2. ToolStep(x)
      BY <1>4 DEF Check, ToolStep, TypeOK
  <2>3. sets' \in SetTable
      BY <1>4 DEF Check, SetTable, TypeOK
  <2>4. Flags /\ TokenSets
      BY <1>4 DEF Check, Flags, TokenSets, TypeOK, Probed
  <2> QED
      BY <2>1, <2>2, <2>3, <2>4, Assemble
<1>5. ASSUME NEW x \in Workers, Consume(x) PROVE TypeOK'
  <2>1. RequestStep(x)
    <3>1. req[x] \in Requests /\ req[x].want \in Selections
        BY <1>5 DEF Consume, TypeOK, RequestOK
    <3>2. CASE req[x].token.purpose = "delete"
      <4>1. req' = [req EXCEPT ![x].pc = "remove", ![x].token = None]
          BY <1>5, <3>2 DEF Consume, CarryOut
      <4>2. req'[x] = [req[x] EXCEPT !.pc = "remove", !.token = None] /\ req' = [req EXCEPT ![x] = req'[x]]
          BY <4>1 DEF TypeOK
      <4> QED
          BY <3>1, <4>2 DEF RequestStep, RequestOK, Requests
    <3>3. CASE req[x].token.purpose # "delete"
      <4>1. Wait(x)
          BY <1>5, <3>3 DEF Consume, CarryOut
      <4> QED
          BY <4>1 DEF Wait, RequestStep, RequestOK, Requests, Idle, TypeOK
    <3> QED
        BY <3>2, <3>3
  <2>2. ToolStep(x)
    <3>1. CASE req[x].token.purpose = "delete"
        BY <1>5, <3>1 DEF Consume, CarryOut, ToolStep, TypeOK
    <3>2. CASE req[x].token.purpose # "delete"
      <4>1. RunTool(x, req[x].token.set) /\ req[x].token.set \in Ids
          BY <1>5, <3>2 DEF Consume, CarryOut, TypeOK, RequestOK, Tokens
      <4> QED
          BY <4>1 DEF RunTool, ToolStep, ToolOK, ToolStates, Off, TypeOK
    <3> QED
        BY <3>1, <3>2
  <2>3. sets' \in SetTable
      BY <1>5 DEF Consume, SetTable, TypeOK
  <2>4. Flags /\ TokenSets
    <3>1. req[x].token \in Tokens
        BY <1>5 DEF Consume, TypeOK, RequestOK
    <3> QED
        BY <1>5, <3>1 DEF Consume, Flags, TokenSets, TypeOK
  <2> QED
      BY <2>1, <2>2, <2>3, <2>4, Assemble
<1>6. ASSUME NEW x \in Workers, AlreadyUsed(x) PROVE TypeOK'
  <2>1. RequestStep(x)
      BY <1>6, RequestLeaves DEF AlreadyUsed
  <2>2. ToolStep(x)
      BY <1>6 DEF AlreadyUsed, ToolStep, TypeOK
  <2>3. sets' \in SetTable
      BY <1>6 DEF AlreadyUsed, SetTable, TypeOK
  <2>4. Flags /\ TokenSets
      BY <1>6 DEF AlreadyUsed, Flags, TokenSets, TypeOK
  <2> QED
      BY <2>1, <2>2, <2>3, <2>4, Assemble
<1>7. ASSUME NEW x \in Workers, Remove(x) PROVE TypeOK'
  <2>1. RequestStep(x)
      BY <1>7, RequestLeaves DEF Remove
  <2>2. ToolStep(x)
      BY <1>7 DEF Remove, ToolStep, TypeOK
  <2>3. sets' \in SetTable
      BY <1>7, SetsKept DEF Remove, TypeOK, RequestOK, Selections
  <2>4. Flags /\ TokenSets
      BY <1>7 DEF Remove, Flags, TokenSets, TypeOK
  <2> QED
      BY <2>1, <2>2, <2>3, <2>4, Assemble
<1>8. ASSUME NEW x \in Workers, RemoveFails(x) PROVE TypeOK'
  <2>1. RequestStep(x)
      BY <1>8, RequestLeaves DEF RemoveFails
  <2>2. ToolStep(x)
      BY <1>8 DEF RemoveFails, ToolStep, TypeOK
  <2>3. sets' \in SetTable
      BY <1>8, SetsKept DEF RemoveFails, TypeOK, RequestOK, Selections
  <2>4. Flags /\ TokenSets
      BY <1>8 DEF RemoveFails, Flags, TokenSets, TypeOK
  <2> QED
      BY <2>1, <2>2, <2>3, <2>4, Assemble
<1>9. ASSUME NEW x \in Workers, NEW i \in Ids, NEW good \in BOOLEAN, BeginUpload(x, i, good) PROVE TypeOK'
  <2>1. RequestStep(x)
      BY <1>9 DEF BeginUpload, RequestStep, TypeOK, RequestOK, Requests, Idle, Selections, Purposes
  <2>2. ToolStep(x)
      BY <1>9 DEF BeginUpload, ToolStep, TypeOK
  <2>3. sets' \in SetTable
      BY <1>9 DEF BeginUpload, SetTable, TypeOK
  <2>4. Flags /\ TokenSets
      BY <1>9 DEF BeginUpload, Flags, TokenSets, TypeOK
  <2> QED
      BY <2>1, <2>2, <2>3, <2>4, Assemble
<1>10. ASSUME NEW x \in Workers, Rename(x) PROVE TypeOK'
  <2>1. RequestStep(x)
    <3>1. req[x] \in Requests /\ req[x].want \in Selections
        BY <1>10 DEF Rename, TypeOK, RequestOK
    <3>2. CASE Present(req[x].want.set)
        BY <1>10, <3>2, RequestLeaves DEF Rename
    <3>3. CASE ~Present(req[x].want.set)
      <4>1. req' = [req EXCEPT ![x].pc = "verify", ![x].good = FALSE]
          BY <1>10, <3>3 DEF Rename
      <4>2. req'[x] = [req[x] EXCEPT !.pc = "verify", !.good = FALSE] /\ req' = [req EXCEPT ![x] = req'[x]]
          BY <4>1 DEF TypeOK
      <4> QED
          BY <3>1, <4>2 DEF RequestStep, RequestOK, Requests
    <3> QED
        BY <3>2, <3>3
  <2>2. ToolStep(x)
      BY <1>10 DEF Rename, ToolStep, TypeOK
  <2>3. sets' \in SetTable
    <3>1. req[x].want.set \in Ids /\ Uploaded(req[x].good) \in SetRecords
        BY <1>10 DEF Rename, TypeOK, RequestOK, Requests, Selections, Uploaded, SetRecords
    <3> QED
        BY <1>10, <3>1, SetsKept DEF Rename
  <2>4. Flags /\ TokenSets
      BY <1>10 DEF Rename, Flags, TokenSets, TypeOK
  <2> QED
      BY <2>1, <2>2, <2>3, <2>4, Assemble
<1>11. ASSUME NEW x \in Workers, VerifyFails(x) PROVE TypeOK'
  <2>1. RequestStep(x)
    <3>1. req[x].want \in Selections /\ (req[x].token # None => req[x].token \in Tokens)
        BY <1>11 DEF VerifyFails, TypeOK, RequestOK, Requests
    <3> QED
        BY <1>11, <3>1, RequestLeaves, RequestGoesOn DEF VerifyFails, Goto
  <2>2. ToolStep(x)
      BY <1>11 DEF VerifyFails, ToolStep, TypeOK
  <2>3. sets' \in SetTable
      BY <1>11 DEF VerifyFails, SetTable, TypeOK
  <2>4. Flags /\ TokenSets
      BY <1>11 DEF VerifyFails, Flags, TokenSets, TypeOK
  <2> QED
      BY <2>1, <2>2, <2>3, <2>4, Assemble
<1>12. ASSUME NEW x \in Workers, VerifyPasses(x) PROVE TypeOK'
  <2>1. RequestStep(x)
      BY <1>12, RequestLeaves DEF VerifyPasses
  <2>2. ToolStep(x)
      BY <1>12 DEF VerifyPasses, ToolStep, TypeOK
  <2>3. sets' \in SetTable
      BY <1>12 DEF VerifyPasses, SetTable, TypeOK
  <2>4. Flags /\ TokenSets
    <3>1. req[x].want \in Selections
        BY <1>12 DEF VerifyPasses, TypeOK, RequestOK
    <3> QED
        BY <1>12, <3>1, TokensIssued DEF VerifyPasses, Flags, TokenSets, TypeOK
  <2> QED
      BY <2>1, <2>2, <2>3, <2>4, Assemble
<1>13. ASSUME NEW x \in Workers, VerifyTimesOut(x) PROVE TypeOK'
  <2>1. RequestStep(x)
      BY <1>13, RequestLeaves DEF VerifyTimesOut
  <2>2. ToolStep(x)
      BY <1>13 DEF VerifyTimesOut, ToolStep, TypeOK
  <2>3. sets' \in SetTable
      BY <1>13, SetsKept DEF VerifyTimesOut, Keep, TypeOK, RequestOK, Selections
  <2>4. Flags /\ TokenSets
      BY <1>13 DEF VerifyTimesOut, Flags, TokenSets, TypeOK
  <2> QED
      BY <2>1, <2>2, <2>3, <2>4, Assemble
<1>14. ASSUME NEW x \in Workers, Discard(x) PROVE TypeOK'
  <2>1. RequestStep(x)
      BY <1>14, RequestLeaves DEF Discard
  <2>2. ToolStep(x)
      BY <1>14 DEF Discard, ToolStep, TypeOK
  <2>3. sets' \in SetTable
      BY <1>14, SetsKept DEF Discard, Keep, TypeOK, RequestOK, Selections
  <2>4. Flags /\ TokenSets
      BY <1>14 DEF Discard, Flags, TokenSets, TypeOK
  <2> QED
      BY <2>1, <2>2, <2>3, <2>4, Assemble
<1>15. ASSUME NEW x \in Workers, ShowAgain(x) PROVE TypeOK'
  <2>1. RequestStep(x)
      BY <1>15 DEF ShowAgain, RequestStep, TypeOK
  <2>2. ToolStep(x)
      BY <1>15 DEF ShowAgain, ToolStep, TypeOK
  <2>3. sets' \in SetTable
      BY <1>15 DEF ShowAgain, SetTable, TypeOK
  <2>4. Flags /\ TokenSets
      BY <1>15 DEF ShowAgain, Flags, TokenSets, TypeOK, Issue, FreeNonces, Tokens, Selections
  <2> QED
      BY <2>1, <2>2, <2>3, <2>4, Assemble
<1>16. ASSUME NEW x \in Workers, DatabaseError(x) PROVE TypeOK'
  <2>1. RequestStep(x)
      BY <1>16, RequestLeaves DEF DatabaseError
  <2>2. ToolStep(x)
      BY <1>16 DEF DatabaseError, ToolStep, TypeOK
  <2>3. sets' \in SetTable
      BY <1>16 DEF DatabaseError, SetTable, TypeOK
  <2>4. Flags /\ TokenSets
      BY <1>16 DEF DatabaseError, Flags, TokenSets, TypeOK
  <2> QED
      BY <2>1, <2>2, <2>3, <2>4, Assemble
<1>17. ASSUME NEW x \in Workers, RunBackup(x) PROVE TypeOK'
  <2>1. RequestStep(x)
      BY <1>17 DEF RunBackup, RequestStep, TypeOK, RequestOK, Requests, Idle, Wait
  <2>2. ToolStep(x)
      BY <1>17 DEF RunBackup, ToolStep, TypeOK, RunTool, ToolOK, ToolStates, Off
  <2>3. sets' \in SetTable
      BY <1>17 DEF RunBackup, SetTable, TypeOK
  <2>4. Flags /\ TokenSets
      BY <1>17 DEF RunBackup, Flags, TokenSets, TypeOK
  <2> QED
      BY <2>1, <2>2, <2>3, <2>4, Assemble
<1>18. ASSUME NEW x \in Workers, ToolEnded(x) PROVE TypeOK'
  <2>1. RequestStep(x)
      BY <1>18, RequestLeaves DEF ToolEnded
  <2>2. ToolStep(x)
      BY <1>18 DEF ToolEnded, ToolStep, TypeOK
  <2>3. sets' \in SetTable
      BY <1>18 DEF ToolEnded, SetTable, TypeOK
  <2>4. Flags /\ TokenSets
      BY <1>18 DEF ToolEnded, Flags, TokenSets, TypeOK
  <2> QED
      BY <2>1, <2>2, <2>3, <2>4, Assemble
<1>19. ASSUME NEW x \in Workers, TimeLimit(x) PROVE TypeOK'
  <2>1. RequestStep(x)
      BY <1>19, RequestLeaves DEF TimeLimit
  <2>2. ToolStep(x)
      BY <1>19 DEF TimeLimit, ToolStep, TypeOK, ToolOK, ToolStates, Off
  <2>3. sets' \in SetTable
      BY <1>19 DEF TimeLimit, SetTable, TypeOK
  <2>4. Flags /\ TokenSets
      BY <1>19 DEF TimeLimit, Flags, TokenSets, TypeOK
  <2> QED
      BY <2>1, <2>2, <2>3, <2>4, Assemble
<1>20. ASSUME NEW x \in Workers, ToolLocks(x) PROVE TypeOK'
  <2>1. RequestStep(x)
      BY <1>20 DEF ToolLocks, RequestStep, TypeOK
  <2>2. ToolStep(x)
      BY <1>20 DEF ToolLocks, ToolStep, TypeOK, Tool, ToolOK, ToolStates, Off
  <2>3. sets' \in SetTable
      BY <1>20 DEF ToolLocks, SetTable, TypeOK
  <2>4. Flags /\ TokenSets
      BY <1>20 DEF ToolLocks, Flags, TokenSets, TypeOK
  <2> QED
      BY <2>1, <2>2, <2>3, <2>4, Assemble
<1>21. ASSUME NEW x \in Workers, ToolBacksUp(x) PROVE TypeOK'
  <2>1. RequestStep(x)
      BY <1>21 DEF ToolBacksUp, RequestStep, TypeOK
  <2>2. ToolStep(x)
    <3>1. ToolOK(tool[x])
        BY DEF TypeOK
    <3>2. CASE End(x)
        BY <3>2 DEF End, ToolStep, ToolOK, ToolStates, Off, TypeOK
    <3>3. ASSUME NEW i \in Ids, tool[x].set # None,
                 tool' = [tool EXCEPT ![x].pc = "load", ![x].set = None, ![x].safety = i]
          PROVE  ToolStep(x)
      <4>1. /\ tool'[x] = [tool[x] EXCEPT !.pc = "load", !.set = None, !.safety = i]
            /\ tool' = [tool EXCEPT ![x] = tool'[x]]
          BY <3>3 DEF TypeOK
      <4>2. tool[x].from \in Ids
          BY <1>21, <3>1, <3>3 DEF ToolBacksUp, Tool, ToolOK, ToolStates
      <4> QED
          BY <3>1, <4>1, <4>2 DEF ToolStep, ToolOK, ToolStates
    <3> QED
        BY <1>21, <3>2, <3>3 DEF ToolBacksUp
  <2>3. sets' \in SetTable
    <3>1. [used |-> used, good |-> TRUE, kept |-> FALSE] \in SetRecords
        BY DEF SetRecords, TypeOK
    <3> QED
        BY <1>21, <3>1, SetsKept DEF ToolBacksUp
  <2>4. Flags /\ TokenSets
      BY <1>21 DEF ToolBacksUp, Flags, TokenSets, TypeOK
  <2> QED
      BY <2>1, <2>2, <2>3, <2>4, Assemble
<1>22. ASSUME NEW x \in Workers, ToolFails(x) PROVE TypeOK'
  <2>1. RequestStep(x)
      BY <1>22 DEF ToolFails, RequestStep, TypeOK
  <2>2. ToolStep(x)
      BY <1>22 DEF ToolFails, ToolStep, TypeOK, Tool, End, ToolOK, ToolStates, Off
  <2>3. sets' \in SetTable
      BY <1>22 DEF ToolFails, SetTable, TypeOK
  <2>4. Flags /\ TokenSets
      BY <1>22 DEF ToolFails, Flags, TokenSets, TypeOK, Tool
  <2> QED
      BY <2>1, <2>2, <2>3, <2>4, Assemble
<1>23. ASSUME NEW x \in Workers, ToolResets(x) PROVE TypeOK'
  <2>1. RequestStep(x)
      BY <1>23 DEF ToolResets, RequestStep, TypeOK
  <2>2. ToolStep(x)
      BY <1>23 DEF ToolResets, ToolStep, TypeOK, Tool, Present, SetRecords, ToolOK, ToolStates, Off
  <2>3. sets' \in SetTable
      BY <1>23 DEF ToolResets, SetTable, TypeOK
  <2>4. Flags /\ TokenSets
      BY <1>23 DEF ToolResets, Flags, TokenSets, TypeOK
  <2> QED
      BY <2>1, <2>2, <2>3, <2>4, Assemble
<1>24. ASSUME NEW x \in Workers, ToolLoads(x) PROVE TypeOK'
  <2>1. RequestStep(x)
      BY <1>24 DEF ToolLoads, RequestStep, TypeOK
  <2>2. ToolStep(x)
      BY <1>24 DEF ToolLoads, ToolStep, TypeOK, Tool, End, ToolOK, ToolStates, Off
  <2>3. sets' \in SetTable
      BY <1>24 DEF ToolLoads, SetTable, TypeOK
  <2>4. Flags /\ TokenSets
      BY <1>24 DEF ToolLoads, Flags, TokenSets, TypeOK, Tool, ToolOK, ToolStates
  <2> QED
      BY <2>1, <2>2, <2>3, <2>4, Assemble
<1>25. ASSUME NEW x \in Workers, ToolRollsBack(x) PROVE TypeOK'
  <2>1. RequestStep(x)
      BY <1>25 DEF ToolRollsBack, RequestStep, TypeOK
  <2>2. ToolStep(x)
    <3>1. ToolOK(tool[x])
        BY DEF TypeOK
    <3>2. CASE End(x)
        BY <3>2 DEF End, ToolStep, ToolOK, ToolStates, Off, TypeOK
    <3>3. CASE tool' = [tool EXCEPT ![x].pc = "load", ![x].from = tool[x].safety]
      <4>1. /\ tool'[x] = [tool[x] EXCEPT !.pc = "load", !.from = tool[x].safety]
            /\ tool' = [tool EXCEPT ![x] = tool'[x]]
          BY <3>3 DEF TypeOK
      <4>2. tool[x].safety \in Ids
          BY <1>25, <3>1 DEF ToolRollsBack, ToolOK
      <4> QED
          BY <3>1, <4>1, <4>2 DEF ToolStep, ToolOK, ToolStates
    <3> QED
        BY <1>25, <3>2, <3>3 DEF ToolRollsBack
  <2>3. sets' \in SetTable
      BY <1>25 DEF ToolRollsBack, SetTable, TypeOK
  <2>4. Flags /\ TokenSets
      BY <1>25 DEF ToolRollsBack, Flags, TokenSets, TypeOK
  <2> QED
      BY <2>1, <2>2, <2>3, <2>4, Assemble
<1>26. ASSUME NEW x \in Workers, KillWorker(x) PROVE TypeOK'
  <2>1. RequestStep(x)
      BY <1>26, RequestLeaves DEF KillWorker
  <2>2. ToolStep(x)
      BY <1>26 DEF KillWorker, ToolStep, TypeOK
  <2>3. sets' \in SetTable
    <3>1. req[x].pc \in {"verify", "discard"} => req[x].want.set \in Ids
        BY DEF TypeOK, RequestOK, Selections
    <3>2. CASE req[x].pc \in {"verify", "discard"} /\ Present(req[x].want.set)
        BY <1>26, <3>1, <3>2, SetsKept DEF KillWorker, Keep
    <3>3. CASE ~(req[x].pc \in {"verify", "discard"} /\ Present(req[x].want.set))
      <4>1. sets' = sets
          BY <1>26, <3>3 DEF KillWorker, Keep
      <4> QED
          BY <4>1 DEF TypeOK, SetTable
    <3> QED
        BY <3>2, <3>3
  <2>4. Flags /\ TokenSets
      BY <1>26 DEF KillWorker, Flags, TokenSets, TypeOK
  <2> QED
      BY <2>1, <2>2, <2>3, <2>4, Assemble
<1>27. CASE UNCHANGED vars
    BY <1>27 DEF vars, TypeOK
<1> QED BY <1>1, <1>2, <1>3, <1>4, <1>5, <1>6, <1>7, <1>8, <1>9, <1>10, <1>11, <1>12, <1>13, <1>14,
       <1>15, <1>16, <1>17, <1>18, <1>19, <1>20, <1>21, <1>22, <1>23, <1>24, <1>25, <1>26, <1>27
    DEF Next, Confirmation, Upload, Page, RunningTool

(***************************************************************************)
(* The tokens                                                              *)
(***************************************************************************)
\* Only a confirmation that finds its token unused, and a load, touch what the
\* table is compared with.
LEMMA RememberedStep == TypeOK /\ Remembered /\ [Next]_vars => Remembered'
<1> SUFFICES ASSUME TypeOK, Remembered, [Next]_vars PROVE Remembered'
    OBVIOUS
<1> USE DEF database, history
<1>1. ASSUME UNCHANGED <<used, history>> PROVE Remembered'
    BY <1>1 DEF Remembered
<1>2. ASSUME NEW x \in Workers, Confirmation(x) PROVE Remembered'
  <2>1. CASE Consume(x)
      BY <2>1 DEF Consume, Remembered
  <2> QED
      BY <1>1, <1>2, <2>1
      DEF Confirmation, SelectSet, Confirm, Probe, Select, Check, AlreadyUsed, Remove, RemoveFails
<1>3. ASSUME NEW x \in Workers, Upload(x) PROVE Remembered'
    BY <1>1, <1>3 DEF Upload, BeginUpload, Rename, VerifyFails, VerifyPasses, VerifyTimesOut, Discard
<1>4. ASSUME NEW x \in Workers, Page(x) PROVE Remembered'
    BY <1>1, <1>4 DEF Page, ShowAgain, DatabaseError, RunBackup, ToolEnded, TimeLimit
<1>5. ASSUME NEW x \in Workers, RunningTool(x) PROVE Remembered'
  <2>1. CASE ToolLoads(x)
      BY <2>1 DEF ToolLoads, Remembered
  <2> QED
      BY <1>1, <1>5, <2>1 DEF RunningTool, ToolLocks, ToolBacksUp, ToolFails, ToolResets, ToolRollsBack
<1>6. ASSUME NEW x \in Workers, KillWorker(x) PROVE Remembered'
    BY <1>1, <1>6 DEF KillWorker
<1>7. CASE UNCHANGED vars
    BY <1>1, <1>7 DEF vars
<1> QED
    BY <1>2, <1>3, <1>4, <1>5, <1>6, <1>7 DEF Next

\* A request goes from its token to the restore or the delete only by Consume.
LEMMA ActsByConsuming ==
  ASSUME TypeOK, Next, NEW x \in Workers, At(x, "consume"), req'[x].pc \in {"wait", "remove"}
  PROVE  Consume(x)
<1> USE DEF At, Goto, Leave, Idle
<1>1. req \in [Workers -> Requests]
    BY DEF TypeOK
<1>2. ASSUME NEW y \in Workers, Confirmation(y) PROVE Consume(x)
  <2>1. CASE Consume(y)
      BY <1>1, <2>1 DEF Consume, CarryOut, Wait
  <2>2. ASSUME NEW w, NEW t, Probe(y, w, t) PROVE FALSE
      BY <1>1, <2>2 DEF Probe
  <2>3. CASE Select(y) \/ Check(y)
      BY <1>1, <2>3 DEF Select, Check, Probed
  <2>4. CASE AlreadyUsed(y) \/ Remove(y) \/ RemoveFails(y)
      BY <1>1, <2>4 DEF AlreadyUsed, Remove, RemoveFails
  <2> QED
      BY <1>2, <2>1, <2>2, <2>3, <2>4 DEF Confirmation, SelectSet, Confirm
<1>3. ASSUME NEW y \in Workers, Upload(y) PROVE FALSE
    BY <1>1, <1>3 DEF Upload, BeginUpload, Rename, VerifyFails, VerifyPasses, VerifyTimesOut, Discard
<1>4. ASSUME NEW y \in Workers, Page(y) PROVE FALSE
    BY <1>1, <1>4 DEF Page, ShowAgain, DatabaseError, RunBackup, Wait, ToolEnded, TimeLimit
<1>5. ASSUME NEW y \in Workers, RunningTool(y) PROVE FALSE
    BY <1>1, <1>5
    DEF RunningTool, ToolLocks, ToolBacksUp, ToolFails, ToolResets, ToolLoads, ToolRollsBack
<1>6. ASSUME NEW y \in Workers, KillWorker(y) PROVE FALSE
    BY <1>1, <1>6 DEF KillWorker
<1> QED
    BY <1>2, <1>3, <1>4, <1>5, <1>6 DEF Next

(***************************************************************************)
(* The sets                                                                *)
(***************************************************************************)
\* A request stops looking at the name it found free only by Rename, or killed.
LEMMA PublishesByRenaming ==
  ASSUME TypeOK, Next, NEW x \in Workers, At(x, "rename"), ~At(x, "rename")'
  PROVE  Rename(x) \/ sets' = sets
<1> USE DEF At, Goto, Leave, Idle
<1>1. req \in [Workers -> Requests]
    BY DEF TypeOK
<1>2. ASSUME NEW y \in Workers, Confirmation(y) PROVE FALSE
  <2>1. CASE Consume(y)
      BY <1>1, <2>1 DEF Consume, CarryOut, Wait
  <2> QED
      BY <1>1, <1>2, <2>1
      DEF Confirmation, SelectSet, Confirm, Probe, Probed, Select, Check, AlreadyUsed, Remove, RemoveFails
<1>3. ASSUME NEW y \in Workers, Upload(y) PROVE Rename(x)
    BY <1>1, <1>3 DEF Upload, BeginUpload, Rename, VerifyFails, VerifyPasses, VerifyTimesOut, Discard
<1>4. ASSUME NEW y \in Workers, Page(y) PROVE FALSE
    BY <1>1, <1>4 DEF Page, ShowAgain, DatabaseError, RunBackup, Wait, ToolEnded, TimeLimit
<1>5. ASSUME NEW y \in Workers, RunningTool(y) PROVE FALSE
    BY <1>1, <1>5
    DEF RunningTool, ToolLocks, ToolBacksUp, ToolFails, ToolResets, ToolLoads, ToolRollsBack
<1>6. ASSUME NEW y \in Workers, KillWorker(y) PROVE sets' = sets
    BY <1>1, <1>6 DEF KillWorker
<1> QED
    BY <1>2, <1>3, <1>4, <1>5, <1>6 DEF Next

Verifying(x, i) == req[x].pc \in {"verify", "discard"} /\ req[x].want.set = i

\* A step that touches one request keeps the damaged sets accounted for when
\* those it damages, or stops verifying, are marked, gone or verified by it.
LEMMA Account ==
  ASSUME TypeOK, DamagedExplained, NEW x \in Workers, req' = [req EXCEPT ![x] = req'[x]],
         \A i \in Ids : Present(i)' /\ ~sets'[i].good =>
           \/ sets'[i].kept
           \/ Verifying(x, i)'
           \/ sets'[i] = sets[i] /\ ~Verifying(x, i)
  PROVE  DamagedExplained'
<1> SUFFICES ASSUME NEW i \in Ids, Present(i)', ~sets'[i].good, ~sets'[i].kept
             PROVE  \E y \in Workers : Verifying(y, i)'
    BY DEF DamagedExplained, Verifying
<1>1. CASE Verifying(x, i)'
    BY <1>1
<1>2. CASE sets'[i] = sets[i] /\ ~Verifying(x, i)
  <2>1. PICK y \in Workers : Verifying(y, i)
      BY <1>2 DEF DamagedExplained, Present, Verifying
  <2>2. req'[y] = req[y]
      BY <1>2, <2>1 DEF TypeOK
  <2> QED
      BY <2>1, <2>2 DEF Verifying
<1> QED
    BY <1>1, <1>2

\* Damaged sets stay accounted for.
LEMMA DamagedStep == TypeOK /\ DamagedExplained /\ [Next]_vars => DamagedExplained'
<1> SUFFICES ASSUME TypeOK, DamagedExplained, [Next]_vars PROVE DamagedExplained'
    OBVIOUS
<1> USE DEF At, Goto, Leave, Idle, Present
<1>1. req \in [Workers -> Requests] /\ sets \in [Ids -> SetRecords \cup {NoDir}]
    BY DEF TypeOK
<1>2. \A x \in Workers : req[x].pc \notin {"idle", "wait"} => req[x].want.set \in Ids
    BY DEF TypeOK, RequestOK, Selections
<1>3. ASSUME NEW x \in Workers, req[x].pc \notin {"verify", "discard"}, sets' = sets,
             req' = [req EXCEPT ![x] = req'[x]]
      PROVE  DamagedExplained'
    BY <1>3, Account DEF Verifying
<1>4. ASSUME NEW x \in Workers, Confirmation(x) PROVE DamagedExplained'
  <2>1. ASSUME NEW w, NEW t, Probe(x, w, t) PROVE DamagedExplained'
      BY <1>1, <1>3, <2>1 DEF Probe
  <2>2. CASE Select(x) \/ Check(x) \/ Consume(x) \/ AlreadyUsed(x)
      BY <1>1, <1>3, <2>2 DEF Select, Check, Probed, Consume, CarryOut, Wait, AlreadyUsed
  <2>3. CASE Remove(x) \/ RemoveFails(x)
    <3>1. req' = [req EXCEPT ![x] = req'[x]] /\ At(x, "remove")
        BY <1>1, <2>3 DEF Remove, RemoveFails
    <3>2. \A i \in Ids : sets'[i] = sets[i] \/ sets'[i] = NoDir \/ (Present(i) /\ sets'[i].kept)
        BY <1>1, <1>2, <2>3 DEF Remove, RemoveFails, SetRecords
    <3> QED
        BY <3>1, <3>2, Account DEF Verifying
  <2> QED
      BY <1>4, <2>1, <2>2, <2>3 DEF Confirmation, SelectSet, Confirm
<1>5. ASSUME NEW x \in Workers, Keep(x), req[x].pc \in {"verify", "discard"}, Leave(x)
      PROVE  DamagedExplained'
  <2>1. req' = [req EXCEPT ![x] = req'[x]]
      BY <1>1, <1>5
  <2>2. \A i \in Ids : IF i = req[x].want.set THEN sets'[i] = NoDir \/ sets'[i].kept
                       ELSE sets'[i] = sets[i]
      BY <1>1, <1>2, <1>5 DEF Keep, SetRecords
  <2> QED
      BY <2>1, <2>2, Account DEF Verifying
<1>6. ASSUME NEW x \in Workers, Upload(x) PROVE DamagedExplained'
  <2>1. CASE \E i \in Ids, good \in BOOLEAN : BeginUpload(x, i, good)
      BY <1>1, <1>3, <2>1 DEF BeginUpload
  <2>2. CASE Rename(x)
    <3>1. CASE Present(req[x].want.set)
        BY <1>1, <1>3, <2>2, <3>1 DEF Rename
    <3>2. CASE ~Present(req[x].want.set)
      <4>1. /\ req' = [req EXCEPT ![x] = req'[x]] /\ At(x, "rename")
            /\ req'[x].pc = "verify" /\ req'[x].want = req[x].want
          BY <1>1, <2>2, <3>2 DEF Rename, Requests
      <4>2. \A i \in Ids : i # req[x].want.set => sets'[i] = sets[i]
          BY <1>1, <2>2, <3>2 DEF Rename
      <4> QED
          BY <4>1, <4>2, Account DEF Verifying
    <3> QED
        BY <3>1, <3>2
  <2>3. CASE VerifyFails(x)
    <3>1. /\ req' = [req EXCEPT ![x] = req'[x]] /\ sets' = sets
          /\ req'[x].pc = "discard" /\ req'[x].want = req[x].want
        BY <1>1, <2>3 DEF VerifyFails, Requests
    <3> QED
        BY <3>1, Account DEF Verifying
  <2>4. CASE VerifyPasses(x)
    <3>1. /\ req' = [req EXCEPT ![x] = req'[x]] /\ sets' = sets
          /\ sets[req[x].want.set].good
        BY <1>1, <2>4 DEF VerifyPasses, Intact
    <3> QED
        BY <3>1, Account DEF Verifying
  <2>5. CASE VerifyTimesOut(x)
      BY <1>5, <2>5 DEF VerifyTimesOut
  <2>6. CASE Discard(x)
    <3>1. CASE sets' = [sets EXCEPT ![req[x].want.set] = NoDir]
      <4>1. req' = [req EXCEPT ![x] = req'[x]]
          BY <1>1, <2>6 DEF Discard
      <4>2. \A i \in Ids : IF i = req[x].want.set THEN sets'[i] = NoDir ELSE sets'[i] = sets[i]
          BY <1>1, <3>1
      <4> QED
          BY <4>1, <4>2, Account DEF Verifying
    <3> QED
        BY <1>5, <2>6, <3>1 DEF Discard
  <2> QED
      BY <1>6, <2>1, <2>2, <2>3, <2>4, <2>5, <2>6 DEF Upload
<1>7. ASSUME NEW x \in Workers, Page(x) PROVE DamagedExplained'
    BY <1>1, <1>3, <1>7 DEF Page, ShowAgain, DatabaseError, RunBackup, Wait, ToolEnded, TimeLimit
<1>8. ASSUME NEW x \in Workers, RunningTool(x) PROVE DamagedExplained'
  <2>1. CASE ToolBacksUp(x)
    <3>1. req' = req /\ \A i \in Ids : sets'[i] = sets[i] \/ sets'[i].good
        BY <1>1, <2>1 DEF ToolBacksUp
    <3> QED
        BY <1>1, <3>1 DEF DamagedExplained
  <2>2. CASE ~ToolBacksUp(x)
    <3>1. req' = req /\ sets' = sets
        BY <1>8, <2>2 DEF RunningTool, ToolLocks, ToolFails, ToolResets, ToolLoads, ToolRollsBack
    <3> QED
        BY <3>1 DEF DamagedExplained
  <2> QED
      BY <2>1, <2>2
<1>9. ASSUME NEW x \in Workers, KillWorker(x) PROVE DamagedExplained'
  <2>1. CASE req[x].pc \in {"verify", "discard"}
      BY <1>5, <1>9, <2>1 DEF KillWorker
  <2>2. CASE req[x].pc \notin {"verify", "discard"}
      BY <1>1, <1>3, <1>9, <2>2 DEF KillWorker
  <2> QED
      BY <2>1, <2>2
<1>10. CASE UNCHANGED vars
    BY <1>10 DEF vars, DamagedExplained
<1> QED
    BY <1>4, <1>6, <1>7, <1>8, <1>9, <1>10 DEF Next

(***************************************************************************)
(* The invariant and the theorems                                          *)
(***************************************************************************)
LEMMA InitIInv == Init => IInv
<1> SUFFICES ASSUME Init PROVE IInv
    OBVIOUS
<1> USE NothingAssumption, OldAssumption DEF Init
<1>1. Idle \in Requests /\ Off \in ToolStates
    BY DEF Idle, Requests, Off, ToolStates
<1>2. TypeOK
    BY <1>1 DEF TypeOK, SetRecords, RequestOK, ToolOK, Idle, Off
<1>3. Remembered /\ DamagedExplained
    BY DEF Remembered, DamagedExplained, Present
<1> QED
    BY <1>2, <1>3 DEF IInv

\* IInv holds of every reachable state.
THEOREM Invariance == Spec => []IInv
<1>1. IInv /\ [Next]_vars => IInv'
    BY TypeStep, RememberedStep, DamagedStep DEF IInv
<1> QED
    BY InitIInv, <1>1, PTL DEF Spec

\* Every variable keeps to its kind, and a request or a tool under way has the
\* selection, the token, the set or the safety backup it works with
\* (backup_action and the tool it starts).
THEOREM TypeCorrect == Spec => []TypeOK
<1>1. IInv => TypeOK
    BY DEF IInv
<1> QED
    BY Invariance, <1>1, PTL

\* A listed set that does not verify is one whose upload is being verified, or
\* one left by a request that broke off (_backup_upload, _delete_confirm).
THEOREM DamagedSetsAccounted == Spec => []DamagedExplained
<1>1. IInv => DamagedExplained
    BY DEF IInv
<1> QED
    BY Invariance, <1>1, PTL

\* A confirmed restore or delete is carried out again only with a token that a
\* restore took out of the table (_consume_confirmation_token).
THEOREM RepeatsNeedARestore == Spec => RepeatsOnlyForgotten
<1>1. IInv /\ [Next]_vars => [\A t \in Tokens : ActsTwice(t) => t \in forgotten]_vars
  <2> SUFFICES ASSUME IInv, Next, NEW t \in Tokens, ActsTwice(t) PROVE t \in forgotten
      OBVIOUS
  <2>1. PICK x \in Workers : /\ At(x, "consume") /\ req[x].token = t /\ t \in acted
                             /\ req'[x].pc \in {"wait", "remove"}
      BY DEF ActsTwice
  <2>2. t \notin used
      BY <2>1, ActsByConsuming DEF IInv, Consume
  <2> QED
      BY <2>1, <2>2 DEF IInv, Remembered
<1> QED
    BY Invariance, <1>1, PTL DEF Spec, RepeatsOnlyForgotten

\* No upload replaces a published set, whatever was published under its name
\* since it was looked up (_backup_upload).
THEOREM UploadsAreSafe == Spec => UploadsReplaceNothing
<1>1. IInv /\ [Next]_vars =>
        [\A x \in Workers : At(x, "rename") /\ ~At(x, "rename")' =>
           \A i \in Ids : Present(i) => sets'[i] = sets[i]]_vars
  <2> SUFFICES ASSUME IInv, Next, NEW x \in Workers, At(x, "rename"), ~At(x, "rename")',
                      NEW i \in Ids, Present(i)
               PROVE  sets'[i] = sets[i]
      OBVIOUS
  <2>1. CASE Rename(x)
      BY <2>1 DEF Rename, IInv, TypeOK, Present
  <2> QED
      BY <2>1, PublishesByRenaming DEF IInv
<1> QED
    BY Invariance, <1>1, PTL DEF Spec, UploadsReplaceNothing
===============================================================================
