----------------------------- MODULE BackupPages -----------------------------
(***************************************************************************)
(* The backup page of the settings (apps/core/views.py, backup_action):    *)
(* restores and deletes in two steps with signed single-use tokens, upload *)
(* of a backup, a backup by hand.                                          *)
(*                                                                         *)
(* The table of the tokens already used lives in the database that a       *)
(* restore replaces.  Each request is served by a gunicorn worker; the     *)
(* backup tool it starts is a process of its own and outlives a killed     *)
(* worker.  The tool is BackupTool in outline: flock, backup, flock given  *)
(* back, load, rollback.                                                   *)
(*                                                                         *)
(* Two data are abstracted.  Sets are complete ones: the restore mode,     *)
(* which only asks for the media archive, is left out.  The session only   *)
(* says which pending selections a page shows again, with a new token; the *)
(* model lets a page do that for any selection made before.                *)
(***************************************************************************)
CONSTANTS
  Workers,  \* gunicorn workers; each has at most one tool running
  Ids,      \* identifiers of backup sets
  Nonces,   \* one for each token; bounds their number
  Old,      \* sets published before the first step
  None,     \* nothing selected, no token, nobody
  NoDir     \* no such directory

Purposes == {"restore", "delete"}
Selections == [purpose : Purposes, set : Ids]
Tokens == [nonce : Nonces, purpose : Purposes, set : Ids]

\* A published set: the tokens its dump knows as used, whether its files match
\* their checksums, and whether the request answerable for it broke off or
\* could not remove it.
SetRecords == [used : SUBSET Tokens, good : BOOLEAN, kept : BOOLEAN]

ASSUME OldAssumption == Old \subseteq Ids
ASSUME NothingAssumption ==
  None \notin Ids \cup Selections \cup Tokens \cup Workers /\ NoDir \notin SetRecords

VARIABLES
  sets,       \* BACKUP_ROOT/<id>
  used,       \* BackupConfirmationToken
  loading,    \* whose pg_restore has the schema since the last reset
  busy,       \* the flock is taken
  issued,     \* tokens sent to the browser
  req,        \* what each worker is doing
  tool,       \* the tool started by each worker
  acted,      \* history: tokens whose confirmation was carried out
  forgotten   \* history: those of them that a restore has since taken out of the table

vars == <<sets, used, loading, busy, issued, req, tool, acted, forgotten>>
database == <<used, loading>>
history == <<acted, forgotten>>

\* A request in progress: the selection it is about, its token, and whether
\* what it uploads verifies.
Requests == [pc : {"idle", "probe", "consume", "remove", "wait", "rename", "verify", "discard"},
             want : Selections \cup {None}, token : Tokens \cup {None}, good : BOOLEAN]
Idle == [pc |-> "idle", want |-> None, token |-> None, good |-> FALSE]

\* from is the set whose dump is loaded next.
ToolStates == [pc : {"off", "lock", "backup", "load", "loading"}, set : Ids \cup {None},
               from : Ids \cup {None}, safety : Ids \cup {None},
               src : (SUBSET Tokens) \cup {None}, killed : BOOLEAN]
Off == [pc |-> "off", set |-> None, from |-> None, safety |-> None, src |-> {}, killed |-> FALSE]

Present(i) == sets[i] # NoDir
Intact(i) == Present(i) /\ sets[i].good
\* While a restore has the schema, statements fail and the answer is a 500.
DatabaseUp == loading = None

At(x, where) == req[x].pc = where
Goto(x, where) == req' = [req EXCEPT ![x].pc = where]
Leave(x) == req' = [req EXCEPT ![x] = Idle]

Init ==
  /\ sets = [i \in Ids |-> IF i \in Old THEN [used |-> {}, good |-> TRUE, kept |-> FALSE] ELSE NoDir]
  /\ used = {}
  /\ loading = None
  /\ busy = FALSE
  /\ issued = {}
  /\ req = [x \in Workers |-> Idle]
  /\ tool = [x \in Workers |-> Off]
  /\ acted = {} /\ forgotten = {}

(***************************************************************************)
(* Selecting and confirming                                                *)
(***************************************************************************)
\* _backup_page signs a token of its own for a pending selection, or none once
\* the bound is reached.
FreeNonces == Nonces \ {t.nonce : t \in issued}
Issue(s) ==
  IF FreeNonces = {} THEN UNCHANGED issued
  ELSE \E n \in FreeNonces :
         issued' = issued \cup {[nonce |-> n, purpose |-> s.purpose, set |-> s.set]}

\* A page shows a selection made before, and still in the session, again.
ShowAgain(x) ==
  /\ At(x, "idle") /\ DatabaseUp
  /\ \E t \in issued : Issue([purpose |-> t.purpose, set |-> t.set])
  /\ UNCHANGED <<sets, database, busy, req, tool, history>>

\* The token table cannot be written.
DatabaseError(x) ==
  /\ ~DatabaseUp
  /\ At(x, "consume")
  /\ Leave(x)
  /\ UNCHANGED <<sets, database, busy, issued, tool, history>>

\* _backup_in_progress takes the flock itself, for a moment.
Probe(x, want, token) ==
  /\ At(x, "idle")
  /\ ~busy
  /\ busy' = TRUE
  /\ req' = [req EXCEPT ![x] = [Idle EXCEPT !.pc = "probe", !.want = want, !.token = token]]
  /\ UNCHANGED <<sets, database, issued, tool, history>>

SelectSet(x, s) == Probe(x, s, None)
\* The token is one of ours, for what the form names; it may always still be
\* young enough.
Confirm(x, t) == t \in issued /\ Probe(x, [purpose |-> t.purpose, set |-> t.set], t)

\* A restore is offered for sets whose checksums match, a delete for any.
Available(s) == IF s.purpose = "restore" THEN Intact(s.set) ELSE Present(s.set)

Probed(x) == At(x, "probe") /\ busy' = FALSE

Select(x) ==
  LET s == req[x].want IN
  /\ Probed(x) /\ req[x].token = None
  /\ IF Available(s) /\ DatabaseUp THEN Issue(s) ELSE UNCHANGED issued
  /\ Leave(x)
  /\ UNCHANGED <<sets, database, tool, history>>

Check(x) ==
  /\ Probed(x) /\ req[x].token # None
  /\ IF Available(req[x].want) THEN Goto(x, "consume") ELSE Leave(x)
  /\ UNCHANGED <<sets, database, issued, tool, history>>

Wait(x) == req' = [req EXCEPT ![x] = [Idle EXCEPT !.pc = "wait"]]
RunTool(x, set) == tool' = [tool EXCEPT ![x] = [Off EXCEPT !.pc = "lock", !.set = set, !.from = set]]

CarryOut(x, t) ==
  IF t.purpose = "delete"
  THEN req' = [req EXCEPT ![x].pc = "remove", ![x].token = None] /\ UNCHANGED tool
  ELSE tool[x] = Off /\ RunTool(x, t.set) /\ Wait(x)

\* Mutant: get_or_create, which does not mind that the token is there.
Consume_GetOrCreate(x) ==
  LET t == req[x].token IN
  /\ At(x, "consume") /\ DatabaseUp
  /\ used' = used \cup {t}
  /\ acted' = acted \cup {t} /\ forgotten' = forgotten \ {t}
  /\ CarryOut(x, t)
  /\ UNCHANGED <<sets, loading, busy, issued>>

\* The token's hash goes into a column that is unique.
Consume(x) ==
  LET t == req[x].token IN
  /\ At(x, "consume") /\ DatabaseUp
  /\ t \notin used
  /\ used' = used \cup {t}
  /\ acted' = acted \cup {t} /\ forgotten' = forgotten \ {t}
  /\ CarryOut(x, t)
  /\ UNCHANGED <<sets, loading, busy, issued>>

AlreadyUsed(x) ==
  /\ At(x, "consume") /\ DatabaseUp
  /\ req[x].token \in used
  /\ Leave(x)
  /\ UNCHANGED <<sets, database, busy, issued, tool, history>>

\* rmtree of the set; it can be gone, or fail or be killed half-way.
Remove(x) ==
  LET i == req[x].want.set IN
  /\ At(x, "remove") /\ Present(i)
  /\ sets' = [sets EXCEPT ![i] = NoDir]
  /\ Leave(x)
  /\ UNCHANGED <<database, busy, issued, tool, history>>
RemoveFails(x) ==
  LET i == req[x].want.set IN
  /\ At(x, "remove")
  /\ \/ UNCHANGED sets
     \/ Present(i) /\ sets' = [sets EXCEPT ![i].good = FALSE, ![i].kept = TRUE]
  /\ Leave(x)
  /\ UNCHANGED <<database, busy, issued, tool, history>>

(***************************************************************************)
(* A backup by hand, and waiting for the tool                              *)
(***************************************************************************)
RunBackup(x) ==
  /\ At(x, "idle") /\ tool[x] = Off
  /\ Wait(x)
  /\ RunTool(x, None)
  /\ UNCHANGED <<sets, database, busy, issued, history>>

ToolEnded(x) ==
  /\ At(x, "wait") /\ tool[x] = Off
  /\ Leave(x)
  /\ UNCHANGED <<sets, database, busy, issued, tool, history>>

\* subprocess.run kills the tool's shell, whose children run on.
TimeLimit(x) ==
  /\ At(x, "wait") /\ tool[x] # Off
  /\ tool' = [tool EXCEPT ![x].killed = TRUE]
  /\ Leave(x)
  /\ UNCHANGED <<sets, database, busy, issued, history>>

(***************************************************************************)
(* Uploading a backup                                                      *)
(***************************************************************************)
\* The files are unpacked beside the sets, and the identifier looked up.
BeginUpload(x, i, good) ==
  /\ At(x, "idle")
  /\ ~Present(i)
  /\ req' = [req EXCEPT ![x] = [Idle EXCEPT !.pc = "rename", !.good = good,
                                            !.want = [purpose |-> "restore", set |-> i]]]
  /\ UNCHANGED <<sets, database, busy, issued, tool, history>>

\* A backup of a database that knows none of the tokens.
Uploaded(good) == [used |-> {}, good |-> good, kept |-> FALSE]

\* Mutant: a copy that overwrites.
Rename_Overwrites(x) ==
  /\ At(x, "rename")
  /\ sets' = [sets EXCEPT ![req[x].want.set] = Uploaded(req[x].good)]
  /\ Goto(x, "verify")
  /\ UNCHANGED <<database, busy, issued, tool, history>>

\* rename fails when a set was published there since.
Rename(x) ==
  LET i == req[x].want.set IN
  /\ At(x, "rename")
  /\ IF Present(i) THEN Leave(x) /\ UNCHANGED sets
     ELSE /\ sets' = [sets EXCEPT ![i] = Uploaded(req[x].good)]
          /\ req' = [req EXCEPT ![x].pc = "verify", ![x].good = FALSE]
  /\ UNCHANGED <<database, busy, issued, tool, history>>

\* Mutant: the return code of verify is not looked at.
VerifyFails_Ignored(x) ==
  /\ At(x, "verify")
  /\ ~Intact(req[x].want.set)
  /\ Leave(x)
  /\ UNCHANGED <<sets, database, busy, issued, tool, history>>

\* verify reads whatever is published under the identifier by now.
VerifyFails(x) ==
  /\ At(x, "verify")
  /\ ~Intact(req[x].want.set)
  /\ Goto(x, "discard")
  /\ UNCHANGED <<sets, database, busy, issued, tool, history>>
VerifyPasses(x) ==
  /\ At(x, "verify")
  /\ Intact(req[x].want.set)
  /\ IF DatabaseUp THEN Issue(req[x].want) ELSE UNCHANGED issued
  /\ Leave(x)
  /\ UNCHANGED <<sets, database, busy, tool, history>>

\* The set stays as it is, whatever it is.
Keep(x) ==
  LET i == req[x].want.set IN
  sets' = IF Present(i) THEN [sets EXCEPT ![i].kept = TRUE] ELSE sets

VerifyTimesOut(x) ==
  /\ At(x, "verify")
  /\ Keep(x)
  /\ Leave(x)
  /\ UNCHANGED <<database, busy, issued, tool, history>>

\* rmtree with its errors ignored.
Discard(x) ==
  /\ At(x, "discard")
  /\ \/ sets' = [sets EXCEPT ![req[x].want.set] = NoDir]
     \/ Keep(x)
  /\ Leave(x)
  /\ UNCHANGED <<database, busy, issued, tool, history>>

(***************************************************************************)
(* The tool                                                                *)
(***************************************************************************)
Tool(x, where) == tool[x].pc = where
\* The tool, or what is left of it, is gone.
End(x) == tool' = [tool EXCEPT ![x] = Off]

ToolLocks(x) ==
  /\ Tool(x, "lock") /\ ~tool[x].killed
  /\ ~busy /\ (tool[x].set # None => Intact(tool[x].set))
  /\ busy' = TRUE
  /\ tool' = [tool EXCEPT ![x].pc = "backup"]
  /\ UNCHANGED <<sets, database, issued, req, history>>

\* The flock is given back with the new set, also by a restore, whose safety
\* backup runs in a subshell and outlives its shell.
ToolBacksUp(x) ==
  /\ Tool(x, "backup") /\ DatabaseUp
  /\ tool[x].set = None => ~tool[x].killed
  /\ \E i \in Ids :
       /\ ~Present(i)
       /\ sets' = [sets EXCEPT ![i] = [used |-> used, good |-> TRUE, kept |-> FALSE]]
       /\ IF tool[x].set = None \/ tool[x].killed THEN End(x)
          ELSE tool' = [tool EXCEPT ![x].pc = "load", ![x].set = None, ![x].safety = i]
  /\ busy' = FALSE
  /\ UNCHANGED <<database, issued, req, history>>

\* A command fails, or the shell is dead and no child runs.
ToolFails(x) ==
  /\ tool[x].pc \in {"lock", "backup"} \/ (Tool(x, "load") /\ tool[x].killed)
  /\ busy' = IF Tool(x, "backup") THEN FALSE ELSE busy
  /\ End(x)
  /\ UNCHANGED <<sets, database, issued, req, history>>

ToolResets(x) ==
  /\ Tool(x, "load") /\ ~tool[x].killed
  /\ Present(tool[x].from)
  /\ loading' = x
  /\ LET from == sets[tool[x].from] IN
       tool' = [tool EXCEPT ![x].pc = "loading", ![x].src = IF from.good THEN from.used ELSE None]
  /\ UNCHANGED <<sets, used, busy, issued, req, history>>

ToolLoads(x) ==
  /\ Tool(x, "loading") /\ loading = x /\ tool[x].src # None
  /\ used' = tool[x].src
  /\ loading' = None
  /\ forgotten' = forgotten \cup (acted \ used')
  /\ End(x)
  /\ UNCHANGED <<sets, busy, issued, req, acted>>

\* The dump is gone, or does not load: the safety backup is next, once.
ToolRollsBack(x) ==
  /\ tool[x].pc \in {"load", "loading"}
  /\ Tool(x, "load") => ~Present(tool[x].from)
  /\ IF tool[x].from = tool[x].safety \/ tool[x].killed THEN End(x)
     ELSE tool' = [tool EXCEPT ![x].pc = "load", ![x].from = tool[x].safety]
  /\ UNCHANGED <<sets, database, busy, issued, req, history>>

(***************************************************************************)
(* gunicorn's worker timeout                                               *)
(***************************************************************************)
KillWorker(x) ==
  /\ ~At(x, "idle")
  /\ busy' = IF At(x, "probe") THEN FALSE ELSE busy
  /\ IF req[x].pc \in {"verify", "discard"} THEN Keep(x) ELSE UNCHANGED sets
  /\ Leave(x)
  /\ UNCHANGED <<database, issued, tool, history>>

Confirmation(x) ==
  \/ \E s \in Selections : SelectSet(x, s)
  \/ \E t \in issued : Confirm(x, t)
  \/ Select(x) \/ Check(x) \/ Consume(x) \/ AlreadyUsed(x)
  \/ Remove(x) \/ RemoveFails(x)
Upload(x) ==
  \/ \E i \in Ids, good \in BOOLEAN : BeginUpload(x, i, good)
  \/ Rename(x) \/ VerifyFails(x) \/ VerifyPasses(x) \/ VerifyTimesOut(x) \/ Discard(x)
Page(x) ==
  \/ ShowAgain(x) \/ DatabaseError(x) \/ RunBackup(x) \/ ToolEnded(x) \/ TimeLimit(x)
RunningTool(x) ==
  ToolLocks(x) \/ ToolBacksUp(x) \/ ToolFails(x) \/ ToolResets(x) \/ ToolLoads(x) \/ ToolRollsBack(x)

Next == \E x \in Workers :
  Confirmation(x) \/ Upload(x) \/ Page(x) \/ RunningTool(x) \/ KillWorker(x)
Spec == Init /\ [][Next]_vars

(***************************************************************************)
(* Properties                                                              *)
(***************************************************************************)
\* Every variable holds a value of its kind, and a request or a tool under way
\* has what it works with.
RequestOK(r) ==
  /\ r \in Requests
  /\ r.pc \notin {"idle", "wait"} => r.want \in Selections
  /\ r.pc = "consume" => r.token \in Tokens
ToolOK(t) ==
  /\ t \in ToolStates
  /\ t.pc \in {"lock", "backup"} => t.from = t.set
  /\ t.pc \in {"load", "loading"} => t.from \in Ids /\ t.safety \in Ids
TypeOK ==
  /\ sets \in [Ids -> SetRecords \cup {NoDir}]
  /\ used \in SUBSET Tokens /\ loading \in Workers \cup {None} /\ busy \in BOOLEAN
  /\ issued \in SUBSET Tokens /\ acted \in SUBSET Tokens /\ forgotten \in SUBSET Tokens
  /\ req \in [Workers -> Requests] /\ tool \in [Workers -> ToolStates]
  /\ \A x \in Workers : RequestOK(req[x]) /\ ToolOK(tool[x])

\* Double clicks, reloads and other tabs do not repeat a confirmed restore or
\* delete: a token is carried out again only after a restore has loaded a
\* database from which its use was missing (_consume_confirmation_token).
ActsTwice(t) == \E x \in Workers : At(x, "consume") /\ req[x].token = t /\ t \in acted /\ req'[x].pc \in {"wait", "remove"}
RepeatsOnlyForgotten == [][\A t \in Tokens : ActsTwice(t) => t \in forgotten]_vars

\* An upload never replaces a published set, although a backup or another
\* upload may take its identifier after it was looked up (_backup_upload).
UploadsReplaceNothing ==
  [][\A x \in Workers : At(x, "rename") /\ ~At(x, "rename")' =>
       \A i \in Ids : Present(i) => sets'[i] = sets[i]]_vars

\* A set that does not verify stays listed only while its upload is being
\* verified, or after a request that broke off or could not remove it.
DamagedExplained ==
  \A i \in Ids : Present(i) /\ ~sets[i].good =>
    \/ sets[i].kept
    \/ \E x \in Workers : req[x].pc \in {"verify", "discard"} /\ req[x].want.set = i
=============================================================================
