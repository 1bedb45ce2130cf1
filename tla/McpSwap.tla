------------------------------ MODULE McpSwap ------------------------------
(***************************************************************************)
(* scripts/mcp_swap.py: use-local points the MCP entry of every installed   *)
(* agent CLI at a checkout and keeps a backup of each configuration file,   *)
(* revert restores the backups in reverse order.  Both write several files  *)
(* one after the other (backup, recovery state, configuration) and may be   *)
(* killed, or fail, between any two of them; a lock keeps two invocations   *)
(* apart, but not the user and the CLIs, who edit the same configurations.  *)
(*                                                                         *)
(* A configuration is abstracted to what becomes of the one server entry in *)
(* each of its scopes.  Claude keeps two scopes, user and project, in one   *)
(* file; every other CLI has the user scope only.                           *)
(*                                                                         *)
(* The path of a configuration is a regular file, or a symbolic link to a   *)
(* file elsewhere (dotfiles); the user may replace or repoint it at any     *)
(* time.  A physical file is the pair of a CLI and a place: Own for the path *)
(* of the configuration itself, any other for where it may lead.  No two    *)
(* CLIs share a file, and the places other than Own are regular files.     *)
(***************************************************************************)
EXTENDS Integers, FiniteSets, FiniteSetsExt

CONSTANTS
  Clis,        \* the installed agent CLIs
  Claude,      \* the one with a project scope
  Places,      \* where the configuration of a CLI may be kept
  Own,         \* the one that is its config_path, when that is no link
  Procs,       \* processes that run a command
  MaxCommands, \* bound: commands in a behaviour, and backups of a scope
  MaxMishaps   \* bound: failures, kills and interventions of the user in a behaviour

ASSUME SwapAssumption ==
  /\ IsFiniteSet(Clis) /\ Claude \in Clis /\ Own \in Places
  /\ MaxCommands \in Nat /\ MaxMishaps \in Nat
  /\ "none" \notin Procs

VARIABLES
  config,   \* the physical files: what is in each
  link,     \* per CLI: the place config_path resolves to, Own for no link
  state,    \* STATE_FILE: (cli, scope) -> backup, seq_no and target_path
  backups,  \* the backup files: name -> what was copied
  lock,     \* who holds state.lock
  pc, job,  \* of each process: where it is, and its local variables
  pristine, \* history: what was in each file before the first swap of it
  spoilt,   \* history: the files to which something has been done that revert
            \* cannot undo
  commands, mishaps

swapVars == <<config, link, state, backups, lock, pc, job, pristine, spoilt, commands, mishaps>>

Nothing == "none"
BackupNames(k) == {k} \X (1 .. MaxCommands)

(* "odd" stands for a layout that is not a table of server entries.        *)
Targets == {"local", "pr"}

File(kind, user, project) == [kind |-> kind, user |-> user, project |-> project]
NoFile == File("absent", Nothing, Nothing)
Garbage == File("garbage", Nothing, Nothing)
UserFiles(c) ==
  {NoFile, Garbage, File("table", Nothing, Nothing)}
  \cup IF c = Claude THEN {File("table", "pin", "odd"), File("table", "odd", "pin")}
     ELSE {File("table", "pin", Nothing), File("table", "odd", Nothing)}

NoJob == [op |-> Nothing, want |-> Nothing, scope |-> Nothing, only |-> {}, todo |-> {},
          cli |-> Nothing, target |-> Nothing, mem |-> <<>>, prev |-> <<>>, orig |-> NoFile,
          layers |-> {}, rc |-> 0]

Files == Clis \X Places

SwapInit ==
  /\ link \in [Clis -> Places]
  /\ config \in [Files -> UNION {UserFiles(c) : c \in Clis}]
  /\ \A x \in Files : config[x] \in UserFiles(x[1])
  /\ \A c \in Clis : link[c] # Own => config[<<c, Own>>] = NoFile
  /\ state = <<>> /\ backups = <<>>
  /\ lock = Nothing
  /\ pc = [p \in Procs |-> "idle"] /\ job = [p \in Procs |-> NoJob]
  /\ pristine = config /\ spoilt = {}
  /\ commands = 0 /\ mishaps = 0

----------------------------------------------------------------------------
(* _normalize_scope().                                                     *)
Normalize(c, scope) ==
  CASE c # Claude -> "user"
    [] c = Claude /\ scope = Nothing -> "project"
    [] OTHER -> scope

(* load_config() raises for what does not parse.                           *)
Parses(f) == f.kind = "table"

(* _server_map(), _claude_user_servers() and _claude_project_node() raise   *)
(* when they do not recognise the layout.                                  *)
ServerMapFound(f) == f.user # "odd"
UserServersFound(f) == f.user # "odd"
ProjectNodeFound(f) == f.project # "odd"

(* get_server(), and the spec it reads.                                    *)
Recognised(c, s, f) ==
  CASE c # Claude -> ServerMapFound(f)
    [] c = Claude /\ s = "user" -> UserServersFound(f)
    [] OTHER -> ProjectNodeFound(f)
GetServer(s, f) == f[s]

(* set_server() followed by dump_config_bytes().                           *)
SetServer(s, f, want) == [f EXCEPT ![s] = want]

(* _points_at(): a checkout never passes for a pull request.               *)
PointsAt(current, want) == current = want

(* The state without, or with, an entry; the seq_no of the next one.       *)
Without(st, k) == [x \in DOMAIN st \ {k} |-> st[x]]
With(st, k, e) == [x \in DOMAIN st \cup {k} |-> IF x = k THEN e ELSE st[x]]
NextSeq(st) == Max({st[k].seq : k \in DOMAIN st} \cup {-1}) + 1

(* The entry recorded for a swap of k at the place t: that of a kept backup   *)
(* keeps its seq_no, and is for t from now on.                             *)
Register(st, k, b, t) ==
  With(st, k, [backup |-> b, target |-> t,
               seq |-> IF k \in DOMAIN st /\ st[k].backup = b THEN st[k].seq ELSE NextSeq(st)])

(* The file a layer was swapped in; the layers of a file.                   *)
FileOf(st, k) == <<k[1], st[k].target>>
LayersAt(st, x) == {k \in DOMAIN st : FileOf(st, k) = x}

LayersOf(st, c) == {k \in DOMAIN st : k[1] = c}
Top(st, ks) == CHOOSE k \in ks : \A l \in ks : st[l].seq <= st[k].seq
Bottom(st, ks) == CHOOSE k \in ks : \A l \in ks : st[k].seq <= st[l].seq

(* Process p goes on, its local variables changed.                         *)
Goto(p, label, j) ==
  /\ pc' = [pc EXCEPT ![p] = label]
  /\ job' = [job EXCEPT ![p] = j]
Mishap == mishaps < MaxMishaps /\ mishaps' = mishaps + 1
Failed(j) == [j EXCEPT !.rc = 1]
Key(j) == <<j.cli, Normalize(j.cli, j.scope)>>
OnDisk == <<config, link, state, backups, pristine, spoilt, commands, mishaps>>

(* atomic_write() to the place t of c.  Where the user has put a link in the *)
(* meantime it follows the link: it changes another file than it is meant   *)
(* to, and not that one.                                                   *)
Resolve(c, t) == IF t = Own THEN link[c] ELSE t
Redirected(c, t) == IF Resolve(c, t) = t THEN {} ELSE {<<c, t>>, <<c, Resolve(c, t)>>}

AtomicWrite(c, t, f) == config' = [config EXCEPT ![<<c, Resolve(c, t)>>] = f]

----------------------------------------------------------------------------
(* cmd_use_local() or cmd_revert() is called.                              *)
Call(p) ==
  /\ pc[p] = "idle" /\ commands < MaxCommands
  /\ commands' = commands + 1
  /\ Goto(p, "lock", NoJob)
  /\ UNCHANGED <<config, link, state, backups, lock, pristine, spoilt, mishaps>>

(* The arguments --pr, --scope and --cli, which nothing depends on before.  *)
(* To use-local, "project" is the same as no scope.                        *)
Arguments(p, op, want, scopes) ==
  \E scope \in scopes, only \in {{}} \cup {{c} : c \in Clis} :
    Goto(p, "load", [NoJob EXCEPT !.op = op, !.want = want, !.scope = scope, !.only = only])
Locked(p) ==
  \/ \E want \in Targets : Arguments(p, "use", want, {Nothing, "user"})
  \/ Arguments(p, "revert", Nothing, {Nothing, "user", "project"})

(* _state_lock(): flock() waits until it has the lock.                     *)
Lock(p) ==
  /\ pc[p] = "lock" /\ lock = Nothing
  /\ lock' = p
  /\ Locked(p)
  /\ UNCHANGED OnDisk

(* The command returns, out of the with statement of the lock.             *)
Return(p) ==
  /\ lock' = Nothing
  /\ Goto(p, "idle", NoJob)
  /\ UNCHANGED OnDisk

(* present_clis(): those whose configuration is there, at the end of a link. *)
Live(c) == config[<<c, link[c]>>]
PresentClis == {c \in Clis : Live(c).kind # "absent"}

(* load_state(strict=True), after preflight_spec() of a pull request.      *)
LoadState(p) ==
  /\ pc[p] = "load"
  /\ LET j == job[p]
         todo == IF j.only # {} THEN j.only
                 ELSE IF j.op = "use" THEN PresentClis
                 ELSE {k[1] : k \in DOMAIN state}
     IN  /\ todo # {}
         /\ Goto(p, "next", [j EXCEPT !.mem = state, !.todo = todo, !.only = IF j.op = "use" THEN {} ELSE @])
  /\ UNCHANGED <<OnDisk, lock>>

(* preflight_spec(): the pull request cannot be started.                   *)
PreflightFails(p) ==
  /\ pc[p] = "load" /\ job[p].op = "use" /\ job[p].want = "pr"
  /\ Return(p)

(* The state cannot be read, or there is nothing to do.                    *)
LoadFails(p) ==
  /\ pc[p] = "load"
  /\ Return(p)

(* The end of the loop over the CLIs.                                      *)
Finish(p) ==
  /\ pc[p] = "next" /\ job[p].todo = {}
  /\ Return(p)

----------------------------------------------------------------------------
(* use-local, one CLI of the loop: the next iteration, with or without the  *)
(* return code raised.                                                     *)
Skip(p, j) ==
  /\ Goto(p, "next", [j EXCEPT !.cli = Nothing, !.layers = {}])
  /\ UNCHANGED <<OnDisk, lock>>

(* The next iteration after an OSError.                                    *)
Fail(p, j) ==
  /\ Mishap
  /\ Goto(p, "next", [Failed(j) EXCEPT !.cli = Nothing, !.layers = {}])
  /\ UNCHANGED <<config, link, state, backups, pristine, spoilt, commands, lock>>

(* The links are resolved once.  The configuration is missing, unreadable,   *)
(* or of an unknown layout, or already points at the target.               *)
ReadConfig(p) ==
  /\ pc[p] = "next" /\ job[p].op = "use"
  /\ \E c \in job[p].todo :
       LET j == [job[p] EXCEPT !.todo = @ \ {c}, !.cli = c, !.target = link[c], !.orig = Live(c)]
           s == Normalize(c, j.scope)
           f == Live(c)
       IN  CASE ~Parses(f) -> Skip(p, Failed(j))
             [] Parses(f) /\ ~Recognised(c, s, f) -> Skip(p, Failed(j))
             [] Parses(f) /\ Recognised(c, s, f) /\ PointsAt(GetServer(s, f), j.want) -> Skip(p, j)
             [] OTHER -> \/ Goto(p, "backup", j) /\ UNCHANGED <<OnDisk, lock>>
                         \/ Fail(p, j)

(* write_new_backup(): a name that is not taken.  Names hold the time to    *)
(* the second, so one that was freed is taken again within that second:     *)
(* the first two free names stand for both cases.                          *)
FreshNames(k) ==
  LET free == BackupNames(k) \ DOMAIN backups
  IN  {b \in free : Cardinality({x \in free : x[2] < b[2]}) < 2}

(* Wrong: a backup at every swap.                                          *)
KeepsNone(j) == FALSE

(* A layer that is swapped again keeps its first backup.                   *)
KeepsBackup(j) == Key(j) \in DOMAIN j.mem /\ j.mem[Key(j)].backup \in DOMAIN backups

Backup(p) ==
  /\ pc[p] = "backup"
  /\ LET j == job[p] IN
       \/ /\ KeepsBackup(j)
          /\ Goto(p, "record", [j EXCEPT !.prev = j.mem, !.mem = Register(j.mem, Key(j), j.mem[Key(j)].backup, j.target)])
          /\ UNCHANGED <<OnDisk, lock>>
       \/ /\ ~KeepsBackup(j)
          /\ \E b \in FreshNames(Key(j)) :
               /\ backups' = With(backups, b, j.orig)
               /\ Goto(p, "record", [j EXCEPT !.prev = j.mem, !.mem = Register(j.mem, Key(j), b, j.target)])
          /\ UNCHANGED <<config, link, state, pristine, spoilt, commands, mishaps, lock>>
       \/ ~KeepsBackup(j) /\ Fail(p, j)

(* The files of a layer that goes from the one to the other, and keeps the   *)
(* backup it has of the first: revert would write it over the second.      *)
Moved(st, su, k) ==
  IF k \in DOMAIN st /\ st[k].backup = su[k].backup /\ st[k].target # su[k].target
    THEN {FileOf(st, k), FileOf(su, k)} ELSE {}

(* save_state() before the configuration is touched.                       *)
Record(p) ==
  /\ pc[p] = "record"
  /\ LET j == job[p] IN
       \/ /\ state' = j.mem
          /\ spoilt' = spoilt \cup Moved(j.prev, j.mem, Key(j))
          /\ Goto(p, "write", j)
          /\ UNCHANGED <<config, link, backups, pristine, commands, mishaps, lock>>
       \/ Fail(p, [j EXCEPT !.mem = j.prev])

(* atomic_write() replaces the file or leaves it; _revalidate() may still   *)
(* fail after it.                                                          *)
Write(p) ==
  /\ pc[p] = "write"
  /\ LET j == job[p] IN
       \/ /\ AtomicWrite(j.cli, j.target, SetServer(Normalize(j.cli, j.scope), j.orig, j.want))
          /\ spoilt' = spoilt \cup Redirected(j.cli, j.target)
          /\ \/ Goto(p, "next", [j EXCEPT !.cli = Nothing]) /\ UNCHANGED mishaps
             \/ Mishap /\ Goto(p, "rollback", j)
          /\ UNCHANGED <<link, state, backups, pristine, commands, lock>>
       \/ /\ Mishap /\ Goto(p, "rollback", j)
          /\ UNCHANGED <<config, link, state, backups, pristine, spoilt, commands, lock>>

(* The old bytes again, if they can be written; else the entry stays.      *)
Rollback(p) ==
  /\ pc[p] = "rollback"
  /\ LET j == job[p] IN
       \/ /\ AtomicWrite(j.cli, j.target, j.orig)
          /\ spoilt' = spoilt \cup Redirected(j.cli, j.target)
          /\ Goto(p, "unrecord", j)
          /\ UNCHANGED <<link, state, backups, pristine, commands, mishaps, lock>>
       \/ Fail(p, j)

(* The state of before the swap; the backup file stays behind.             *)
Unrecord(p) ==
  /\ pc[p] = "unrecord"
  /\ LET j == job[p] IN
       \/ /\ state' = j.prev
          /\ Goto(p, "next", Failed([j EXCEPT !.cli = Nothing, !.mem = j.prev]))
          /\ UNCHANGED <<config, link, backups, pristine, spoilt, commands, mishaps, lock>>
       \/ Fail(p, j)

----------------------------------------------------------------------------
(* revert, one CLI of the loop: its layers, the newest first.              *)
NextLayer(j) == Top(j.mem, j.layers)

WantedScopes(c, scope) == IF scope = Nothing THEN {"user", "project"} ELSE {Normalize(c, scope)}

PickCli(p) ==
  /\ pc[p] = "next" /\ job[p].op = "revert"
  /\ \E c \in job[p].todo :
       LET ks == {k \in LayersOf(job[p].mem, c) : k[2] \in WantedScopes(c, job[p].scope)}
           j == [job[p] EXCEPT !.todo = @ \ {c}]
       IN  /\ Goto(p, IF ks = {} THEN "next" ELSE "restore",
                      [j EXCEPT !.cli = IF ks = {} THEN Nothing ELSE c, !.layers = ks])
           /\ UNCHANGED <<OnDisk, lock>>

(* Wrong: the backup is restored to where the configuration is now.         *)
RestoreConfigPath(p) ==
  /\ pc[p] = "restore"
  /\ LET j == job[p]
         b == j.mem[NextLayer(j)].backup
     IN  \/ /\ b \in DOMAIN backups
            /\ AtomicWrite(j.cli, Own, backups[b])
            /\ Goto(p, "forget", j)
            /\ UNCHANGED <<link, state, backups, pristine, spoilt, commands, mishaps, lock>>
         \/ b \notin DOMAIN backups /\ Skip(p, Failed(j))

(* The backup goes to the file it was made of, target_path.  Or it is        *)
(* missing or cannot be restored: the other layers of this CLI are left     *)
(* alone.                                                                  *)
Restore(p) ==
  /\ pc[p] = "restore"
  /\ LET j == job[p]
         k == NextLayer(j)
         t == j.mem[k].target
         b == j.mem[k].backup
         shuffled == IF k = Top(j.mem, LayersAt(j.mem, FileOf(j.mem, k))) THEN {} ELSE {FileOf(j.mem, k)}
     IN  \/ /\ b \in DOMAIN backups
            /\ AtomicWrite(j.cli, t, backups[b])
            /\ spoilt' = spoilt \cup Redirected(j.cli, t) \cup shuffled
            /\ Goto(p, "forget", j)
            /\ UNCHANGED <<link, state, backups, pristine, commands, mishaps, lock>>
         \/ Fail(p, j)
         \/ b \notin DOMAIN backups /\ Skip(p, Failed(j))

(* _save_or_clear_state() without the layer.                               *)
Forget(p) ==
  /\ pc[p] = "forget"
  /\ LET j == job[p]
         k == NextLayer(j)
     IN  \/ /\ state' = Without(j.mem, k)
            /\ Goto(p, "unlink", [j EXCEPT !.mem = Without(j.mem, k), !.layers = @ \ {k}, !.prev = j.mem])
            /\ UNCHANGED <<config, link, backups, pristine, spoilt, commands, mishaps, lock>>
         \/ Fail(p, j)

(* backup.unlink(), last.                                                  *)
Unlink(p) ==
  /\ pc[p] = "unlink"
  /\ LET j == job[p]
         b == j.prev[NextLayer([j EXCEPT !.mem = j.prev, !.layers = DOMAIN j.prev \ DOMAIN j.mem])].backup
         label == IF j.layers = {} THEN "next" ELSE "restore"
     IN  \/ /\ backups' = Without(backups, b)
            /\ Goto(p, label, j)
            /\ UNCHANGED <<config, link, state, pristine, spoilt, commands, mishaps, lock>>
         \/ /\ Mishap /\ Goto(p, label, Failed(j))
            /\ UNCHANGED <<config, link, state, backups, pristine, spoilt, commands, lock>>

----------------------------------------------------------------------------
(* The process is killed: the kernel releases its lock.                    *)
Crash(p) ==
  /\ pc[p] # "idle"
  /\ lock' = IF lock = p THEN Nothing ELSE lock
  /\ Mishap /\ Goto(p, "idle", NoJob)
  /\ UNCHANGED <<config, link, state, backups, pristine, spoilt, commands>>

(* Between what p has read of a file of c and what it writes of it.         *)
InFlight(c) == \E p \in Procs :
  job[p].cli = c /\ pc[p] \in {"backup", "record", "write", "rollback", "unrecord", "restore", "forget"}

(* The user, or the CLI itself, changes a file.  Without a swap of it in     *)
(* force that is the new original; under one it belongs to the swap and     *)
(* goes with it; in the middle of one it may be lost.                      *)
Changed(x, f) ==
  /\ config' = [config EXCEPT ![x] = f]
  /\ IF InFlight(x[1]) THEN
       /\ spoilt' = spoilt \cup {x}
       /\ UNCHANGED pristine
     ELSE IF LayersAt(state, x) = {} THEN
       /\ pristine' = [pristine EXCEPT ![x] = f]
       /\ spoilt' = spoilt \ {x}
     ELSE UNCHANGED <<pristine, spoilt>>

Edit(c, t) ==
  /\ Mishap
  /\ Resolve(c, t) = t
  /\ \E f \in UserFiles(c) : f # config[<<c, t>>] /\ Changed(<<c, t>>, f)
  /\ UNCHANGED <<link, state, backups, lock, pc, job, commands>>

(* The user repoints config_path, makes a link of it, or puts a file of its  *)
(* own, or none, in place of the link.                                     *)
Relink(c, t) ==
  /\ Mishap
  /\ t # link[c] /\ link' = [link EXCEPT ![c] = t]
  /\ CASE t = Own -> \E f \in UserFiles(c) : Changed(<<c, Own>>, f)
       [] t # Own /\ link[c] = Own -> Changed(<<c, Own>>, NoFile)
       [] OTHER -> UNCHANGED <<config, pristine, spoilt>>
  /\ UNCHANGED <<state, backups, lock, pc, job, commands>>

(* The user deletes a backup file.                                         *)
LoseBackup(b) ==
  /\ Mishap
  /\ backups' = Without(backups, b)
  /\ spoilt' = spoilt \cup {x \in Files : x[1] = b[1][1] /\
       (InFlight(x[1]) \/ \E k \in LayersAt(state, x) : state[k].backup = b)}
  /\ UNCHANGED <<config, link, state, lock, pc, job, pristine, commands>>

Step(p) ==
  \/ Lock(p) \/ LoadState(p) \/ PreflightFails(p) \/ LoadFails(p) \/ Finish(p)
  \/ ReadConfig(p) \/ Backup(p) \/ Record(p) \/ Write(p) \/ Rollback(p) \/ Unrecord(p)
  \/ PickCli(p) \/ Restore(p) \/ Forget(p) \/ Unlink(p)

SwapNext ==
  \/ \E p \in Procs : Call(p)
  \/ \E p \in Procs : Step(p)
  \/ \E p \in Procs : Crash(p)
  \/ \E c \in Clis, t \in Places : Edit(c, t) \/ Relink(c, t)
  \/ \E b \in DOMAIN backups : LoseBackup(b)

SwapSpec == SwapInit /\ [][SwapNext]_swapVars

----------------------------------------------------------------------------
(* However a swap is interrupted, what the user had in a file before it was  *)
(* first swapped is where revert finds it: in the backup of the oldest      *)
(* layer, or in the file itself when no layer of it is recorded, wherever   *)
(* config_path leads by now.  Not so once the user has deleted a backup of  *)
(* it, edited it in the middle of a swap, replaced it by a link that revert  *)
(* then follows, or reverted layers out of order with --scope; nor when a   *)
(* layer is swapped anew after its link was repointed, which takes its      *)
(* backup from one file to another (_cmd_use_local(), _cmd_revert()).       *)
Recoverable == \A x \in Files : x \notin spoilt =>
  LET ks == LayersAt(state, x) IN
  IF ks = {} THEN config[x] = pristine[x]
  ELSE LET b == state[Bottom(state, ks)].backup IN
       b \in DOMAIN backups /\ backups[b] = pristine[x]

(* revert without arguments that reports success has put back every file    *)
(* as it was before it was first swapped, and no other, and records no swap  *)
(* any more.  The live configuration is the original unless config_path was  *)
(* repointed or replaced; then it is what the user has put there.           *)
RevertRestores == [][
  \A p \in Procs :
    pc[p] = "next" /\ pc'[p] = "idle" /\ job[p].todo = {} /\ job[p].op = "revert"
    /\ job[p].scope = Nothing /\ job[p].only = {} /\ job[p].rc = 0
    => /\ DOMAIN state' = {}
       /\ \A x \in Files : x \notin spoilt' => config'[x] = pristine'[x]
  ]_swapVars
=============================================================================
