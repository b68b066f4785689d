-------------------------- MODULE ConfirmedCommit --------------------------
(***************************************************************************)
(* The contents of the datastores of netconfd and the confirmed commit: a  *)
(* server with a candidate target, where commit copies <candidate> to      *)
(* <running> and commit_cb (agt_ncx.c) remembers a commit that has to be   *)
(* confirmed before a timeout, with or without the session that began it.  *)
(*                                                                         *)
(* commit_invoke does several things that can fail; each way it can end is *)
(* an action or a disjunct. Faults names the failures a run allows:        *)
(*   "apply"    a callback refuses the commit, and the edits are undone    *)
(*   "rollback" a callback refuses and the edits cannot be undone          *)
(*   "backup"   the backup file cannot be opened for writing               *)
(*   "complete" agt_commit_complete fails after the edits were made        *)
(*   "save"     the startup file cannot be written                         *)
(*   "restore"  a callback refuses the backup configuration                *)
(*   "message"  a client sends a message that the server cannot dispatch   *)
(***************************************************************************)
EXTENDS Naturals

CONSTANTS
    Sessions,
    NoSession,
    Configs,          \* configurations, compared for equality only
    FactoryConfig,    \* what the server starts with when there is no file
    NoConfig,         \* no file, no base
    PersistIds,
    NoPersist,        \* cc_persist_id is NULL, or the parameter is absent
    HasStartup,       \* agt_has_startup
    StartupErrorStop, \* agt_startup_error, --startup-error=stop
    Faults

ASSUME NullsAssumption ==
    /\ NoSession \notin Sessions
    /\ NoConfig \notin Configs
    /\ FactoryConfig \in Configs
    /\ NoPersist \notin PersistIds

ASSUME FlagsAssumption ==
    /\ HasStartup \in BOOLEAN
    /\ StartupErrorStop \in BOOLEAN
    /\ Faults \subseteq
         {"apply", "rollback", "backup", "complete", "save", "restore", "message"}

VARIABLES
    alive,      \* sessions that have a session control block
    lockedBy,   \* owner of the global lock of "running" and "candidate"
    running,    \* contents of <running>
    candidate,  \* contents of <candidate>
    dirty,      \* CFG_FL_DIRTY of <candidate>
    unmarked,   \* <candidate> may differ from <running> in nodes not marked as edits
    nvstore,    \* contents of the startup file (and of <startup>, if there is one),
                \* or NoConfig when it does not exist
    backup,     \* contents of the backup file
    commit_cb,  \* cc_active, cc_ses_id and cc_persist_id
    base,       \* <running> when the pending commit began (for the properties)
    reply,      \* how the last request was answered
    event       \* the last sysConfirmedCommit notification

sessionVars == <<alive, lockedBy>>
candVars == <<candidate, dirty, unmarked>>
vars == <<sessionVars, running, candVars, nvstore, backup, commit_cb, base, reply, event>>

Datastores == {"running", "candidate"}

CommitCbs ==
    [active : BOOLEAN, sid : Sessions \cup {NoSession},
     persist : PersistIds \cup {NoPersist}]

\* clear_commit_cb
NoCommit == [active |-> FALSE, sid |-> NoSession, persist |-> NoPersist]

\* The configuration a server with this startup file starts with.
load_running_config(file) == IF file = NoConfig THEN FactoryConfig ELSE file

Init ==
    /\ alive = {}
    /\ lockedBy = [d \in Datastores |-> NoSession]
    /\ nvstore \in Configs \cup {NoConfig}
    /\ running = load_running_config(nvstore)
    /\ candidate = running
    /\ dirty = FALSE
    /\ unmarked = FALSE
    /\ backup = NoConfig
    /\ commit_cb = NoCommit
    /\ base = NoConfig
    /\ reply = "ok"
    /\ event = "none"

cfg_ok_to_write(d, s) == lockedBy[d] \in {NoSession, s}

cfg_fill_candidate_from_running ==
    /\ candidate' = running'
    /\ dirty' = FALSE
    /\ unmarked' = FALSE
-----------------------------------------------------------------------------
(* Sessions, locks and edits. *)

agt_ses_new_session(s) ==
    /\ s \notin alive
    /\ alive' = alive \cup {s}
    /\ UNCHANGED <<lockedBy, running, candVars, nvstore, backup, commit_cb, base, event>>
    /\ reply' = "ok"

\* Partial locks, which share the guard, are in ConfigLocks.
lock(s, d) ==
    /\ s \in alive
    /\ lockedBy[d] = NoSession
    /\ d = "candidate" => ~dirty
    /\ ~commit_cb.active
    /\ lockedBy' = [lockedBy EXCEPT ![d] = s]
    /\ UNCHANGED <<alive, running, candVars, nvstore, backup, commit_cb, base, event>>
    /\ reply' = "ok"

unlock(s, d) ==
    /\ s \in alive
    /\ lockedBy[d] = s
    /\ lockedBy' = [lockedBy EXCEPT ![d] = NoSession]
    /\ UNCHANGED <<alive, running, nvstore, backup, commit_cb, base, event>>
    /\ reply' = "ok"
    /\ IF d = "candidate" THEN cfg_fill_candidate_from_running ELSE UNCHANGED candVars

\* Mutant: the dirty flag is left as it is.
edit_config_NoFlag(s, c) ==
    /\ s \in alive
    /\ cfg_ok_to_write("candidate", s)
    /\ candidate' = c
    /\ UNCHANGED <<sessionVars, running, dirty, unmarked>>
    /\ UNCHANGED <<nvstore, backup, commit_cb, base, event>>
    /\ reply' = "ok"

\* edit-config, or copy-config from a <config> element, which
\* agt_val_apply_write carries out in the same way.
edit_config(s, c) ==
    /\ s \in alive
    /\ cfg_ok_to_write("candidate", s)
    /\ candidate' = c
    /\ dirty' = TRUE
    /\ UNCHANGED <<sessionVars, running, unmarked, nvstore, backup, commit_cb, base, event>>
    /\ reply' = "ok"

discard_changes(s) ==
    /\ s \in alive
    /\ cfg_ok_to_write("candidate", s)
    /\ dirty
    /\ UNCHANGED <<sessionVars, running, nvstore, backup, commit_cb, base, event>>
    /\ reply' = "ok"
    /\ cfg_fill_candidate_from_running

\* copy-config to <candidate> from another datastore. The copy of <startup> has
\* its nodes' flags, and the dirty flag is cleared.
copy_config_candidate(s, src) ==
    /\ s \in alive
    /\ cfg_ok_to_write("candidate", s)
    /\ UNCHANGED <<sessionVars, running, nvstore, backup, commit_cb, base, event>>
    /\ reply' = "ok"
    /\ \/ src = "running" /\ cfg_fill_candidate_from_running
       \/ /\ src = "startup"
          /\ HasStartup
          /\ nvstore # NoConfig
          /\ candidate' = nvstore
          /\ dirty' = FALSE
          /\ unmarked' = TRUE

\* copy-config to <startup> from a datastore, a <config> element or an <url>.
\* The lock of <startup> is in ConfigLocks.
copy_config_startup(s, c) ==
    /\ HasStartup
    /\ s \in alive
    /\ nvstore' = c
    /\ UNCHANGED <<sessionVars, running, candVars, backup, commit_cb, base, event>>
    /\ reply' = "ok"

\* delete-config of <startup>: the file goes too.
delete_config(s) ==
    /\ HasStartup
    /\ s \in alive
    /\ nvstore # NoConfig
    /\ nvstore' = NoConfig
    /\ UNCHANGED <<sessionVars, running, candVars, backup, commit_cb, base, event>>
    /\ reply' = "ok"
-----------------------------------------------------------------------------
(* commit *)

\* Mutant: only the lock of <candidate> is looked at.
commit_validate_CandidateOnly(s, persistid) ==
    /\ s \in alive
    /\ persistid # NoPersist => commit_cb.active /\ persistid = commit_cb.persist
    /\ cfg_ok_to_write("candidate", s)

commit_validate(s, persistid) ==
    /\ s \in alive
    /\ persistid # NoPersist => commit_cb.active /\ persistid = commit_cb.persist
    /\ cfg_ok_to_write("candidate", s)
    /\ cfg_ok_to_write("running", s)

\* A pending commit is extended with its persist-id, or by its session when it
\* has none.
may_extend(s, persistid) ==
    IF commit_cb.persist = NoPersist THEN commit_cb.sid = s ELSE persistid # NoPersist

\* A pending commit is confirmed with its persist-id, or by its session.
may_confirm(s, persistid) == persistid # NoPersist \/ commit_cb.sid = s

\* commit_cb after a confirmed commit of s was let through.
cc_start(s, persist) ==
    [active |-> TRUE, sid |-> s,
     persist |-> IF persist # NoPersist THEN persist ELSE commit_cb.persist]

\* The load of a backup file as session sid (0 is the system): its validation
\* checks the lock of <running>, and an error stops the load only if errors at
\* startup stop the server.
load_config_file(sid, file) ==
    /\ file \in Configs
    /\ StartupErrorStop => cfg_ok_to_write("running", sid)

\* After a commit that failed and was not undone (rollback_res is not NO_ERR, also when
\* no rollback was tried) the backup is loaded with the rights of cc_ses_id. When that
\* does not go through <running> stays what it has become, one of left.
load_backup(left) ==
    \/ load_config_file(commit_cb'.sid, backup') /\ running' = backup'
    \/ /\ load_config_file(commit_cb'.sid, backup') => "restore" \in Faults
       /\ running' \in left

\* agt_val_apply_commit when all callbacks accept. nv is the startup file so far.
\* Only marked nodes of the candidate are applied, and every node that it lacks is
\* deleted: when not all that differs is marked <running> is some mixture. Otherwise
\* it becomes the candidate. A late failure leaves the candidate without the nodes
\* that went into <running>, and with the others no longer marked.
commit_applied(nv, save_nvstore) ==
    LET mirror == save_nvstore /\ ~HasStartup
        merged == IF unmarked THEN Configs ELSE {candidate}
    IN  \/ /\ running' \in merged
           /\ nvstore' = IF mirror THEN running' ELSE nv
           /\ cfg_fill_candidate_from_running
           /\ reply' = "ok"
        \/ /\ "complete" \in Faults \/ (mirror /\ "save" \in Faults)
           /\ load_backup(merged)
           /\ nvstore' = nv
           /\ IF dirty \/ unmarked THEN candidate' \in Configs ELSE UNCHANGED candidate
           /\ unmarked' = (dirty \/ unmarked \/ running' # running)
           /\ UNCHANGED dirty
           /\ reply' = "error"

\* agt_val_apply_commit when a callback refuses one of the edits. If the undo
\* fails too, the backup is loaded in the place of whatever <running> has become.
commit_refused(nv) ==
    /\ dirty \/ unmarked
    /\ \/ "apply" \in Faults /\ UNCHANGED <<running, unmarked>>
       \/ /\ "rollback" \in Faults
          /\ load_backup(Configs)
          /\ unmarked' = (unmarked \/ running' # running)
    /\ nvstore' = nv
    /\ UNCHANGED <<candidate, dirty>>
    /\ reply' = "error"

\* The part of commit_invoke after the decision on commit_cb: write the backup,
\* then apply the candidate.
backup_and_apply(nv, save_nvstore) ==
    \/ /\ backup' = running
       /\ commit_applied(nv, save_nvstore) \/ commit_refused(nv)
    \/ /\ "backup" \in Faults
       /\ UNCHANGED <<backup, running, candVars>>
       /\ nvstore' = nv
       /\ reply' = "error"

commit_plain(s) ==
    /\ ~commit_cb.active
    /\ commit_validate(s, NoPersist)
    /\ UNCHANGED <<sessionVars, commit_cb, base, event>>
    /\ backup_and_apply(nvstore, TRUE)

\* Mutant: the commit is saved although it is not confirmed.
commit_start_Saved(s, persist) ==
    /\ ~commit_cb.active
    /\ commit_validate(s, NoPersist)
    /\ commit_cb' = cc_start(s, persist)
    /\ base' = running
    /\ event' = "start"
    /\ UNCHANGED sessionVars
    /\ backup_and_apply(nvstore, TRUE)

commit_start(s, persist) ==
    /\ ~commit_cb.active
    /\ commit_validate(s, NoPersist)
    /\ commit_cb' = cc_start(s, persist)
    /\ base' = running
    /\ event' = "start"
    /\ UNCHANGED sessionVars
    /\ backup_and_apply(nvstore, FALSE)

\* Mutant: each extension writes the backup again.
commit_extend_NewBackup(s, persist, persistid) ==
    /\ commit_cb.active
    /\ commit_validate(s, persistid)
    /\ may_extend(s, persistid)
    /\ commit_cb' = cc_start(s, persist)
    /\ event' = "extend"
    /\ UNCHANGED <<sessionVars, base>>
    /\ backup_and_apply(nvstore, FALSE)

\* The backup of the first commit is kept.
commit_extend(s, persist, persistid) ==
    /\ commit_cb.active
    /\ commit_validate(s, persistid)
    /\ may_extend(s, persistid)
    /\ commit_cb' = cc_start(s, persist)
    /\ event' = "extend"
    /\ UNCHANGED <<sessionVars, backup, base>>
    /\ commit_applied(nvstore, FALSE) \/ commit_refused(nvstore)

\* The confirming commit saves <running> and closes the pending commit before
\* it applies what is in the candidate by now.
commit_confirm(s, persistid) ==
    /\ commit_cb.active
    /\ commit_validate(s, persistid)
    /\ may_confirm(s, persistid)
    /\ \/ /\ commit_cb' = NoCommit
          /\ base' = NoConfig
          /\ event' = "complete"
          /\ UNCHANGED sessionVars
          /\ backup_and_apply(running, TRUE)
       \/ /\ "save" \in Faults
          /\ reply' = "error"
          /\ UNCHANGED <<sessionVars, running, candVars, nvstore, backup, commit_cb, base, event>>
-----------------------------------------------------------------------------
(* The ways a confirmed commit is given up. *)

RestoreOutcomes ==
    IF load_config_file(NoSession, backup)
      THEN {TRUE} \cup (IF "restore" \in Faults THEN {FALSE} ELSE {})
      ELSE {FALSE}

\* Mutant: a cancelled commit stays in <running>.
agt_ncx_cancel_confirmed_commit_Keep(refill) ==
    /\ commit_cb' = NoCommit
    /\ base' = NoConfig
    /\ event' = "cancel"
    /\ UNCHANGED <<running, nvstore, backup>>
    /\ IF refill THEN cfg_fill_candidate_from_running ELSE UNCHANGED candVars
    /\ reply' = "ok"

\* <running> is restored as the system user; the pending commit is closed
\* whether that worked or not. refill: the caller goes on to refill the candidate.
agt_ncx_cancel_confirmed_commit(refill) ==
    /\ commit_cb' = NoCommit
    /\ base' = NoConfig
    /\ event' = "cancel"
    /\ \E restored \in RestoreOutcomes :
        /\ running' = IF restored THEN backup ELSE running
        /\ IF restored \/ refill THEN cfg_fill_candidate_from_running
                                 ELSE UNCHANGED candVars
    /\ reply' = "ok"
    /\ UNCHANGED <<nvstore, backup>>

cancel_commit(s, persistid) ==
    /\ s \in alive
    /\ commit_cb.active
    /\ cfg_ok_to_write("running", s)
    /\ persistid = commit_cb.persist
    /\ commit_cb.persist = NoPersist => commit_cb.sid = s
    /\ agt_ncx_cancel_confirmed_commit(FALSE)
    /\ UNCHANGED sessionVars

\* Mutant: only the commit of a session that is still there times out.
agt_ncx_check_cc_timeout_Owned ==
    /\ commit_cb.active
    /\ commit_cb.sid # NoSession
    /\ agt_ncx_cancel_confirmed_commit(FALSE)
    /\ UNCHANGED sessionVars

\* The clock is not modelled: once it is pending the commit may time out.
agt_ncx_check_cc_timeout ==
    /\ commit_cb.active
    /\ agt_ncx_cancel_confirmed_commit(FALSE)
    /\ UNCHANGED sessionVars

\* Mutant: the end of a session does not touch the pending commit.
agt_ses_kill_session_Forgets(s) ==
    /\ s \in alive
    /\ alive' = alive \ {s}
    /\ lockedBy' = [d \in Datastores |->
                       IF lockedBy[d] = s THEN NoSession ELSE lockedBy[d]]
    /\ reply' = "ok"
    /\ UNCHANGED <<running, nvstore, backup, commit_cb, base, event>>
    /\ IF lockedBy["candidate"] = s THEN cfg_fill_candidate_from_running
                                    ELSE UNCHANGED candVars

\* The end of a session by close, kill, timeout or end of input: its pending commit is cancelled, or
\* left to its persist-id; then its locks are released.
agt_ses_kill_session(s) ==
    LET owner == commit_cb.active /\ commit_cb.sid = s
        refill == lockedBy["candidate"] = s
    IN  /\ s \in alive
        /\ alive' = alive \ {s}
        /\ lockedBy' = [d \in Datastores |->
                          IF lockedBy[d] = s THEN NoSession ELSE lockedBy[d]]
        /\ IF owner /\ commit_cb.persist = NoPersist
             THEN agt_ncx_cancel_confirmed_commit(refill)
             ELSE /\ commit_cb' = IF owner THEN [commit_cb EXCEPT !.sid = NoSession]
                                           ELSE commit_cb
                  /\ reply' = "ok"
                  /\ UNCHANGED <<running, nvstore, backup, base, event>>
                  /\ IF refill THEN cfg_fill_candidate_from_running
                               ELSE UNCHANGED candVars

\* A message whose first node is not XML or has no handler: the session is freed
\* by agt_ses_free_session alone, and the pending commit is not looked at.
agt_top_dispatch_msg(s) ==
    /\ "message" \in Faults
    /\ s \in alive
    /\ alive' = alive \ {s}
    /\ lockedBy' = [d \in Datastores |->
                       IF lockedBy[d] = s THEN NoSession ELSE lockedBy[d]]
    /\ reply' = "ok"
    /\ UNCHANGED <<running, nvstore, backup, commit_cb, base, event>>
    /\ IF lockedBy["candidate"] = s THEN cfg_fill_candidate_from_running
                                    ELSE UNCHANGED candVars

\* Mutant: the server comes back with the backup file.
restart_FromBackup ==
    /\ alive' = {}
    /\ lockedBy' = [d \in Datastores |-> NoSession]
    /\ running' = backup
    /\ cfg_fill_candidate_from_running
    /\ commit_cb' = NoCommit
    /\ base' = NoConfig
    /\ reply' = "ok"
    /\ event' = "none"
    /\ UNCHANGED <<nvstore, backup>>

\* The server dies and comes back: only the files survive, and the backup file
\* is not looked at.
restart ==
    /\ alive' = {}
    /\ lockedBy' = [d \in Datastores |-> NoSession]
    /\ running' = load_running_config(nvstore)
    /\ cfg_fill_candidate_from_running
    /\ commit_cb' = NoCommit
    /\ base' = NoConfig
    /\ reply' = "ok"
    /\ event' = "none"
    /\ UNCHANGED <<nvstore, backup>>
-----------------------------------------------------------------------------
PersistParms == PersistIds \cup {NoPersist}

Next ==
    \/ \E s \in Sessions :
        \/ agt_ses_new_session(s)
        \/ agt_ses_kill_session(s)
        \/ agt_top_dispatch_msg(s)
        \/ \E d \in Datastores : lock(s, d) \/ unlock(s, d)
        \/ \E c \in Configs : edit_config(s, c) \/ copy_config_startup(s, c)
        \/ \E src \in {"running", "startup"} : copy_config_candidate(s, src)
        \/ discard_changes(s)
        \/ delete_config(s)
        \/ commit_plain(s)
        \/ \E persist \in PersistParms : commit_start(s, persist)
        \/ \E persist, persistid \in PersistParms : commit_extend(s, persist, persistid)
        \/ \E persistid \in PersistParms :
              commit_confirm(s, persistid) \/ cancel_commit(s, persistid)
    \/ agt_ncx_check_cc_timeout
    \/ restart

Spec == Init /\ [][Next]_vars

\* The timeout check runs when the server has nothing to read; it is always
\* enabled while a commit is pending.
FairSpec == Spec /\ WF_vars(agt_ncx_check_cc_timeout)
-----------------------------------------------------------------------------
(* Properties. *)

TypeOK ==
    /\ alive \subseteq Sessions
    /\ lockedBy \in [Datastores -> Sessions \cup {NoSession}]
    /\ running \in Configs
    /\ candidate \in Configs
    /\ dirty \in BOOLEAN
    /\ unmarked \in BOOLEAN
    /\ nvstore \in Configs \cup {NoConfig}
    /\ backup \in Configs \cup {NoConfig}
    /\ commit_cb \in CommitCbs
    /\ base \in Configs \cup {NoConfig}
    /\ reply \in {"ok", "error"}
    /\ event \in {"none", "start", "extend", "complete", "cancel"}

\* A pending commit without a persist-id has a living owner, so that somebody
\* can confirm or cancel it; with one, its owner field is a living session or 0,
\* never the id of a session that ended and that a new client may be given
\* (agt_ses_kill_session; a message that cannot be dispatched breaks it).
PendingCommitOwned ==
    commit_cb.active =>
        \/ commit_cb.sid \in alive
        \/ commit_cb.sid = NoSession /\ commit_cb.persist # NoPersist

\* A pending commit and a global lock never belong to different sessions: the
\* restore cannot overwrite a datastore another session has locked.
PendingCommitRespectsLocks ==
    commit_cb.active => \A d \in Datastores : lockedBy[d] \in {NoSession, commit_cb.sid}

\* The backup file is what <running> was before the pending commit, whatever
\* extensions, changed owners and failed commits came since.
BackupIsBase == commit_cb.active => backup = base

\* A candidate that is not dirty equals <running>: a commit of it changes nothing
\* and a lock on it locks no hidden changes. The exceptions are a candidate filled
\* from <startup>, which is not dirty however much it differs, and one that was kept
\* when a failed commit had the backup loaded.
CleanCandidateMatchesRunning == ~dirty /\ ~unmarked => candidate = running

\* Without :startup the server would at any moment come back with the last
\* confirmed configuration: what the startup file holds, or the factory
\* configuration as long as nothing was ever saved, is what nobody has to confirm
\* any more.
StartupFileConfirmed ==
    ~HasStartup =>
        load_running_config(nvstore) = (IF commit_cb.active THEN base ELSE running)

\* The datastores implement AbstractCommit: whatever the order of requests,
\* timeouts, ends of sessions and crashes, <running> is what was committed, or
\* goes back to what was last confirmed, and the sysConfirmedCommit
\* notifications tell which.
confirmed == IF commit_cb.active THEN base ELSE running

Commits ==
    INSTANCE AbstractCommit WITH active <- running, pending <- commit_cb.active

ImplementsCommit == Commits!Spec

\* A pending commit ends, unless it is extended for ever.
PendingCommitEnds ==
    \/ []<>~commit_cb.active
    \/ []<><<\E s \in Sessions, persist, persistid \in PersistParms :
                commit_extend(s, persist, persistid)>>_vars
=============================================================================
