----------------------- MODULE ConfirmedCommitProofs -----------------------
(***************************************************************************)
(* What the confirmed commit of ConfirmedCommit guarantees for any sets of *)
(* sessions, configurations and persist-ids.                               *)
(***************************************************************************)
EXTENDS ConfirmedCommit, TLAPS

USE NullsAssumption, FlagsAssumption

\* A pending commit knows what it goes back to.
PendingCommitHasBase == commit_cb.active => base \in Configs
-----------------------------------------------------------------------------
LEMMA NoCommitType == NoCommit \in CommitCbs /\ ~NoCommit.active
  BY DEF NoCommit, CommitCbs

LEMMA InitTypeOK == Init => TypeOK
<1> SUFFICES ASSUME Init PROVE TypeOK
  OBVIOUS
<1>1. dirty \in BOOLEAN /\ unmarked \in BOOLEAN
  BY DEF Init
<1>2. running \in Configs
  BY DEF Init, load_running_config
<1> QED BY <1>1, <1>2, NoCommitType DEF Init, TypeOK, Datastores

LEMMA TypeOKStep == TypeOK /\ [Next]_vars => TypeOK'
<1> SUFFICES ASSUME TypeOK, [Next]_vars PROVE TypeOK'
  OBVIOUS
<1> USE DEF TypeOK, CommitCbs, Datastores
<1>1. ASSUME NEW s \in Sessions, agt_ses_new_session(s) PROVE TypeOK'
  BY <1>1 DEF agt_ses_new_session, candVars
<1>2. ASSUME NEW s \in Sessions, NEW d \in Datastores, lock(s, d) PROVE TypeOK'
  BY <1>2 DEF lock, candVars
<1>3. ASSUME NEW s \in Sessions, NEW d \in Datastores, unlock(s, d) PROVE TypeOK'
  BY <1>3 DEF unlock, candVars, cfg_fill_candidate_from_running
<1>4. ASSUME NEW s \in Sessions, NEW c \in Configs, edit_config(s, c) PROVE TypeOK'
  <2>1. dirty' \in BOOLEAN /\ unmarked' \in BOOLEAN
    BY <1>4 DEF edit_config
  <2> QED BY <1>4, <2>1 DEF edit_config, sessionVars
<1>5. ASSUME NEW s \in Sessions, NEW c \in Configs, copy_config_startup(s, c) PROVE TypeOK'
  BY <1>5 DEF copy_config_startup, sessionVars, candVars
<1>6. ASSUME NEW s \in Sessions, discard_changes(s) PROVE TypeOK'
  BY <1>6 DEF discard_changes, sessionVars, cfg_fill_candidate_from_running
<1>17. ASSUME NEW s \in Sessions, NEW src, copy_config_candidate(s, src) PROVE TypeOK'
  <2>1. /\ candidate' \in Configs
        /\ dirty' \in BOOLEAN
        /\ unmarked' \in BOOLEAN
    BY <1>17 DEF copy_config_candidate, cfg_fill_candidate_from_running
  <2> QED BY <1>17, <2>1 DEF copy_config_candidate, sessionVars
<1>18. ASSUME NEW s \in Sessions, delete_config(s) PROVE TypeOK'
  BY <1>18 DEF delete_config, sessionVars, candVars
<1> DEFINE Applied == /\ running' \in Configs
                      /\ candidate' \in Configs
                      /\ dirty' \in BOOLEAN
                      /\ unmarked' \in BOOLEAN
                      /\ nvstore' \in Configs \cup {NoConfig}
                      /\ reply' \in {"ok", "error"}
<1>l. ASSUME NEW left \in SUBSET Configs, load_backup(left) PROVE running' \in Configs
  BY <1>l DEF load_backup, load_config_file
<1>a. ASSUME NEW nv \in Configs \cup {NoConfig}, NEW save \in BOOLEAN, commit_applied(nv, save)
      PROVE  Applied
  <2>1. running' \in Configs
    BY <1>a, <1>l DEF commit_applied
  <2>2. candidate' \in Configs
    BY <1>a, <2>1 DEF commit_applied, cfg_fill_candidate_from_running
  <2>3. dirty' \in BOOLEAN
    BY <1>a DEF commit_applied, cfg_fill_candidate_from_running
  <2>4. unmarked' \in BOOLEAN
    BY <1>a DEF commit_applied, cfg_fill_candidate_from_running
  <2>5. nvstore' \in Configs \cup {NoConfig} /\ reply' \in {"ok", "error"}
    BY <1>a, <2>1 DEF commit_applied
  <2> QED BY <2>1, <2>2, <2>3, <2>4, <2>5
<1>b. ASSUME NEW nv \in Configs \cup {NoConfig}, commit_refused(nv) PROVE Applied
  <2>1. running' \in Configs
    BY <1>b, <1>l DEF commit_refused
  <2>2. dirty' \in BOOLEAN
    BY <1>b DEF commit_refused
  <2>3. unmarked' \in BOOLEAN
    BY <1>b DEF commit_refused
  <2> QED BY <1>b, <2>1, <2>2, <2>3 DEF commit_refused
<1>c. ASSUME NEW nv \in Configs \cup {NoConfig}, NEW save \in BOOLEAN, backup_and_apply(nv, save)
      PROVE  Applied /\ backup' \in Configs \cup {NoConfig}
  BY <1>c, <1>a, <1>b DEF backup_and_apply, candVars
<1>d. ASSUME NEW s \in Sessions, NEW persist \in PersistParms
      PROVE  cc_start(s, persist) \in CommitCbs
  BY <1>d DEF cc_start, PersistParms
<1>7. ASSUME NEW s \in Sessions, commit_plain(s) PROVE TypeOK'
  BY <1>7, <1>c DEF commit_plain, sessionVars
<1>8. ASSUME NEW s \in Sessions, NEW persist \in PersistParms, commit_start(s, persist)
      PROVE  TypeOK'
  BY <1>8, <1>c, <1>d DEF commit_start, sessionVars
<1>9. ASSUME NEW s \in Sessions, NEW persist \in PersistParms, NEW persistid \in PersistParms,
             commit_extend(s, persist, persistid)
      PROVE  TypeOK'
  <2>1. Applied
    BY <1>9, <1>a, <1>b DEF commit_extend
  <2> QED BY <1>9, <2>1, <1>d DEF commit_extend, sessionVars
<1>10. ASSUME NEW s \in Sessions, NEW persistid \in PersistParms, commit_confirm(s, persistid)
       PROVE  TypeOK'
  <2>1. CASE /\ commit_cb' = NoCommit
             /\ base' = NoConfig
             /\ event' = "complete"
             /\ UNCHANGED sessionVars
             /\ backup_and_apply(running, TRUE)
    BY <2>1, <1>c, NoCommitType DEF sessionVars
  <2>2. CASE /\ reply' = "error"
             /\ UNCHANGED <<sessionVars, running, candVars, nvstore, backup, commit_cb,
                           base, event>>
    BY <2>2 DEF sessionVars, candVars
  <2> QED BY <1>10, <2>1, <2>2 DEF commit_confirm
<1>e. ASSUME NEW refill \in BOOLEAN, agt_ncx_cancel_confirmed_commit(refill)
      PROVE  /\ Applied
             /\ commit_cb' \in CommitCbs
             /\ base' \in Configs \cup {NoConfig}
             /\ backup' \in Configs \cup {NoConfig}
             /\ event' = "cancel"
  <2>1. PICK restored \in RestoreOutcomes :
           /\ running' = IF restored THEN backup ELSE running
           /\ IF restored \/ refill THEN cfg_fill_candidate_from_running
                                    ELSE UNCHANGED candVars
    BY <1>e DEF agt_ncx_cancel_confirmed_commit
  <2>2. restored \in BOOLEAN /\ (restored => backup \in Configs)
    BY DEF RestoreOutcomes, load_config_file
  <2>3. running' \in Configs
    BY <2>1, <2>2
  <2>4. candidate' \in Configs
    BY <2>1, <2>2, <2>3 DEF cfg_fill_candidate_from_running, candVars
  <2>5. dirty' \in BOOLEAN /\ unmarked' \in BOOLEAN
    BY <2>1, <2>2 DEF cfg_fill_candidate_from_running, candVars
  <2> QED BY <1>e, <2>3, <2>4, <2>5, NoCommitType DEF agt_ncx_cancel_confirmed_commit
<1>11. ASSUME NEW s \in Sessions, NEW persistid \in PersistParms, cancel_commit(s, persistid)
       PROVE  TypeOK'
  BY <1>11, <1>e DEF cancel_commit, sessionVars
<1>12. ASSUME agt_ncx_check_cc_timeout PROVE TypeOK'
  BY <1>12, <1>e DEF agt_ncx_check_cc_timeout, sessionVars
<1>13. ASSUME NEW s \in Sessions, agt_ses_kill_session(s) PROVE TypeOK'
  <2>1. alive' \subseteq Sessions /\ lockedBy' \in [Datastores -> Sessions \cup {NoSession}]
    BY <1>13 DEF agt_ses_kill_session
  <2> DEFINE refill == lockedBy["candidate"] = s
  <2>2. CASE agt_ncx_cancel_confirmed_commit(refill)
    BY <2>1, <2>2, <1>e
  <2>3. CASE ~agt_ncx_cancel_confirmed_commit(refill)
    <3>1. /\ commit_cb' = IF commit_cb.active /\ commit_cb.sid = s
                            THEN [commit_cb EXCEPT !.sid = NoSession] ELSE commit_cb
          /\ reply' = "ok"
          /\ UNCHANGED <<running, nvstore, backup, base, event>>
          /\ IF refill THEN cfg_fill_candidate_from_running ELSE UNCHANGED candVars
      BY <1>13, <2>3 DEF agt_ses_kill_session
    <3>2. dirty' \in BOOLEAN /\ unmarked' \in BOOLEAN
      BY <3>1 DEF cfg_fill_candidate_from_running, candVars
    <3> QED BY <2>1, <3>1, <3>2 DEF cfg_fill_candidate_from_running, candVars
  <2> QED BY <2>2, <2>3
<1>14. ASSUME restart PROVE TypeOK'
  <2>1. dirty' \in BOOLEAN /\ unmarked' \in BOOLEAN
    BY <1>14 DEF restart, cfg_fill_candidate_from_running
  <2>2. running' \in Configs /\ candidate' \in Configs
    BY <1>14 DEF restart, load_running_config, cfg_fill_candidate_from_running
  <2> QED BY <1>14, <2>1, <2>2, NoCommitType DEF restart
<1>16. ASSUME NEW s \in Sessions, agt_top_dispatch_msg(s) PROVE TypeOK'
  <2>1. dirty' \in BOOLEAN /\ unmarked' \in BOOLEAN
    BY <1>16 DEF agt_top_dispatch_msg, cfg_fill_candidate_from_running, candVars
  <2>2. alive' \subseteq Sessions /\ lockedBy' \in [Datastores -> Sessions \cup {NoSession}]
    BY <1>16 DEF agt_top_dispatch_msg
  <2> QED BY <1>16, <2>1, <2>2 DEF agt_top_dispatch_msg, cfg_fill_candidate_from_running, candVars
<1>15. ASSUME UNCHANGED vars PROVE TypeOK'
  BY <1>15 DEF vars, sessionVars, candVars
<1> QED
  BY <1>1, <1>2, <1>3, <1>4, <1>5, <1>6, <1>7, <1>8, <1>9, <1>10, <1>11, <1>12,
     <1>13, <1>14, <1>15, <1>16, <1>17, <1>18 DEF Next
-----------------------------------------------------------------------------
(* Owner and locks of the pending commit. *)

LEMMA OwnerStep ==
  ASSUME "message" \notin Faults
  PROVE  TypeOK /\ PendingCommitOwned /\ [Next]_vars => PendingCommitOwned'
<1> SUFFICES ASSUME TypeOK, PendingCommitOwned, [Next]_vars PROVE PendingCommitOwned'
  OBVIOUS
<1> USE DEF TypeOK, CommitCbs, Datastores, PendingCommitOwned
<1>1. ASSUME NEW s \in Sessions, agt_ses_new_session(s) PROVE PendingCommitOwned'
  BY <1>1 DEF agt_ses_new_session
<1>2. ASSUME NEW s \in Sessions, NEW d \in Datastores, lock(s, d) PROVE PendingCommitOwned'
  BY <1>2 DEF lock
<1>3. ASSUME NEW s \in Sessions, NEW d \in Datastores, unlock(s, d) PROVE PendingCommitOwned'
  BY <1>3 DEF unlock
<1>4. ASSUME NEW s \in Sessions, NEW c \in Configs, edit_config(s, c) PROVE PendingCommitOwned'
  BY <1>4 DEF edit_config, sessionVars
<1>5. ASSUME NEW s \in Sessions, NEW c \in Configs, copy_config_startup(s, c)
      PROVE  PendingCommitOwned'
  BY <1>5 DEF copy_config_startup, sessionVars
<1>6. ASSUME NEW s \in Sessions, discard_changes(s) PROVE PendingCommitOwned'
  BY <1>6 DEF discard_changes, sessionVars
<1>17. ASSUME NEW s \in Sessions, NEW src, copy_config_candidate(s, src)
       PROVE  PendingCommitOwned'
  BY <1>17 DEF copy_config_candidate, sessionVars
<1>18. ASSUME NEW s \in Sessions, delete_config(s) PROVE PendingCommitOwned'
  BY <1>18 DEF delete_config, sessionVars
<1>7. ASSUME NEW s \in Sessions, commit_plain(s) PROVE PendingCommitOwned'
  BY <1>7 DEF commit_plain, sessionVars
<1>8. ASSUME NEW s \in Sessions, NEW persist \in PersistParms, commit_start(s, persist)
      PROVE  PendingCommitOwned'
  BY <1>8 DEF commit_start, sessionVars, cc_start, commit_validate, cfg_ok_to_write
<1>9. ASSUME NEW s \in Sessions, NEW persist \in PersistParms, NEW persistid \in PersistParms,
             commit_extend(s, persist, persistid)
      PROVE  PendingCommitOwned'
  BY <1>9 DEF commit_extend, sessionVars, cc_start, commit_validate, cfg_ok_to_write
<1>10. ASSUME NEW s \in Sessions, NEW persistid \in PersistParms, commit_confirm(s, persistid)
       PROVE  PendingCommitOwned'
  <2>1. CASE commit_cb' = NoCommit
    BY <2>1, NoCommitType
  <2>2. CASE UNCHANGED <<sessionVars, commit_cb>>
    BY <2>2 DEF sessionVars
  <2> QED BY <1>10, <2>1, <2>2 DEF commit_confirm
<1>11. ASSUME NEW s \in Sessions, NEW persistid \in PersistParms, cancel_commit(s, persistid)
       PROVE  PendingCommitOwned'
  BY <1>11 DEF cancel_commit, agt_ncx_cancel_confirmed_commit, NoCommit
<1>12. ASSUME agt_ncx_check_cc_timeout PROVE PendingCommitOwned'
  BY <1>12 DEF agt_ncx_check_cc_timeout, agt_ncx_cancel_confirmed_commit, NoCommit
<1>13. ASSUME NEW s \in Sessions, agt_ses_kill_session(s) PROVE PendingCommitOwned'
  <2> DEFINE refill == lockedBy["candidate"] = s
  <2>1. CASE agt_ncx_cancel_confirmed_commit(refill)
    BY <2>1 DEF agt_ncx_cancel_confirmed_commit, NoCommit
  <2>2. CASE commit_cb.active /\ commit_cb.sid = s /\ commit_cb.persist # NoPersist
    <3>1. commit_cb' = [commit_cb EXCEPT !.sid = NoSession]
      BY <1>13, <2>2 DEF agt_ses_kill_session
    <3>2. commit_cb'.sid = NoSession /\ commit_cb'.persist # NoPersist
      BY <2>2, <3>1
    <3> QED BY <3>2
  <2>3. CASE ~commit_cb.active \/ commit_cb.sid # s
    <3>1. commit_cb' = commit_cb
      BY <1>13, <2>3 DEF agt_ses_kill_session
    <3>3. alive' = alive \ {s}
      BY <1>13 DEF agt_ses_kill_session
    <3> QED BY <2>3, <3>1, <3>3
  <2> QED BY <1>13, <2>1, <2>2, <2>3 DEF agt_ses_kill_session
<1>14. ASSUME restart PROVE PendingCommitOwned'
  BY <1>14 DEF restart, NoCommit
<1>16. ASSUME NEW s \in Sessions, agt_top_dispatch_msg(s) PROVE PendingCommitOwned'
  BY <1>16 DEF agt_top_dispatch_msg
<1>15. ASSUME UNCHANGED vars PROVE PendingCommitOwned'
  BY <1>15 DEF vars, sessionVars
<1> QED
  BY <1>1, <1>2, <1>3, <1>4, <1>5, <1>6, <1>7, <1>8, <1>9, <1>10, <1>11, <1>12,
     <1>13, <1>14, <1>15, <1>16, <1>17, <1>18 DEF Next
LEMMA LocksStep ==
  TypeOK /\ PendingCommitRespectsLocks /\ [Next]_vars => PendingCommitRespectsLocks'
<1> SUFFICES ASSUME TypeOK, PendingCommitRespectsLocks, [Next]_vars
             PROVE  PendingCommitRespectsLocks'
  OBVIOUS
<1> USE DEF TypeOK, CommitCbs, Datastores, PendingCommitRespectsLocks
<1>1. ASSUME NEW s \in Sessions, agt_ses_new_session(s) PROVE PendingCommitRespectsLocks'
  BY <1>1 DEF agt_ses_new_session
<1>2. ASSUME NEW s \in Sessions, NEW d \in Datastores, lock(s, d) PROVE PendingCommitRespectsLocks'
  BY <1>2 DEF lock
<1>3. ASSUME NEW s \in Sessions, NEW d \in Datastores, unlock(s, d) PROVE PendingCommitRespectsLocks'
  BY <1>3 DEF unlock
<1>4. ASSUME NEW s \in Sessions, NEW c \in Configs, edit_config(s, c) PROVE PendingCommitRespectsLocks'
  BY <1>4 DEF edit_config, sessionVars
<1>5. ASSUME NEW s \in Sessions, NEW c \in Configs, copy_config_startup(s, c)
      PROVE  PendingCommitRespectsLocks'
  BY <1>5 DEF copy_config_startup, sessionVars
<1>6. ASSUME NEW s \in Sessions, discard_changes(s) PROVE PendingCommitRespectsLocks'
  BY <1>6 DEF discard_changes, sessionVars
<1>17. ASSUME NEW s \in Sessions, NEW src, copy_config_candidate(s, src)
       PROVE  PendingCommitRespectsLocks'
  BY <1>17 DEF copy_config_candidate, sessionVars
<1>18. ASSUME NEW s \in Sessions, delete_config(s) PROVE PendingCommitRespectsLocks'
  BY <1>18 DEF delete_config, sessionVars
<1>7. ASSUME NEW s \in Sessions, commit_plain(s) PROVE PendingCommitRespectsLocks'
  BY <1>7 DEF commit_plain, sessionVars
<1>8. ASSUME NEW s \in Sessions, NEW persist \in PersistParms, commit_start(s, persist)
      PROVE  PendingCommitRespectsLocks'
  BY <1>8 DEF commit_start, sessionVars, cc_start, commit_validate, cfg_ok_to_write
<1>9. ASSUME NEW s \in Sessions, NEW persist \in PersistParms, NEW persistid \in PersistParms,
             commit_extend(s, persist, persistid)
      PROVE  PendingCommitRespectsLocks'
  BY <1>9 DEF commit_extend, sessionVars, cc_start, commit_validate, cfg_ok_to_write
<1>10. ASSUME NEW s \in Sessions, NEW persistid \in PersistParms, commit_confirm(s, persistid)
       PROVE  PendingCommitRespectsLocks'
  <2>1. CASE commit_cb' = NoCommit
    BY <2>1, NoCommitType
  <2>2. CASE UNCHANGED <<sessionVars, commit_cb>>
    BY <2>2 DEF sessionVars
  <2> QED BY <1>10, <2>1, <2>2 DEF commit_confirm
<1>11. ASSUME NEW s \in Sessions, NEW persistid \in PersistParms, cancel_commit(s, persistid)
       PROVE  PendingCommitRespectsLocks'
  BY <1>11 DEF cancel_commit, agt_ncx_cancel_confirmed_commit, NoCommit
<1>12. ASSUME agt_ncx_check_cc_timeout PROVE PendingCommitRespectsLocks'
  BY <1>12 DEF agt_ncx_check_cc_timeout, agt_ncx_cancel_confirmed_commit, NoCommit
<1>13. ASSUME NEW s \in Sessions, agt_ses_kill_session(s) PROVE PendingCommitRespectsLocks'
  <2> DEFINE refill == lockedBy["candidate"] = s
  <2>1. CASE agt_ncx_cancel_confirmed_commit(refill)
    BY <2>1 DEF agt_ncx_cancel_confirmed_commit, NoCommit
  <2>2. CASE commit_cb.active /\ commit_cb.sid = s /\ commit_cb.persist # NoPersist
    <3>1. commit_cb' = [commit_cb EXCEPT !.sid = NoSession]
      BY <1>13, <2>2 DEF agt_ses_kill_session
    <3>2. commit_cb'.sid = NoSession /\ commit_cb'.persist # NoPersist
      BY <2>2, <3>1
    <3>3. \A d \in Datastores : lockedBy'[d] = NoSession
      BY <1>13, <2>2 DEF agt_ses_kill_session
    <3> QED BY <3>2, <3>3
  <2>3. CASE ~commit_cb.active \/ commit_cb.sid # s
    <3>1. commit_cb' = commit_cb
      BY <1>13, <2>3 DEF agt_ses_kill_session
    <3>2. \A d \in Datastores : lockedBy'[d] \in {NoSession, lockedBy[d]}
      BY <1>13 DEF agt_ses_kill_session
    <3> QED BY <2>3, <3>1, <3>2
  <2> QED BY <1>13, <2>1, <2>2, <2>3 DEF agt_ses_kill_session
<1>14. ASSUME restart PROVE PendingCommitRespectsLocks'
  BY <1>14 DEF restart, NoCommit
<1>16. ASSUME NEW s \in Sessions, agt_top_dispatch_msg(s) PROVE PendingCommitRespectsLocks'
  BY <1>16 DEF agt_top_dispatch_msg
<1>15. ASSUME UNCHANGED vars PROVE PendingCommitRespectsLocks'
  BY <1>15 DEF vars, sessionVars
<1> QED
  BY <1>1, <1>2, <1>3, <1>4, <1>5, <1>6, <1>7, <1>8, <1>9, <1>10, <1>11, <1>12,
     <1>13, <1>14, <1>15, <1>16, <1>17, <1>18 DEF Next
-----------------------------------------------------------------------------
(* The clean candidate. A step either leaves <running> and <candidate> alone,  *)
(* or makes the candidate dirty, a copy of <startup>, or equal to <running>.   *)

LEMMA CleanStep ==
  TypeOK /\ CleanCandidateMatchesRunning /\ [Next]_vars => CleanCandidateMatchesRunning'
<1> SUFFICES ASSUME TypeOK, CleanCandidateMatchesRunning, [Next]_vars
             PROVE  CleanCandidateMatchesRunning'
  OBVIOUS
<1> USE DEF CleanCandidateMatchesRunning
<1>a. cfg_fill_candidate_from_running => CleanCandidateMatchesRunning'
  BY DEF cfg_fill_candidate_from_running
<1>b. UNCHANGED <<running, candVars>> => CleanCandidateMatchesRunning'
  BY DEF candVars
<1>c. dirty' = TRUE \/ unmarked' = TRUE => CleanCandidateMatchesRunning'
  OBVIOUS
<1> DEFINE Clean == \/ cfg_fill_candidate_from_running
                    \/ UNCHANGED <<running, candVars>>
                    \/ dirty' = TRUE
                    \/ unmarked' = TRUE
<1>d. ASSUME Clean PROVE CleanCandidateMatchesRunning'
  BY <1>a, <1>b, <1>c, <1>d
<1>e. ASSUME NEW nv, NEW save \in BOOLEAN, commit_applied(nv, save)
      PROVE  CleanCandidateMatchesRunning'
  <2>1. CASE cfg_fill_candidate_from_running
    BY <2>1, <1>a
  <2>2. CASE UNCHANGED candVars
    BY <1>e, <2>2 DEF commit_applied, candVars
  <2> QED BY <1>e, <2>1, <2>2 DEF commit_applied
<1>f. ASSUME NEW nv, commit_refused(nv) PROVE Clean
  BY <1>f DEF commit_refused, candVars, TypeOK
<1>g. ASSUME NEW nv, NEW save \in BOOLEAN, backup_and_apply(nv, save)
      PROVE  CleanCandidateMatchesRunning'
  <2>1. CASE commit_applied(nv, save)
    BY <2>1, <1>e
  <2>2. CASE commit_refused(nv)
    BY <2>2, <1>f, <1>d
  <2>3. CASE UNCHANGED <<running, candVars>>
    BY <2>3, <1>b
  <2> QED BY <1>g, <2>1, <2>2, <2>3 DEF backup_and_apply
<1>h. ASSUME NEW refill \in BOOLEAN, agt_ncx_cancel_confirmed_commit(refill) PROVE Clean
  BY <1>h DEF agt_ncx_cancel_confirmed_commit
<1>1. ASSUME NEW s \in Sessions, agt_ses_new_session(s) PROVE Clean
  BY <1>1 DEF agt_ses_new_session
<1>2. ASSUME NEW s \in Sessions, NEW d \in Datastores, lock(s, d) PROVE Clean
  BY <1>2 DEF lock
<1>3. ASSUME NEW s \in Sessions, NEW d \in Datastores, unlock(s, d) PROVE Clean
  BY <1>3 DEF unlock
<1>4. ASSUME NEW s \in Sessions, NEW c \in Configs, edit_config(s, c) PROVE Clean
  BY <1>4 DEF edit_config
<1>5. ASSUME NEW s \in Sessions, NEW c \in Configs, copy_config_startup(s, c) PROVE Clean
  BY <1>5 DEF copy_config_startup
<1>6. ASSUME NEW s \in Sessions, discard_changes(s) PROVE Clean
  BY <1>6 DEF discard_changes
<1>17. ASSUME NEW s \in Sessions, NEW src, copy_config_candidate(s, src) PROVE Clean
  BY <1>17 DEF copy_config_candidate
<1>18. ASSUME NEW s \in Sessions, delete_config(s) PROVE Clean
  BY <1>18 DEF delete_config
<1>7. ASSUME NEW s \in Sessions, commit_plain(s) PROVE CleanCandidateMatchesRunning'
  BY <1>7, <1>g DEF commit_plain
<1>8. ASSUME NEW s \in Sessions, NEW persist \in PersistParms, commit_start(s, persist)
      PROVE  CleanCandidateMatchesRunning'
  BY <1>8, <1>g DEF commit_start
<1>9. ASSUME NEW s \in Sessions, NEW persist \in PersistParms, NEW persistid \in PersistParms,
             commit_extend(s, persist, persistid)
      PROVE  CleanCandidateMatchesRunning'
  BY <1>9, <1>d, <1>e, <1>f DEF commit_extend
<1>10. ASSUME NEW s \in Sessions, NEW persistid \in PersistParms, commit_confirm(s, persistid)
       PROVE  CleanCandidateMatchesRunning'
  BY <1>10, <1>g, <1>b DEF commit_confirm
<1>11. ASSUME NEW s \in Sessions, NEW persistid \in PersistParms, cancel_commit(s, persistid)
       PROVE  Clean
  BY <1>11, <1>h DEF cancel_commit
<1>12. ASSUME agt_ncx_check_cc_timeout PROVE Clean
  BY <1>12, <1>h DEF agt_ncx_check_cc_timeout
<1>13. ASSUME NEW s \in Sessions, agt_ses_kill_session(s) PROVE Clean
  BY <1>13, <1>h DEF agt_ses_kill_session
<1>14. ASSUME restart PROVE Clean
  BY <1>14 DEF restart
<1>16. ASSUME NEW s \in Sessions, agt_top_dispatch_msg(s) PROVE Clean
  BY <1>16 DEF agt_top_dispatch_msg
<1>15. ASSUME UNCHANGED vars PROVE Clean
  BY <1>15 DEF vars
<1> QED
  BY <1>d, <1>1, <1>2, <1>3, <1>4, <1>5, <1>6, <1>7, <1>8, <1>9, <1>10, <1>11, <1>12,
     <1>13, <1>14, <1>15, <1>16, <1>17, <1>18 DEF Next
-----------------------------------------------------------------------------
(* The backup file, when it can always be written. *)

BackupInv == BackupIsBase /\ PendingCommitHasBase

LEMMA BackupInvStep ==
  ASSUME "backup" \notin Faults
  PROVE  TypeOK /\ BackupInv /\ [Next]_vars => BackupInv'
<1> SUFFICES ASSUME TypeOK, BackupInv, [Next]_vars PROVE BackupInv'
  OBVIOUS
<1> USE DEF BackupInv, BackupIsBase, PendingCommitHasBase
<1>a. ASSUME UNCHANGED <<backup, commit_cb, base>> PROVE BackupInv'
  BY <1>a
<1>b. ASSUME commit_cb' = NoCommit PROVE BackupInv'
  BY <1>b, NoCommitType
<1>1. ASSUME NEW s \in Sessions, agt_ses_new_session(s) PROVE BackupInv'
  BY <1>1, <1>a DEF agt_ses_new_session
<1>2. ASSUME NEW s \in Sessions, NEW d \in Datastores, lock(s, d) PROVE BackupInv'
  BY <1>2, <1>a DEF lock
<1>3. ASSUME NEW s \in Sessions, NEW d \in Datastores, unlock(s, d) PROVE BackupInv'
  BY <1>3, <1>a DEF unlock
<1>4. ASSUME NEW s \in Sessions, NEW c \in Configs, edit_config(s, c) PROVE BackupInv'
  BY <1>4, <1>a DEF edit_config
<1>5. ASSUME NEW s \in Sessions, NEW c \in Configs, copy_config_startup(s, c)
      PROVE  BackupInv'
  BY <1>5, <1>a DEF copy_config_startup
<1>6. ASSUME NEW s \in Sessions, discard_changes(s) PROVE BackupInv'
  BY <1>6, <1>a DEF discard_changes
<1>17. ASSUME NEW s \in Sessions, NEW src, copy_config_candidate(s, src) PROVE BackupInv'
  BY <1>17, <1>a DEF copy_config_candidate
<1>18. ASSUME NEW s \in Sessions, delete_config(s) PROVE BackupInv'
  BY <1>18, <1>a DEF delete_config
<1>7. ASSUME NEW s \in Sessions, commit_plain(s) PROVE BackupInv'
  BY <1>7 DEF commit_plain
<1>8. ASSUME NEW s \in Sessions, NEW persist \in PersistParms, commit_start(s, persist)
      PROVE  BackupInv'
  BY <1>8 DEF commit_start, backup_and_apply, TypeOK
<1>9. ASSUME NEW s \in Sessions, NEW persist \in PersistParms, NEW persistid \in PersistParms,
             commit_extend(s, persist, persistid)
      PROVE  BackupInv'
  BY <1>9 DEF commit_extend
<1>10. ASSUME NEW s \in Sessions, NEW persistid \in PersistParms, commit_confirm(s, persistid)
       PROVE  BackupInv'
  BY <1>10, <1>a, <1>b DEF commit_confirm
<1>11. ASSUME NEW s \in Sessions, NEW persistid \in PersistParms, cancel_commit(s, persistid)
       PROVE  BackupInv'
  BY <1>11, <1>b DEF cancel_commit, agt_ncx_cancel_confirmed_commit
<1>12. ASSUME agt_ncx_check_cc_timeout PROVE BackupInv'
  BY <1>12, <1>b DEF agt_ncx_check_cc_timeout, agt_ncx_cancel_confirmed_commit
<1>13. ASSUME NEW s \in Sessions, agt_ses_kill_session(s) PROVE BackupInv'
  <2>1. CASE commit_cb' = NoCommit
    BY <2>1, <1>b
  <2>2. CASE commit_cb' # NoCommit
    <3>1. UNCHANGED <<backup, base>>
      BY <1>13, <2>2 DEF agt_ses_kill_session, agt_ncx_cancel_confirmed_commit
    <3>2. commit_cb'.active = commit_cb.active
      BY <1>13, <2>2 DEF agt_ses_kill_session, agt_ncx_cancel_confirmed_commit,
                         TypeOK, CommitCbs
    <3> QED BY <3>1, <3>2
  <2> QED BY <2>1, <2>2
<1>14. ASSUME restart PROVE BackupInv'
  BY <1>14, <1>b DEF restart
<1>16. ASSUME NEW s \in Sessions, agt_top_dispatch_msg(s) PROVE BackupInv'
  BY <1>16, <1>a DEF agt_top_dispatch_msg
<1>15. ASSUME UNCHANGED vars PROVE BackupInv'
  BY <1>15, <1>a DEF vars
<1> QED
  BY <1>1, <1>2, <1>3, <1>4, <1>5, <1>6, <1>7, <1>8, <1>9, <1>10, <1>11, <1>12,
     <1>13, <1>14, <1>15, <1>16, <1>17, <1>18 DEF Next
-----------------------------------------------------------------------------
(* The theorems. Without :startup, with startup errors that do not stop the    *)
(* server, and when backup files can be written and loaded, whatever else      *)
(* fails. Sessions may end in any way.                                         *)

BackupsWork ==
    /\ HasStartup = FALSE
    /\ StartupErrorStop = FALSE
    /\ "backup" \notin Faults
    /\ "restore" \notin Faults

IInv ==
    /\ TypeOK
    /\ CleanCandidateMatchesRunning
    /\ BackupInv
    /\ StartupFileConfirmed

\* The initial state is one of AbstractCommit.
LEMMA InitRefines == Init => Commits!Init /\ IInv
<1> SUFFICES ASSUME Init PROVE Commits!Init /\ IInv
  OBVIOUS
<1>1. ~commit_cb.active
  BY NoCommitType DEF Init
<1>2. BackupInv
  BY <1>1 DEF BackupInv, BackupIsBase, PendingCommitHasBase
<1>3. CleanCandidateMatchesRunning
  BY DEF Init, CleanCandidateMatchesRunning
<1>4. StartupFileConfirmed
  BY <1>1 DEF Init, StartupFileConfirmed
<1>5. commit_cb.active = FALSE
  BY NoCommitType DEF Init, NoCommit
<1>6. Commits!Init
  BY <1>5 DEF Init, Commits!Init, confirmed, load_running_config
<1> QED BY <1>2, <1>3, <1>4, <1>6, InitTypeOK DEF IInv

\* A step keeps the startup file confirmed and is a step of AbstractCommit.
LEMMA StepRefines ==
  ASSUME BackupsWork, IInv, [Next]_vars
  PROVE  StartupFileConfirmed' /\ [Commits!Next]_(Commits!vars)
<1> USE DEF confirmed
<1> DEFINE Good == StartupFileConfirmed' /\ [Commits!Next]_(Commits!vars)
<1>t. TypeOK /\ TypeOK'
  BY TypeOKStep DEF IInv
<1>s. load_running_config(nvstore) = confirmed /\ HasStartup = FALSE /\ StartupErrorStop = FALSE
  BY DEF IInv, StartupFileConfirmed, BackupsWork
<1>p. commit_cb.active => backup = base /\ base \in Configs
  BY DEF IInv, BackupInv, BackupIsBase, PendingCommitHasBase
<1>ty. /\ commit_cb.active \in BOOLEAN
       /\ commit_cb'.active \in BOOLEAN
       /\ running \in Configs
       /\ running' \in Configs
  BY <1>t DEF TypeOK, CommitCbs
\* Steps that leave the commit alone.
<1>a. ASSUME UNCHANGED <<running, nvstore, base, event>>, commit_cb'.active = commit_cb.active
      PROVE  Good
  BY <1>a, <1>s DEF StartupFileConfirmed, Commits!vars
\* The four kinds of commit and cancel, by what they do to the mapped state.
<1>b. ASSUME ~commit_cb'.active, load_running_config(nvstore') = running',
             event' = IF commit_cb.active THEN "complete" ELSE event
      PROVE  Good
  <2>1. Commits!Commit(running')
    <3>1. confirmed' = running'
      BY <1>b
    <3>2. commit_cb'.active = FALSE
      BY <1>b, <1>ty
    <3> QED BY <1>b, <3>1, <3>2 DEF Commits!Commit
  <2>2. StartupFileConfirmed'
    BY <1>b DEF StartupFileConfirmed
  <2> QED BY <2>1, <2>2, <1>ty DEF Commits!Next
<1>c. ASSUME commit_cb'.active, base' = confirmed, nvstore' = nvstore,
             event' = IF commit_cb.active THEN "extend" ELSE "start"
      PROVE  Good
  <2>1. Commits!CommitForNow(running')
    <3>1. confirmed' = confirmed
      BY <1>c
    <3>2. commit_cb'.active = TRUE
      BY <1>c, <1>ty
    <3> QED BY <1>c, <3>1, <3>2 DEF Commits!CommitForNow
  <2>2. StartupFileConfirmed'
    BY <1>c, <1>s DEF StartupFileConfirmed
  <2> QED BY <2>1, <2>2, <1>ty DEF Commits!Next
<1>d. ASSUME commit_cb.active, NEW refill \in BOOLEAN, agt_ncx_cancel_confirmed_commit(refill)
      PROVE  Good
  <2>1. RestoreOutcomes = {TRUE}
    BY <1>d, <1>p, <1>s DEF RestoreOutcomes, load_config_file, BackupsWork
  <2>2. running' = confirmed
    BY <1>d, <1>p, <2>1 DEF agt_ncx_cancel_confirmed_commit
  <2>3. ~commit_cb'.active /\ commit_cb'.active = FALSE
    BY <1>d, NoCommitType DEF agt_ncx_cancel_confirmed_commit, NoCommit
  <2>4. confirmed' = confirmed
    BY <2>2, <2>3
  <2>5. event' = "cancel" /\ nvstore' = nvstore
    BY <1>d DEF agt_ncx_cancel_confirmed_commit
  <2>6. Commits!GoBack
    BY <1>d, <2>2, <2>3, <2>4, <2>5 DEF Commits!GoBack
  <2>7. StartupFileConfirmed'
    BY <2>2, <2>3, <2>5, <1>s DEF StartupFileConfirmed
  <2> QED BY <2>6, <2>7 DEF Commits!Next
\* What backup_and_apply does when only callbacks fail.
<1>e. ASSUME NEW nv, commit_refused(nv), backup' = running
      PROVE  running' = running /\ nvstore' = nv
  BY <1>e, <1>s, <1>ty DEF commit_refused, load_backup, load_config_file, BackupsWork
<1>k. \A c \in Configs : load_running_config(c) = c
  BY DEF load_running_config
<1>f. ASSUME NEW nv, load_running_config(nv) = running, backup_and_apply(nv, TRUE)
      PROVE  load_running_config(nvstore') = running'
  <2>1. CASE commit_applied(nv, TRUE) /\ backup' = running
    <3>1. CASE nvstore' = running'
      BY <3>1, <1>k, <1>ty
    <3>2. CASE nvstore' = nv /\ load_backup(IF unmarked THEN Configs ELSE {candidate})
      <4>1. running' = running
        BY <2>1, <3>2, <1>s, <1>ty DEF load_backup, load_config_file, BackupsWork
      <4> QED BY <3>2, <4>1, <1>f
    <3> QED BY <2>1, <3>1, <3>2, <1>s DEF commit_applied
  <2>2. CASE commit_refused(nv) /\ backup' = running
    BY <2>2, <1>e, <1>f
  <2> QED BY <1>f, <2>1, <2>2 DEF backup_and_apply, BackupsWork
<1>g. ASSUME backup_and_apply(nvstore, FALSE)
      PROVE  nvstore' = nvstore
  BY <1>g DEF backup_and_apply, commit_applied, commit_refused
<1>1. ASSUME NEW s \in Sessions, agt_ses_new_session(s) PROVE Good
  BY <1>1, <1>a DEF agt_ses_new_session
<1>2. ASSUME NEW s \in Sessions, NEW d \in Datastores, lock(s, d) PROVE Good
  BY <1>2, <1>a DEF lock
<1>3. ASSUME NEW s \in Sessions, NEW d \in Datastores, unlock(s, d) PROVE Good
  BY <1>3, <1>a DEF unlock
<1>4. ASSUME NEW s \in Sessions, NEW c \in Configs, edit_config(s, c) PROVE Good
  BY <1>4, <1>a DEF edit_config
<1>5. ASSUME NEW s \in Sessions, NEW c \in Configs, copy_config_startup(s, c) PROVE Good
  BY <1>5, <1>s DEF copy_config_startup
<1>17. ASSUME NEW s \in Sessions, NEW src, copy_config_candidate(s, src) PROVE Good
  BY <1>17, <1>a DEF copy_config_candidate
<1>18. ASSUME NEW s \in Sessions, delete_config(s) PROVE Good
  BY <1>18, <1>s DEF delete_config
<1>6. ASSUME NEW s \in Sessions, discard_changes(s) PROVE Good
  BY <1>6, <1>a DEF discard_changes
<1>7. ASSUME NEW s \in Sessions, commit_plain(s) PROVE Good
  <2>1. load_running_config(nvstore) = running
    BY <1>7, <1>s DEF commit_plain
  <2>2. load_running_config(nvstore') = running'
    BY <1>7, <2>1, <1>f DEF commit_plain
  <2>3. ~commit_cb.active /\ ~commit_cb'.active /\ event' = event
    BY <1>7 DEF commit_plain
  <2> QED BY <2>2, <2>3, <1>b
<1>8. ASSUME NEW s \in Sessions, NEW persist \in PersistParms, commit_start(s, persist)
      PROVE  Good
  <2>1. ~commit_cb.active /\ commit_cb'.active /\ base' = running /\ event' = "start"
    BY <1>8 DEF commit_start, cc_start
  <2> QED BY <1>8, <2>1, <1>c, <1>g DEF commit_start
<1>9. ASSUME NEW s \in Sessions, NEW persist \in PersistParms, NEW persistid \in PersistParms,
             commit_extend(s, persist, persistid)
      PROVE  Good
  <2>1. commit_cb.active /\ commit_cb'.active /\ base' = base /\ event' = "extend"
    BY <1>9 DEF commit_extend, cc_start
  <2>2. nvstore' = nvstore
    BY <1>9 DEF commit_extend, commit_applied, commit_refused
  <2> QED BY <2>1, <2>2, <1>c
<1>10. ASSUME NEW s \in Sessions, NEW persistid \in PersistParms, commit_confirm(s, persistid)
       PROVE  Good
  <2>1. CASE /\ commit_cb' = NoCommit
             /\ event' = "complete"
             /\ backup_and_apply(running, TRUE)
    <3>1. ~commit_cb'.active
      BY <2>1, NoCommitType
    <3>2. load_running_config(nvstore') = running'
      BY <2>1, <1>f, <1>k, <1>ty
    <3>3. commit_cb.active
      BY <1>10 DEF commit_confirm
    <3> QED BY <2>1, <3>1, <3>2, <3>3, <1>b
  <2>2. CASE UNCHANGED <<running, nvstore, commit_cb, base, event>>
    BY <2>2, <1>a
  <2> QED BY <1>10, <2>1, <2>2 DEF commit_confirm
<1>11. ASSUME NEW s \in Sessions, NEW persistid \in PersistParms, cancel_commit(s, persistid)
       PROVE  Good
  BY <1>11, <1>d DEF cancel_commit
<1>12. ASSUME agt_ncx_check_cc_timeout PROVE Good
  BY <1>12, <1>d DEF agt_ncx_check_cc_timeout
<1>13. ASSUME NEW s \in Sessions, agt_ses_kill_session(s) PROVE Good
  <2> DEFINE refill == lockedBy["candidate"] = s
  <2>1. CASE commit_cb.active /\ commit_cb.sid = s /\ commit_cb.persist = NoPersist
    BY <1>13, <2>1, <1>d DEF agt_ses_kill_session
  <2>2. CASE ~(commit_cb.active /\ commit_cb.sid = s /\ commit_cb.persist = NoPersist)
    <3>1. UNCHANGED <<running, nvstore, base, event>>
      BY <1>13, <2>2 DEF agt_ses_kill_session
    <3>2. commit_cb'.active = commit_cb.active
      BY <1>13, <2>2, <1>t DEF agt_ses_kill_session, TypeOK, CommitCbs
    <3> QED BY <3>1, <3>2, <1>a
  <2> QED BY <2>1, <2>2
<1>14. ASSUME restart PROVE Good
  <2>1. running' = load_running_config(nvstore) /\ nvstore' = nvstore /\ event' = "none"
    BY <1>14 DEF restart
  <2>2. ~commit_cb'.active /\ commit_cb'.active = FALSE
    BY <1>14, NoCommitType DEF restart, NoCommit
  <2>3. running' = confirmed /\ confirmed' = confirmed
    BY <2>1, <2>2, <1>s
  <2>4. Commits!Crash
    BY <2>1, <2>2, <2>3 DEF Commits!Crash
  <2>5. StartupFileConfirmed'
    BY <2>1, <2>2 DEF StartupFileConfirmed
  <2> QED BY <2>4, <2>5 DEF Commits!Next
<1>16. ASSUME NEW s \in Sessions, agt_top_dispatch_msg(s) PROVE Good
  BY <1>16, <1>a DEF agt_top_dispatch_msg
<1>15. ASSUME UNCHANGED vars PROVE Good
  BY <1>15, <1>a DEF vars
<1> QED
  BY <1>1, <1>2, <1>3, <1>4, <1>5, <1>6, <1>7, <1>8, <1>9, <1>10, <1>11, <1>12,
     <1>13, <1>14, <1>15, <1>16, <1>17, <1>18 DEF Next

\* Types of the datastores and of the pending commit (commit_cb), for any failures.
THEOREM CommitTypes == Spec => []TypeOK
<1> QED BY InitTypeOK, TypeOKStep, PTL DEF Spec

\* A pending commit has an owner who can end it (commit_invoke,
\* agt_ses_kill_session), while every session ends through agt_ses_kill_session.
THEOREM PendingCommitOwner ==
  ASSUME "message" \notin Faults
  PROVE  Spec => []PendingCommitOwned
<1>1. Init => PendingCommitOwned
  BY NoCommitType DEF Init, PendingCommitOwned
<1> QED BY <1>1, InitTypeOK, TypeOKStep, OwnerStep, PTL DEF Spec

\* No other session holds a global lock while a commit is pending
\* (commit_validate, lock_validate), whatever fails.
THEOREM PendingCommitLocks == Spec => []PendingCommitRespectsLocks
<1>1. Init => PendingCommitRespectsLocks
  BY NoCommitType DEF Init, PendingCommitRespectsLocks
<1> QED BY <1>1, InitTypeOK, TypeOKStep, LocksStep, PTL DEF Spec

\* A candidate that is not dirty equals <running>, whatever fails, unless it was
\* filled from <startup> or kept when a failed commit had the backup loaded.
THEOREM CleanCandidate == Spec => []CleanCandidateMatchesRunning
<1>1. Init => CleanCandidateMatchesRunning
  BY DEF Init, CleanCandidateMatchesRunning
<1> QED BY <1>1, InitTypeOK, TypeOKStep, CleanStep, PTL DEF Spec

\* While backup files can be written, the backup is what <running> was before the
\* pending commit.
THEOREM BackupFile ==
  ASSUME "backup" \notin Faults
  PROVE  Spec => []BackupIsBase
<1>1. Init => BackupInv
  BY NoCommitType DEF Init, BackupInv, BackupIsBase, PendingCommitHasBase
<1>2. BackupInv => BackupIsBase
  BY DEF BackupInv
<1> QED BY <1>1, <1>2, InitTypeOK, TypeOKStep, BackupInvStep, PTL DEF Spec

LEMMA IInvStep ==
  ASSUME BackupsWork
  PROVE  IInv /\ [Next]_vars => IInv'
<1>1. "backup" \notin Faults
  BY DEF BackupsWork
<1> QED BY <1>1, TypeOKStep, CleanStep, BackupInvStep, StepRefines DEF IInv

\* The startup file holds the last confirmed configuration, so that a crash while a
\* commit is pending comes back with it.
THEOREM StartupFile ==
  ASSUME BackupsWork
  PROVE  Spec => []StartupFileConfirmed
<1>1. IInv => StartupFileConfirmed
  BY DEF IInv
<1> QED BY <1>1, InitRefines, IInvStep, PTL DEF Spec

\* Commits, cancels, timeouts, ends of sessions and crashes implement AbstractCommit.
THEOREM CommitImplementsPromise ==
  ASSUME BackupsWork
  PROVE  Spec => ImplementsCommit
<1>1. IInv /\ [Next]_vars => [Commits!Next]_(Commits!vars)
  BY StepRefines
<1> QED BY <1>1, InitRefines, IInvStep, PTL DEF Spec, ImplementsCommit, Commits!Spec
=============================================================================
