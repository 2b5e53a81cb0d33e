--------------------------- MODULE AdminHandover ---------------------------
(***************************************************************************)
(* The three hooks that replace a built-in administrator by the one the    *)
(* stack's users get: Keycloak, Neo4j and Cassandra.  Each creates the new *)
(* account with the rights of the old one, proves that it works and then   *)
(* deletes the old one, possibly while another spin-up does the same.      *)
(***************************************************************************)
EXTENDS AdminHooks

(***************************************************************************)
(* Keycloak.  A token belongs to one user id: it dies with the account, and*)
(* an admin request needs the role besides.                                *)
(***************************************************************************)
SignsIn(n) == realm.user[n].id # 0 /\ realm.user[n].pw
Administers(n) == SignsIn(n) /\ realm.user[n].role
TokenOf(n) == [who |-> n, id |-> realm.user[n].id]

Authorised(r) ==
  LET t == run[r].tok
  IN t.id # 0 /\ realm.user[t.who].id = t.id /\ realm.user[t.who].role

(* The password grant and an admin-only request; a failure of either, or a *)
(* lost answer, counts as "cannot administer".                             *)
KcAdminToken(r, n, yes, no) ==
  /\ \/ NoFault /\ Administers(n)
        /\ Go(r, [run[r] EXCEPT !.tok = TokenOf(n)], yes)
     \/ NoFault /\ ~Administers(n) /\ Go(r, run[r], no)
     \/ Fault /\ Go(r, Unclean(run[r]), no)
  /\ UNCHANGED <<enabled, svc, realm, runs>>

(* Mutant: a token proves that the account can administer.                 *)
KcProbeGrant(r) ==
  /\ At(r, "keycloak", "first")
  /\ LET known == [run[r] EXCEPT !.got = "already-configured"]
     IN \/ /\ NoFault /\ SignsIn("admin")
           /\ Go(r, [known EXCEPT !.tok = TokenOf("admin")], "flag")
        \/ NoFault /\ ~SignsIn("admin") /\ Go(r, known, "asboot")
        \/ Fault /\ Go(r, Unclean(known), "asboot")
  /\ UNCHANGED <<enabled, svc, realm, runs>>

KcProbe(r) ==
  /\ At(r, "keycloak", "first")
  /\ LET known == [run[r] EXCEPT !.got = "already-configured"]
     IN \/ /\ NoFault /\ Administers("admin")
           /\ Go(r, [known EXCEPT !.tok = TokenOf("admin")], "flag")
        \/ NoFault /\ ~Administers("admin") /\ Go(r, known, "asboot")
        \/ Fault /\ Go(r, Unclean(known), "asboot")
  /\ UNCHANGED <<enabled, svc, realm, runs>>

(* A lookup is told apart from "no such user": without an answer, or       *)
(* without the role, the hook fails.                                       *)
Told(r) == NoFault /\ Authorised(r)
Untold(r) == \/ NoFault /\ ~Authorised(r) /\ Go(r, run[r], "failed")
             \/ Fault /\ Go(r, Unclean(run[r]), "failed")

(* Mutant: the temporary admin is deleted before there is another one.     *)
KcFlagAtOnce(r) ==
  /\ At(r, "keycloak", "flag")
  /\ LET u == realm.user["admin"]
     IN \/ /\ Told(r) /\ u.temp
           /\ Go(r, [run[r] EXCEPT !.user = "boot", !.old = u.id], "drop-temporary")
        \/ Told(r) /\ ~u.temp /\ Go(r, run[r], "last")
        \/ Untold(r)
  /\ UNCHANGED <<enabled, svc, realm, runs>>

(* An admin from before the hook is still marked temporary: nexus-bootstrap*)
(* is installed first, to delete and recreate that account.                *)
KcFlag(r) ==
  /\ At(r, "keycloak", "flag")
  /\ LET u == realm.user["admin"]
     IN \/ /\ Told(r) /\ u.temp
           /\ Go(r, [run[r] EXCEPT !.user = "boot", !.old = u.id], "create")
        \/ Told(r) /\ ~u.temp /\ Go(r, run[r], "last")
        \/ Untold(r)
  /\ UNCHANGED <<enabled, svc, realm, runs>>

(* A fresh realm: sign in as nexus-bootstrap; the grant asks for no role.  *)
KcAsBoot(r) ==
  /\ At(r, "keycloak", "asboot")
  /\ \/ NoFault /\ SignsIn("boot")
        /\ Go(r, [run[r] EXCEPT !.tok = TokenOf("boot")], "create")
     \/ NoFault /\ ~SignsIn("boot") /\ Go(r, run[r], "again")
     \/ Fault /\ Go(r, Unclean(run[r]), "again")
  /\ UNCHANGED <<enabled, svc, realm, runs>>

(* The other spin-up may have finished in the meantime.                    *)
KcAgain(r) ==
  /\ At(r, "keycloak", "again")
  /\ KcAdminToken(r, "admin", "last", "failed")

(***************************************************************************)
(* kc_install: create the account, or reset the password of one that       *)
(* exists, grant the role, sign in as it and make an admin request; from   *)
(* then on the run acts as that account.                                   *)
(***************************************************************************)
KcCreate(r) ==
  /\ At(r, "keycloak", "create")
  /\ LET u == run[r].user
         made == [user |-> [realm.user EXCEPT ![u] =
                    [id |-> realm.next, pw |-> TRUE, role |-> FALSE, temp |-> FALSE]],
                  next |-> realm.next + 1]
         free == Authorised(r) /\ realm.user[u].id = 0
         Code(c) == [run[r] EXCEPT !.got = c]
     IN \/ /\ NoFault /\ free /\ realm' = made
           /\ Go(r, Code("201"), "lookup")
        \/ /\ NoFault /\ ~free /\ UNCHANGED realm
           /\ Go(r, Code(IF Authorised(r) THEN "409" ELSE "401"), "lookup")
        \/ /\ Fault /\ realm' \in {realm} \cup (IF free THEN {made} ELSE {})
           /\ Go(r, Unclean(Code("000")), "lookup")
  /\ UNCHANGED <<enabled, svc, runs>>

KcInstalled(r) ==
  /\ At(r, "keycloak", "lookup")
  /\ LET u == realm.user[run[r].user]
         next == CASE u.id # 0 /\ run[r].got = "409" -> "reset"
                   [] u.id # 0 /\ run[r].got = "201" -> "grant"
                   [] OTHER -> "failed"
     IN \/ Told(r) /\ Go(r, [run[r] EXCEPT !.id = u.id], next)
        \/ Untold(r)
  /\ UNCHANGED <<enabled, svc, realm, runs>>

(* A request about the id that was looked up: 404 once that account is gone. *)
KcSend(r, changed, ok) ==
  LET u == run[r].user
      may == Authorised(r) /\ realm.user[u].id = run[r].id
      done == [realm EXCEPT !.user[u] = changed]
  IN /\ \/ NoFault /\ may /\ realm' = done /\ Go(r, run[r], ok)
        \/ NoFault /\ ~may /\ UNCHANGED realm /\ Go(r, run[r], "failed")
        \/ /\ Fault /\ realm' \in {realm} \cup (IF may THEN {done} ELSE {})
           /\ Go(r, Unclean(run[r]), "failed")
     /\ UNCHANGED <<enabled, svc, runs>>

KcReset(r) ==
  /\ At(r, "keycloak", "reset")
  /\ KcSend(r, [realm.user[run[r].user] EXCEPT !.pw = TRUE], "grant")

KcGrant(r) ==
  /\ At(r, "keycloak", "grant")
  /\ KcSend(r, [realm.user[run[r].user] EXCEPT !.role = TRUE], "verify")

KcVerify(r) ==
  /\ At(r, "keycloak", "verify")
  /\ KcAdminToken(r, run[r].user,
                  IF run[r].user = "boot" THEN "drop-temporary" ELSE "last", "failed")

(***************************************************************************)
(* Deleting by user id.  The temporary admin must go before its successor  *)
(* can be created; nexus-bootstrap goes last, and may be gone already.     *)
(***************************************************************************)
KcDelete(r, n, id, rec, gone, absent) ==
  LET there == Authorised(r) /\ realm.user[n].id = id
      done == [realm EXCEPT !.user[n] = NoAccount]
  IN /\ \/ NoFault /\ there /\ realm' = done /\ Go(r, rec, gone)
        \/ /\ NoFault /\ ~there /\ UNCHANGED realm
           /\ Go(r, rec, IF Authorised(r) THEN absent ELSE "failed")
        \/ /\ Fault /\ realm' \in {realm} \cup (IF there THEN {done} ELSE {})
           /\ Go(r, Unclean(run[r]), "failed")
     /\ UNCHANGED <<enabled, svc, runs>>

KcDropTemporary(r) ==
  /\ At(r, "keycloak", "drop-temporary")
  /\ KcDelete(r, "admin", run[r].old, [run[r] EXCEPT !.user = "admin"],
              "create", "failed")

(* The status: "configured" as soon as this run installed the admin.       *)
KcStatus(r) == IF run[r].got = "already-configured" THEN run[r].got ELSE "configured"

KcLast(r) ==
  /\ At(r, "keycloak", "last")
  /\ LET u == realm.user["boot"]
     IN \/ Told(r) /\ u.id = 0 /\ Go(r, run[r], KcStatus(r))
        \/ Told(r) /\ u.id # 0 /\ Go(r, [run[r] EXCEPT !.id = u.id], "drop-boot")
        \/ Untold(r)
  /\ UNCHANGED <<enabled, svc, realm, runs>>

KcDropBoot(r) ==
  /\ At(r, "keycloak", "drop-boot")
  /\ KcDelete(r, "boot", run[r].id, run[r], "configured", "configured")

Keycloak(r) ==
  \/ KcProbe(r) \/ KcFlag(r) \/ KcAsBoot(r) \/ KcAgain(r)
  \/ KcCreate(r) \/ KcInstalled(r) \/ KcReset(r) \/ KcGrant(r) \/ KcVerify(r)
  \/ KcDropTemporary(r) \/ KcLast(r) \/ KcDropBoot(r)

-----------------------------------------------------------------------------
(***************************************************************************)
(* Neo4j and Cassandra: create our account as the default one, then drop   *)
(* the default one as ours.  When the creation fails, our account may have *)
(* been made by another run, so it is tried once more.                     *)
(***************************************************************************)
DbStep(r, s) == \E d \in {"neo4j", "cassandra"} : At(r, d, s)
DbHas(r, a) == Has(Current(r), a)

Neo4jSignIn(r) ==
  /\ At(r, "neo4j", "first")
  /\ Ask(r, DbHas(r, "ours"), "drop", "make", "make")

(* Cassandra answers nobody until it has seeded its default superuser, so  *)
(* waiting for it is trying both accounts, until the time limit.           *)
CassandraSignIn(r) ==
  /\ At(r, "cassandra", "ready")
  /\ \/ NoFault /\ DbHas(r, "ours") /\ Go(r, run[r], "drop")
     \/ NoFault /\ DbHas(r, "default") /\ ~DbHas(r, "ours") /\ Go(r, run[r], "make")
     \/ Fault /\ DbHas(r, "default") /\ Go(r, Unclean(run[r]), "make")
     \/ Fault /\ Go(r, Unclean(run[r]), "skipped-not-ready")
  /\ UNCHANGED <<enabled, svc, realm, runs>>

DbMake(r) ==
  /\ DbStep(r, "make")
  /\ IF DbHas(r, "default")
     THEN Write(r, {"ours"}, "drop-new", "retry")
     ELSE Ask(r, FALSE, "drop-new", "retry", "retry")

DbRetry(r) ==
  /\ DbStep(r, "retry")
  /\ Ask(r, DbHas(r, "ours"), "drop", "failed", "failed")

DbDrop(r) ==
  /\ DbStep(r, "drop") \/ DbStep(r, "drop-new")
  /\ LET d == Current(r)
         s == IF run[r].step = "drop" THEN "already-configured" ELSE "configured"
         done == [svc EXCEPT ![d] = @ \ {"default"}]
         ours == Has(d, "ours")
     IN /\ \/ /\ NoFault /\ svc' = IF ours THEN done ELSE svc
              /\ Go(r, run[r], IF ours THEN s ELSE "failed")
           \/ /\ Fault /\ svc' \in {svc} \cup (IF ours THEN {done} ELSE {})
              /\ Go(r, Unclean(run[r]), "failed")
        /\ UNCHANGED <<enabled, realm, runs>>

(* Cassandra seeds its default superuser some time after it has started.   *)
Seed ==
  /\ Has("cassandra", "unseeded")
  /\ svc' = [svc EXCEPT !["cassandra"] = {"default"}]
  /\ UNCHANGED <<enabled, realm, run, faults, runs>>

Databases(r) == Neo4jSignIn(r) \/ CassandraSignIn(r) \/ DbMake(r) \/ DbRetry(r)
                \/ DbDrop(r)
=============================================================================
