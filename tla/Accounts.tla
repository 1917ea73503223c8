------------------------------- MODULE Accounts -------------------------------
(***************************************************************************)
(* Accounts and their rights: the tables users and user_application_roles, *)
(* the two commands that write them (python -m app.create_user and         *)
(* app.assign_role), the login, and the checks in front of every protected *)
(* route (get_current_user, then require_permission).                      *)
(*                                                                         *)
(* A process is one run of a command or one HTTP request.  The database is *)
(* PostgreSQL at READ COMMITTED with one transaction per statement group:  *)
(* each SELECT sees what is committed when it runs, and only constraints   *)
(* tie what a process read to what it writes later.  So every statement is *)
(* a step of its own, and what lies between two statements is local.       *)
(***************************************************************************)
EXTENDS Naturals, Authz

CONSTANTS
  Proc,          \* runs and requests that may overlap
  Id,            \* primary keys (uuid4: never drawn twice)
  Username,      \* canonical names
  Typed,         \* names as people type them
  Canonical,     \* normalize_username: strip and casefold
  Password, Short,  \* passwords; those below MIN_PASSWORD_LENGTH
  Offered,       \* the role codes an operator may type
  Asked,         \* the permissions of the protected routes that are called
  NoId, NoName, NoRole, NoPermission,
  MaxStarts      \* environment bound: runs and requests started

ASSUME AccountsAssumption ==
  /\ NoId \notin Id /\ NoName \notin Username
  /\ NoRole \notin Offered /\ NoRole \notin RoleCode
  /\ NoPermission \notin Permission
  /\ Canonical \in [Typed -> Username \cup {NoName}]
  /\ Short \subseteq Password
  /\ Password # {}
  /\ Asked \subseteq Permission \cup {NoPermission}
  /\ MaxStarts \in Nat

VARIABLES
  rows,     \* users: the ids that have a row
  name,     \* users: the name each id was created with, or NoName
  active,   \* users: the ids whose row says active
  hash,     \* users: the password hash, by what it verifies and its parameters
  grants,   \* user_application_roles: pairs of user id and role code
  tokens,   \* subjects of the access tokens that have not expired
  step,     \* step[p]: the next statement of the process
  cmd,      \* cmd[p]: its arguments
  who,      \* who[p]: the id of the user row it has read
  result,   \* result[p]: exit status or HTTP status of the latest run
  starts,   \* runs and requests started
  chosen,   \* history: the password each account was created with
  ordered,  \* history: name and role of every command that asked for a grant
  late      \* history: requests that came in after their account was
            \* disabled or deleted

table == <<rows, name, active, hash, grants>>
local == <<step, cmd, who, result, starts>>
history == <<chosen, ordered, late>>
vars == <<table, tokens, local, history>>

(* An Argon2 hash: the password it verifies, and whether its parameters    *)
(* are still the current ones.                                             *)
Hash == [of : Password, current : BOOLEAN]

Verb == {"none", "create_user", "assign_role", "login", "call"}

Command == [verb : Verb, name : Typed \cup {NoName},
            password : Password \cup {NoName},
            role : Offered \cup {NoRole}, subject : Id \cup {NoId},
            wants : Asked \cup {NoPermission}]

NoCommand == [verb |-> "none", name |-> NoName, password |-> NoName,
              role |-> NoRole, subject |-> NoId, wants |-> NoPermission]

Step == {"idle", "prompt", "insertUser", "findUser", "findGrant",
         "insertGrant", "report", "readUser", "rehash", "authenticate",
         "authorize"}

(* "crash": an exception nobody catches, or the process was killed.        *)
Result == {"none", "0", "1", "crash", "token", "200", "401", "403", "500"}

TypeOK ==
  /\ rows \subseteq Id /\ active \subseteq Id
  /\ name \in [Id -> Username \cup {NoName}]
  /\ hash \in [Id -> Hash]
  /\ grants \subseteq Id \X RoleCode
  /\ tokens \subseteq Id
  /\ step \in [Proc -> Step]
  /\ cmd \in [Proc -> Command]
  /\ who \in [Proc -> Id \cup {NoId}]
  /\ result \in [Proc -> Result]
  /\ starts \in 0..MaxStarts
  /\ chosen \in [Id -> Password]
  /\ ordered \subseteq (Username \cup {NoName}) \X RoleCode
  /\ late \subseteq Proc

Init ==
  /\ rows = {} /\ active = {} /\ grants = {} /\ tokens = {}
  /\ name = [i \in Id |-> NoName]
  /\ chosen = [i \in Id |-> CHOOSE w \in Password : TRUE]
  /\ hash = [i \in Id |-> [of |-> chosen[i], current |-> TRUE]]
  /\ step = [p \in Proc |-> "idle"]
  /\ cmd = [p \in Proc |-> NoCommand]
  /\ who = [p \in Proc |-> NoId]
  /\ result = [p \in Proc |-> "none"]
  /\ starts = 0
  /\ ordered = {} /\ late = {}

-----------------------------------------------------------------------------
(* Helpers *)

Start(p, c, first) ==
  /\ step[p] = "idle"
  /\ starts < MaxStarts
  /\ starts' = starts + 1
  /\ step' = [step EXCEPT ![p] = first]
  /\ cmd' = [cmd EXCEPT ![p] = c]
  /\ who' = [who EXCEPT ![p] = NoId]
  /\ result' = [result EXCEPT ![p] = "none"]

Goto(p, next) ==
  /\ step' = [step EXCEPT ![p] = next]
  /\ UNCHANGED <<cmd, who, result, starts>>

(* SELECT of a row of users, which the process remembers.                  *)
Find(p, i, next) ==
  /\ step' = [step EXCEPT ![p] = next]
  /\ who' = [who EXCEPT ![p] = i]
  /\ UNCHANGED <<cmd, result, starts>>

(* A process that ends well keeps what it was asked and whom it found, for *)
(* the properties; passwords and names typed are gone with it.             *)
End(p, how) ==
  /\ step' = [step EXCEPT ![p] = "idle"]
  /\ result' = [result EXCEPT ![p] = how]
  /\ cmd' = [cmd EXCEPT ![p] =
               IF how \in {"0", "200"}
                 THEN [@ EXCEPT !.name = NoName, !.password = NoName]
                 ELSE NoCommand]
  /\ who' = [who EXCEPT ![p] = IF how = "0" THEN @ ELSE NoId]
  /\ UNCHANGED starts

(* SELECT ... WHERE username = canonical form of what was typed.           *)
Named(typed) == {i \in rows : name[i] = Canonical[typed]}

(* user_permission_codes: the union over the user's roles.                 *)
Permissions(i) == UNION {Holds[g[2]] : g \in {h \in grants : h[1] = i}}

-----------------------------------------------------------------------------
(* python -m app.create_user: the account and then the grant, a commit     *)
(* each.                                                                   *)

StartCreate(p) ==
  \E n \in Typed, r \in Offered \cup {NoRole} :
    /\ Start(p, [NoCommand EXCEPT !.verb = "create_user", !.name = n,
                                  !.role = r], "prompt")
    /\ ordered' = IF r \in RoleCode
                    THEN ordered \cup {<<Canonical[n], r>>} ELSE ordered
    /\ late' = late \ {p}
    /\ UNCHANGED <<table, tokens, chosen>>

(* The role is looked up before the prompt, if one is asked for.  When it  *)
(* is unknown, the confirmation does not match, the name is blank, the     *)
(* password too short or the name taken: exit 1 with nothing written.      *)
Prompt(p) ==
  /\ step[p] = "prompt"
  /\ \/ End(p, "1")
     \/ \E w \in Password \ Short :
          /\ cmd[p].role \in RoleCode \cup {NoRole}
          /\ Canonical[cmd[p].name] # NoName
          /\ Named(cmd[p].name) = {}
          /\ cmd' = [cmd EXCEPT ![p].password = w]
          /\ step' = [step EXCEPT ![p] = "insertUser"]
          /\ UNCHANGED <<who, result, starts>>
  /\ UNCHANGED <<table, tokens, history>>

(* INSERT and COMMIT of the user.                                          *)
NewAccount(p, i) ==
  /\ name[i] = NoName
  /\ rows' = rows \cup {i} /\ active' = active \cup {i}
  /\ name' = [name EXCEPT ![i] = Canonical[cmd[p].name]]
  /\ hash' = [hash EXCEPT ![i] = [of |-> cmd[p].password, current |-> TRUE]]
  /\ chosen' = [chosen EXCEPT ![i] = cmd[p].password]
  /\ IF cmd[p].role = NoRole THEN End(p, "0") ELSE Goto(p, "findUser")
  /\ UNCHANGED <<grants, tokens, ordered, late>>

(* Mutant: no unique constraint, the earlier SELECT is trusted.            *)
CreateInsertUnchecked(p) ==
  step[p] = "insertUser" /\ \E i \in Id : NewAccount(p, i)

(* The unique constraint on username: an IntegrityError that neither       *)
(* create_user nor main translates.                                        *)
CreateInsert(p) ==
  /\ step[p] = "insertUser"
  /\ IF Named(cmd[p].name) = {}
       THEN \E i \in Id : NewAccount(p, i)
       ELSE End(p, "crash") /\ UNCHANGED <<table, tokens, history>>

-----------------------------------------------------------------------------
(* python -m app.assign_role, and the second half of create_user --role:   *)
(* assign_application_role finds the account by name, once more.           *)

StartAssign(p) ==
  \E n \in Typed, r \in Offered :
    /\ Start(p, [NoCommand EXCEPT !.verb = "assign_role", !.name = n,
                                  !.role = r], "findUser")
    /\ ordered' = IF r \in RoleCode
                    THEN ordered \cup {<<Canonical[n], r>>} ELSE ordered
    /\ late' = late \ {p}
    /\ UNCHANGED <<table, tokens, chosen>>

(* Mutant: the role code is not looked up.                                 *)
FindGranteeOnly(p) ==
  /\ step[p] = "findUser"
  /\ IF Named(cmd[p].name) = {} THEN End(p, "1")
       ELSE \E i \in Named(cmd[p].name) : Find(p, i, "findGrant")
  /\ UNCHANGED <<table, tokens, history>>

FindGrantee(p) ==
  /\ step[p] = "findUser"
  /\ IF Named(cmd[p].name) = {} \/ cmd[p].role \notin RoleCode
       THEN End(p, "1")
       ELSE \E i \in Named(cmd[p].name) : Find(p, i, "findGrant")
  /\ UNCHANGED <<table, tokens, history>>

(* RoleAlreadyGrantedError: an error of create_user, "nothing to do" for   *)
(* assign_role.                                                            *)
AlreadyGranted(p) ==
  End(p, IF cmd[p].verb = "create_user" THEN "1" ELSE "0")

(* Mutant: any role of the account counts as the one asked for.            *)
CheckGrantAnyRole(p) ==
  /\ step[p] = "findGrant"
  /\ IF \E g \in grants : g[1] = who[p]
       THEN AlreadyGranted(p) ELSE Goto(p, "insertGrant")
  /\ UNCHANGED <<table, tokens, history>>

CheckGrant(p) ==
  /\ step[p] = "findGrant"
  /\ IF <<who[p], cmd[p].role>> \in grants
       THEN AlreadyGranted(p) ELSE Goto(p, "insertGrant")
  /\ UNCHANGED <<table, tokens, history>>

Grant(p) ==
  /\ grants' = grants \cup {<<who[p], cmd[p].role>>}
  /\ IF cmd[p].verb = "create_user" THEN End(p, "0") ELSE Goto(p, "report")
  /\ UNCHANGED <<rows, name, active, hash, tokens, history>>

(* INSERT and COMMIT of the grant: the account may be gone (foreign key)   *)
(* or another run may have been faster (primary key).                      *)
InsertGrant(p) ==
  /\ step[p] = "insertGrant"
  /\ IF who[p] \in rows /\ <<who[p], cmd[p].role>> \notin grants
       THEN Grant(p)
       ELSE End(p, "crash") /\ UNCHANGED <<table, tokens, history>>

(* assign_role selects the full set of roles for its message.              *)
Report(p) ==
  /\ step[p] = "report"
  /\ End(p, "0")
  /\ UNCHANGED <<table, tokens, history>>

-----------------------------------------------------------------------------
(* POST /api/auth/login *)

StartLogin(p) ==
  /\ \E n \in Typed, w \in Password :
       Start(p, [NoCommand EXCEPT !.verb = "login", !.name = n,
                                  !.password = w], "readUser")
  /\ late' = late \ {p}
  /\ UNCHANGED <<table, tokens, chosen, ordered>>

Issue(p, i) == tokens' = tokens \cup {i} /\ End(p, "token")

(* Mutant: the hash is brought up to date before the password is verified. *)
ReadUserRehashFirst(p) ==
  /\ step[p] = "readUser"
  /\ \E i \in Named(cmd[p].name) :
       IF hash[i].current
         THEN IF hash[i].of = cmd[p].password
                THEN Issue(p, i) ELSE End(p, "401") /\ UNCHANGED tokens
         ELSE Find(p, i, "rehash") /\ UNCHANGED tokens
  /\ UNCHANGED <<table, history>>

(* authenticate: the three failures look alike.                            *)
ReadUser(p) ==
  /\ step[p] = "readUser"
  /\ \/ /\ \A i \in Named(cmd[p].name) :
             hash[i].of # cmd[p].password \/ i \notin active
        /\ End(p, "401")
        /\ UNCHANGED tokens
     \/ \E i \in Named(cmd[p].name) :
          /\ hash[i].of = cmd[p].password /\ i \in active
          /\ IF hash[i].current
               THEN Issue(p, i)
               ELSE Find(p, i, "rehash") /\ UNCHANGED tokens
  /\ UNCHANGED <<table, history>>

(* UPDATE of the hash and COMMIT; an account deleted meanwhile is a        *)
(* StaleDataError.                                                         *)
Rehash(p) ==
  /\ step[p] = "rehash"
  /\ IF who[p] \in rows
       THEN /\ hash' = [hash EXCEPT ![who[p]] =
                          [of |-> cmd[p].password, current |-> TRUE]]
            /\ Issue(p, who[p])
       ELSE End(p, "500") /\ UNCHANGED <<hash, tokens>>
  /\ UNCHANGED <<rows, name, active, grants, history>>

-----------------------------------------------------------------------------
(* A protected route, or GET /api/auth/me, which asks for no permission *)

StartCall(p) ==
  \E i \in Id, q \in Asked :
    /\ name[i] # NoName
    /\ Start(p, [NoCommand EXCEPT !.verb = "call", !.subject = i,
                                  !.wants = q], "authenticate")
    /\ late' = IF i \in active THEN late \ {p} ELSE late \cup {p}
    /\ UNCHANGED <<table, tokens, chosen, ordered>>

Admit(p, i) == IF cmd[p].wants = NoPermission THEN End(p, "200")
                                              ELSE Find(p, i, "authorize")

(* Mutant: the token is resolved to the account that has the name now.     *)
AuthenticateByName(p) ==
  /\ step[p] = "authenticate"
  /\ IF cmd[p].subject \in tokens
        /\ \E i \in rows \cap active : name[i] = name[cmd[p].subject]
       THEN \E i \in rows \cap active :
              name[i] = name[cmd[p].subject] /\ Admit(p, i)
       ELSE End(p, "401")
  /\ UNCHANGED <<table, tokens, history>>

(* get_current_user: the token is valid and its account is there, active.  *)
Authenticate(p) ==
  /\ step[p] = "authenticate"
  /\ IF cmd[p].subject \in tokens \cap rows \cap active
       THEN Admit(p, cmd[p].subject)
       ELSE End(p, "401")
  /\ UNCHANGED <<table, tokens, history>>

(* require_permission: a SELECT of its own, after get_current_user's.      *)
Authorize(p) ==
  /\ step[p] = "authorize"
  /\ End(p, IF cmd[p].wants \in Permissions(who[p]) THEN "200" ELSE "403")
  /\ UNCHANGED <<table, tokens, history>>

-----------------------------------------------------------------------------
(* What happens around the processes *)

(* A run is interrupted, or the API process dies: what was not committed   *)
(* is rolled back.                                                         *)
Crash(p) ==
  /\ step[p] # "idle"
  /\ End(p, "crash")
  /\ UNCHANGED <<table, tokens, history>>

(* An operator switches an account off, in the database: no program of the *)
(* repository does.                                                        *)
Deactivate(i) ==
  /\ i \in active
  /\ active' = active \ {i}
  /\ UNCHANGED <<rows, name, hash, grants, tokens, local, history>>

(* The same for a row of users; its grants go with it (ON DELETE CASCADE). *)
DeleteUser(i) ==
  /\ i \in rows
  /\ rows' = rows \ {i} /\ active' = active \ {i}
  /\ grants' = {g \in grants : g[1] # i}
  /\ UNCHANGED <<name, hash, tokens, local, history>>

TokenExpires(i) ==
  /\ i \in tokens
  /\ tokens' = tokens \ {i}
  /\ UNCHANGED <<table, local, history>>

(* A deployment with other Argon2 parameters: older hashes are stale.      *)
ParametersChange ==
  /\ \E i \in rows : hash[i].current
  /\ hash' = [i \in Id |-> [hash[i] EXCEPT !.current = FALSE]]
  /\ UNCHANGED <<rows, name, active, grants, tokens, local, history>>

Next ==
  \/ \E p \in Proc :
       \/ StartCreate(p) \/ Prompt(p) \/ CreateInsert(p)
       \/ StartAssign(p) \/ FindGrantee(p) \/ CheckGrant(p)
       \/ InsertGrant(p) \/ Report(p)
       \/ StartLogin(p) \/ ReadUser(p) \/ Rehash(p)
       \/ StartCall(p) \/ Authenticate(p) \/ Authorize(p)
       \/ Crash(p)
  \/ \E i \in Id : Deactivate(i) \/ DeleteUser(i) \/ TokenExpires(i)
  \/ ParametersChange

Spec == Init /\ [][Next]_vars

-----------------------------------------------------------------------------
(* Properties *)

(* A name belongs to one account at a time, however many runs of           *)
(* create_user have found it free (services/auth.py:188).                  *)
OneAccountPerName ==
  \A i, j \in rows : name[i] = name[j] => i = j

(* Every grant belongs to an account that exists: a role is never waiting  *)
(* for whoever gets the id, although assign_role reads the account in one  *)
(* statement and inserts in another (services/authz.py:142-160).           *)
GrantsHaveOwner == \A g \in grants : g[1] \in rows

(* Both: whoever holds a role is one account, found by one name.           *)
HoldersKnown == OneAccountPerName /\ GrantsHaveOwner

(* Nobody holds a role that no command asked for, under the account's      *)
(* name: neither a create_user without --role nor one refused for its role *)
(* leaves a grant behind.                                                  *)
GrantWasOrdered == \A g \in grants : <<name[g[1]], g[2]>> \in ordered

(* Exit status 0 with a role means that the account found holds it, unless *)
(* it was deleted since: "nothing to do" is never said of a missing grant. *)
ZeroMeansGranted ==
  \A p \in Proc :
    result[p] = "0" /\ cmd[p].role # NoRole /\ who[p] \in rows =>
      <<who[p], cmd[p].role>> \in grants

(* Both: the commands grant what they were asked to and say so.            *)
GrantsMatchCommands == GrantWasOrdered /\ ZeroMeansGranted

(* The stored hash verifies the password the account was created with and  *)
(* no other: a login, whoever tries it and whenever the parameters change, *)
(* never changes the password (services/auth.py:131-135).                  *)
PasswordSticks == \A i \in rows : hash[i].of = chosen[i]

(* A request that comes in after its account was disabled or deleted is    *)
(* never served, though its token is valid, even if the name has been      *)
(* given to a new account (api/auth.py:126).                               *)
DisablingBites ==
  \A p \in Proc : cmd[p].verb = "call" /\ p \in late => result[p] # "200"

(* A served request had the permission it needed, from its own account's   *)
(* roles: grants only go with the account, so it has it still.             *)
ServedByRight ==
  \A p \in Proc :
    result[p] = "200" /\ cmd[p].wants # NoPermission
      /\ cmd[p].subject \in rows => cmd[p].wants \in Permissions(cmd[p].subject)

(* Both: a request is served to an account in order, by its own right.     *)
ServedRightly == DisablingBites /\ ServedByRight

=============================================================================
