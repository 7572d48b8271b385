------------------------------ MODULE Accounts ------------------------------
(***************************************************************************)
(* Accounts, sessions, the calendar and the preferred occasions: the use    *)
(* cases of application/auth.py, events.py and users.py over                *)
(* AuthRepositorySQL, UserEventRepositorySQL and UserStateRepositorySQL,    *)
(* and the resolution of the bearer token and of the development user in    *)
(* api/deps.py.                                                             *)
(*                                                                         *)
(* A request runs what its script says.  The rows it inserts are named by   *)
(* it: a user, its session, an event.  A token is the session it was minted *)
(* for; a password and a display name are one word, which a replay compares *)
(* together.  A step is one statement or one commit: the statements before  *)
(* a commit see what others have committed, and a row that a foreign key    *)
(* or a unique index needs is checked when the commit's own rows are.       *)
(***************************************************************************)
EXTENDS Naturals, FiniteSets, TLC

CONSTANTS
    Request,
    Subject,  \* email addresses, and the subject of the development user
    Dev,      \* that subject, and the development token
    Word,     \* passwords and display names
    IdemKey,  \* Idempotency-Key values
    Type,     \* codes of event types
    None,
    Scripts   \* what the requests may be, together

Registers == [kind: {"register"}, email: Subject \ {Dev}, key: IdemKey, word: Word]
Logins    == [kind: {"login"}, email: Subject \ {Dev}, word: Word]
Others    == [kind: {"logout", "erase", "delete"}]
Writes    == [kind: {"create", "update"}, type: Type]
Patches   == [kind: {"patch"}, list: SUBSET Type]
Script    == Registers \cup Logins \cup Others \cup Writes \cup Patches

User    == [subject: Subject, key: IdemKey \cup {None}, word: Word \cup {None}]
Session == [user: Request, live: BOOLEAN]
Event   == [user: Request, type: Type]

ASSUME AccountsAssumption ==
    /\ Scripts \subseteq [Request -> Script]
    /\ Dev \in Subject
    /\ None \notin Request /\ None \notin Word /\ None \notin IdemKey /\ None \notin Type

VARIABLES
    script,
    pc,
    token,     \* the bearer token of each request
    who,       \* the account each request has found
    what,      \* the event it has found, and its type then
    seen,      \* the preferred occasions it has read
    answer,
    users,     \* users and user_state
    sessions,  \* user_sessions; one that is revoked or expired is not live
    events,    \* user_events
    prefs,     \* preferred_occasions of user_state.preferences
    stale,     \* requests sent with a token that was dead (no code reads it)
    fed,       \* requests whose type reached the preferences (no code reads it)
    replaced   \* accounts whose list was replaced by a request that had not
               \* read it as it was (no code reads it)

request == <<script, pc, token, who, what, seen, answer>>
history == <<stale, fed, replaced>>
vars == <<request, users, sessions, events, prefs, history>>

Labels == {"idle", "find", "create", "issue", "resolve", "find_dev", "insert_dev", "act",
           "revoke", "erase", "insert", "get", "update", "delete", "patch",
           "read_prefs", "write_prefs", "profile", "done"}
Answers == {"none", "ok", "unauthorized", "not_found", "conflict", "failed", "dead"}

TypeOK ==
    /\ script \in Scripts
    /\ pc \in [Request -> Labels]
    /\ token \in [Request -> Request \cup {Dev, None}]
    /\ who \in [Request -> Request \cup {None}]
    /\ what \in [Request -> [event: Request \cup {None}, type: Type \cup {None}]]
    /\ seen \in [Request -> SUBSET Type]
    /\ answer \in [Request -> Answers]
    /\ DOMAIN users \subseteq Request /\ \A u \in DOMAIN users : users[u] \in User
    /\ DOMAIN sessions \subseteq Request /\ \A s \in DOMAIN sessions : sessions[s] \in Session
    /\ DOMAIN events \subseteq Request /\ \A e \in DOMAIN events : events[e] \in Event
    /\ DOMAIN prefs = DOMAIN users /\ \A u \in DOMAIN prefs : prefs[u] \subseteq Type
    /\ stale \subseteq Request /\ fed \subseteq Request /\ replaced \subseteq Request

NoRows == [x \in {} |-> None]

(* The table with a row of the request.                                     *)
Put(table, r, row) == [x \in DOMAIN table \cup {r} |-> IF x = r THEN row ELSE table[x]]

Init ==
    /\ script \in Scripts
    /\ pc = [r \in Request |-> "idle"]
    /\ token = [r \in Request |-> None]
    /\ who = [r \in Request |-> None]
    /\ what = [r \in Request |-> [event |-> None, type |-> None]]
    /\ seen = [r \in Request |-> {}]
    /\ answer = [r \in Request |-> "none"]
    /\ users = NoRows /\ sessions = NoRows /\ events = NoRows /\ prefs = NoRows
    /\ stale = {} /\ fed = {} /\ replaced = {}

-----------------------------------------------------------------------------

Goto(r, label) == pc' = [pc EXCEPT ![r] = label] /\ UNCHANGED answer

Answer(r, with) == /\ pc' = [pc EXCEPT ![r] = "done"]
                   /\ answer' = [answer EXCEPT ![r] = with]

Op(r) == script[r]

(* The tokens clients hold: those of requests that were answered.           *)
Minted == {s \in Request : Op(s).kind \in {"register", "login"} /\ answer[s] = "ok"}

IsDead(t) == t # Dev /\ (t \notin DOMAIN sessions \/ ~ sessions[t].live)

(* A registration or a login, or a request with a bearer token.             *)
Submit(r) ==
    /\ pc[r] = "idle"
    /\ \/ /\ Op(r).kind \in {"register", "login"}
          /\ Goto(r, "find")
          /\ UNCHANGED <<token, stale>>
       \/ /\ Op(r).kind \notin {"register", "login"}
          /\ \E t \in Minted \cup {Dev} :
                /\ token' = [token EXCEPT ![r] = t]
                /\ stale' = IF IsDead(t) THEN stale \cup {r} ELSE stale
          /\ Goto(r, "resolve")
    /\ UNCHANGED <<script, who, what, seen, users, sessions, events, prefs, fed, replaced>>

(* find_account. *)
Of(subject) == {u \in DOMAIN users : users[u].subject = subject}

(* Faulty: a known key replays whatever the password. *)
SameKeyOnly(r, u) == users[u].key = Op(r).key

(* A repeated registration: the key, the password and the name.             *)
IsRepeat(r, u) == users[u].key = Op(r).key /\ users[u].word = Op(r).word

(* RegisterAccount and SignIn, up to their first write. *)
Find(r) ==
    /\ pc[r] = "find"
    /\ \/ /\ Of(Op(r).email) = {}
          /\ IF Op(r).kind = "register" THEN Goto(r, "create") ELSE Answer(r, "unauthorized")
          /\ UNCHANGED who
       \/ \E u \in Of(Op(r).email) :
             \/ /\ Op(r).kind = "register" /\ IsRepeat(r, u)
                /\ who' = [who EXCEPT ![r] = u]
                /\ Goto(r, "issue")
             \/ /\ Op(r).kind = "register" /\ ~ IsRepeat(r, u)
                /\ Answer(r, "conflict")
                /\ UNCHANGED who
             \/ /\ Op(r).kind = "login" /\ users[u].word = Op(r).word
                /\ who' = [who EXCEPT ![r] = u]
                /\ Goto(r, "issue")
             \/ /\ Op(r).kind = "login" /\ users[u].word # Op(r).word
                /\ Answer(r, "unauthorized")
                /\ UNCHANGED who
    /\ UNCHANGED <<script, token, what, seen, users, sessions, events, prefs, history>>

(* Account, state and first session in one commit, unless another request   *)
(* has taken the address.                                                   *)
Create(r) ==
    /\ pc[r] = "create"
    /\ \/ /\ Of(Op(r).email) = {}
          /\ users' = Put(users, r, [subject |-> Op(r).email, key |-> Op(r).key, word |-> Op(r).word])
          /\ prefs' = Put(prefs, r, {})
          /\ sessions' = Put(sessions, r, [user |-> r, live |-> TRUE])
          /\ who' = [who EXCEPT ![r] = r]
          /\ Goto(r, "profile")
       \/ /\ Of(Op(r).email) # {}
          /\ Answer(r, "failed")
          /\ UNCHANGED <<users, prefs, sessions, who>>
    /\ UNCHANGED <<script, token, what, seen, events, history>>

(* issue_session for the account found, unless it has been erased.          *)
Issue(r) ==
    /\ pc[r] = "issue"
    /\ \/ /\ who[r] \in DOMAIN users
          /\ sessions' = Put(sessions, r, [user |-> who[r], live |-> TRUE])
          /\ Goto(r, "profile")
       \/ /\ who[r] \notin DOMAIN users
          /\ Answer(r, "failed")
          /\ UNCHANGED sessions
    /\ UNCHANGED <<script, token, who, what, seen, users, events, prefs, history>>

(* GetProfile, which every answer with a profile ends with. *)
Profile(r) ==
    /\ pc[r] = "profile"
    /\ Answer(r, IF who[r] \in DOMAIN users THEN "ok" ELSE "not_found")
    /\ UNCHANGED <<script, token, who, what, seen, users, sessions, events, prefs, history>>

-----------------------------------------------------------------------------

(* Faulty: the signature and the row suffice. *)
ResolvesByRow(t) == t \in DOMAIN sessions

(* resolve_session: a row that is neither revoked nor expired. *)
Resolves(t) == t \in DOMAIN sessions /\ sessions[t].live

(* get_current_user_id. *)
Resolve(r) ==
    /\ pc[r] = "resolve"
    /\ \/ /\ Resolves(token[r])
          /\ who' = [who EXCEPT ![r] = sessions[token[r]].user]
          /\ Goto(r, "act")
       \/ /\ ~ Resolves(token[r]) /\ token[r] # Dev
          /\ Answer(r, "unauthorized")
          /\ UNCHANGED who
       \/ /\ ~ Resolves(token[r]) /\ token[r] = Dev
          \* SignOut resolves the token itself, without the development user
          /\ IF Op(r).kind = "logout" THEN Answer(r, "unauthorized") ELSE Goto(r, "find_dev")
          /\ UNCHANGED who
    /\ UNCHANGED <<script, token, what, seen, users, sessions, events, prefs, history>>

(* _seeded_dev_user: looked up ... *)
FindDev(r) ==
    /\ pc[r] = "find_dev"
    /\ \/ /\ Of(Dev) = {}
          /\ Goto(r, "insert_dev")
          /\ UNCHANGED who
       \/ \E u \in Of(Dev) : /\ who' = [who EXCEPT ![r] = u]
                             /\ Goto(r, "act")
    /\ UNCHANGED <<script, token, what, seen, users, sessions, events, prefs, history>>

(* ... and inserted, unless another first request was faster.               *)
InsertDev(r) ==
    /\ pc[r] = "insert_dev"
    /\ \/ /\ Of(Dev) = {}
          /\ users' = Put(users, r, [subject |-> Dev, key |-> None, word |-> None])
          /\ prefs' = Put(prefs, r, {})
          /\ who' = [who EXCEPT ![r] = r]
          /\ Goto(r, "act")
       \/ /\ Of(Dev) # {}
          /\ Answer(r, "failed")
          /\ UNCHANGED <<users, prefs, who>>
    /\ UNCHANGED <<script, token, what, seen, sessions, events, history>>

(* The handler behind the token, up to its first statement. *)
Act(r) ==
    /\ pc[r] = "act"
    /\ Goto(r, CASE Op(r).kind = "logout" -> "revoke"
                 [] Op(r).kind = "erase"  -> "erase"
                 [] Op(r).kind = "create" -> "insert"
                 [] Op(r).kind \in {"update", "delete"} -> "get"
                 [] Op(r).kind = "patch"  -> "patch")
    /\ UNCHANGED <<script, token, who, what, seen, users, sessions, events, prefs, history>>

Ended(s) == [user |-> sessions[s].user, live |-> FALSE]

(* revoke_session, which finds nothing to revoke twice.                     *)
Revoke(r) ==
    /\ pc[r] = "revoke"
    /\ sessions' = [s \in DOMAIN sessions |->
                       IF s = token[r] THEN Ended(s) ELSE sessions[s]]
    /\ Answer(r, "ok")
    /\ UNCHANGED <<script, token, who, what, seen, users, events, prefs, history>>

Without(f, S) == [x \in DOMAIN f \ S |-> f[x]]

(* ON DELETE CASCADE of user_state. *)
CascadeState(u) == prefs' = Without(prefs, {u})

(* Faulty: the sessions stay. *)
KeepSessions(u) == UNCHANGED sessions

(* ON DELETE CASCADE of user_sessions. *)
CascadeSessions(u) ==
    sessions' = Without(sessions, {s \in DOMAIN sessions : sessions[s].user = u})

(* DeleteAccount: the cascade takes everything the account owns.            *)
Erase(r) ==
    /\ pc[r] = "erase"
    /\ \/ /\ who[r] \in DOMAIN users
          /\ users' = Without(users, {who[r]})
          /\ CascadeState(who[r])
          /\ CascadeSessions(who[r])
          /\ events' = Without(events, {e \in DOMAIN events : events[e].user = who[r]})
          /\ Answer(r, "ok")
       \/ /\ who[r] \notin DOMAIN users
          /\ Answer(r, "not_found")
          /\ UNCHANGED <<users, prefs, sessions, events>>
    /\ UNCHANGED <<script, token, who, what, seen, history>>

(* A session passes its expiry. *)
Expire(s) ==
    /\ s \in DOMAIN sessions /\ sessions[s].live
    /\ sessions' = Put(sessions, s, Ended(s))
    /\ UNCHANGED <<request, users, events, prefs, history>>

-----------------------------------------------------------------------------

(* CreateEvent: the event is committed, then the occasion is fed.           *)
Insert(r) ==
    /\ pc[r] = "insert"
    /\ \/ /\ who[r] \in DOMAIN users
          /\ events' = Put(events, r, [user |-> who[r], type |-> Op(r).type])
          /\ Goto(r, "read_prefs")
       \/ /\ who[r] \notin DOMAIN users
          /\ Answer(r, "failed")
          /\ UNCHANGED events
    /\ UNCHANGED <<script, token, who, what, seen, users, sessions, prefs, history>>

(* get_for_user: an event of the caller. *)
Get(r) ==
    /\ pc[r] = "get"
    /\ \/ \E e \in DOMAIN events :
             /\ events[e].user = who[r]
             /\ what' = [what EXCEPT ![r] = [event |-> e, type |-> events[e].type]]
             /\ Goto(r, Op(r).kind)
       \/ /\ Answer(r, "not_found")
          /\ UNCHANGED what
    /\ UNCHANGED <<script, token, who, seen, users, sessions, events, prefs, history>>

(* The row is read again and written: gone, it is not found; gone between   *)
(* the two, the flush fails.  A new type is fed.                            *)
Update(r) ==
    LET e == what[r].event
    IN  /\ pc[r] = "update"
        /\ \/ /\ e \in DOMAIN events
              /\ events' = Put(events, e, [user |-> events[e].user, type |-> Op(r).type])
              /\ IF Op(r).type # what[r].type THEN Goto(r, "read_prefs") ELSE Answer(r, "ok")
           \/ /\ e \notin DOMAIN events
              /\ \E with \in {"not_found", "failed"} : Answer(r, with)
              /\ UNCHANGED events
        /\ UNCHANGED <<script, token, who, what, seen, users, sessions, prefs, history>>

(* DeleteEvent: a row that has gone meanwhile is deleted all the same.      *)
Delete(r) ==
    /\ pc[r] = "delete"
    /\ events' = Without(events, {what[r].event})
    /\ Answer(r, "ok")
    /\ UNCHANGED <<script, token, who, what, seen, users, sessions, prefs, history>>

(* _append_preferred_occasion: the list is read ...  The event stands       *)
(* whatever happens here.                                                   *)
ReadPrefs(r) ==
    /\ pc[r] = "read_prefs"
    /\ \/ /\ who[r] \in DOMAIN users /\ Op(r).type \in prefs[who[r]]
          /\ fed' = fed \cup {r}
          /\ Answer(r, "ok")
          /\ UNCHANGED seen
       \/ /\ who[r] \in DOMAIN users /\ Op(r).type \notin prefs[who[r]]
          /\ seen' = [seen EXCEPT ![r] = prefs[who[r]]]
          /\ Goto(r, "write_prefs")
          /\ UNCHANGED fed
       \/ /\ who[r] \notin DOMAIN users
          /\ Goto(r, "write_prefs")
          /\ UNCHANGED <<seen, fed>>
       \/ /\ Answer(r, "ok")
          /\ UNCHANGED <<seen, fed>>
    /\ UNCHANGED <<script, token, who, what, users, sessions, events, prefs, stale, replaced>>

(* Faulty: the feed replaces the list. *)
OnlyNew(r) == {Op(r).type}

(* ... extended in memory ... *)
Extended(r) == seen[r] \cup {Op(r).type}

(* ... and written back whole, as the new value of its key.                 *)
WritePrefs(r) ==
    /\ pc[r] = "write_prefs"
    /\ \/ /\ who[r] \in DOMAIN users
          /\ prefs' = [prefs EXCEPT ![who[r]] = Extended(r)]
          /\ replaced' = IF prefs[who[r]] # seen[r] THEN replaced \cup {who[r]} ELSE replaced
          /\ fed' = fed \cup {r}
       \/ /\ who[r] \notin DOMAIN users
          /\ UNCHANGED <<prefs, replaced, fed>>
       \/ UNCHANGED <<prefs, replaced, fed>>
    /\ Answer(r, "ok")
    /\ UNCHANGED <<script, token, who, what, seen, users, sessions, events, stale>>

(* UpdatePreferences. *)
Patch(r) ==
    /\ pc[r] = "patch"
    /\ prefs' = [u \in DOMAIN prefs |-> IF u = who[r] THEN Op(r).list ELSE prefs[u]]
    /\ replaced' = replaced \cup {who[r]}
    /\ Goto(r, "profile")
    /\ UNCHANGED <<script, token, who, what, seen, users, sessions, events, stale, fed>>

(* The process ends, or the database raises: what was not committed is      *)
(* rolled back and nobody is answered.                                      *)
Die(r) ==
    /\ pc[r] \notin {"idle", "done"}
    /\ Answer(r, "dead")
    /\ UNCHANGED <<script, token, who, what, seen, users, sessions, events, prefs, history>>

Step(r) == \/ Submit(r) \/ Find(r) \/ Create(r) \/ Issue(r) \/ Profile(r)
           \/ Resolve(r) \/ FindDev(r) \/ InsertDev(r) \/ Act(r)
           \/ Revoke(r) \/ Erase(r) \/ Insert(r) \/ Get(r) \/ Update(r) \/ Delete(r)
           \/ ReadPrefs(r) \/ WritePrefs(r) \/ Patch(r) \/ Die(r)

Next == \/ \E r \in Request : Step(r)
        \/ \E s \in Request : Expire(s)

Spec == Init /\ [][Next]_vars

-----------------------------------------------------------------------------

(* TRX-8 and the unique index: two registrations of one address, or two     *)
(* first requests of the development user, leave one account, and an        *)
(* account erased while its other requests run leaves nothing behind.       *)
RowsHaveOneOwner ==
    /\ \A u, v \in DOMAIN users : users[u].subject = users[v].subject => u = v
    /\ \A s \in DOMAIN sessions : sessions[s].user \in DOMAIN users
    /\ \A e \in DOMAIN events : events[e].user \in DOMAIN users

(* "Create the account + first session, or replay idempotently"             *)
(* (RegisterAccount): whoever is answered has a session of the account it   *)
(* described, the same one for every repetition, and a second registration  *)
(* of the address that differs is never answered beside it.                 *)
RegisteredAsDescribed ==
    \A r \in Request :
        Op(r).kind = "register" /\ answer[r] = "ok" /\ r \in DOMAIN sessions =>
            LET u == sessions[r].user
            IN  /\ users[u] = [subject |-> Op(r).email, key |-> Op(r).key, word |-> Op(r).word]
                /\ \A q \in Request :
                      /\ Op(q).kind = "register" /\ Op(q).email = Op(r).email
                      /\ answer[q] = "ok" /\ q \in DOMAIN sessions
                      => sessions[q].user = u

(* "any malformed/expired/revoked/unknown token" (resolve_session): once a  *)
(* logout or an erasure is through, or the session has expired, no request  *)
(* sent with its token succeeds, whichever handler it is for.               *)
DeadTokensAreRefused == \A r \in stale : answer[r] # "ok"

(* "Existing values are preserved" (_append_preferred_occasion): the types  *)
(* of an account's events that reached its preferences stay there, unless   *)
(* the list was replaced by a request that had not read it as it was.       *)
OccasionsAreKept ==
    \A r \in fed : who[r] \in DOMAIN users \ replaced => Op(r).type \in prefs[who[r]]
=============================================================================
