------------------------------ MODULE Accounts ------------------------------
(***************************************************************************)
(* Registration, login and the check of a session: the pages of the web    *)
(* client, comet's HTTP gateway and its web socket handshake, logic's      *)
(* handlers and what they keep in MySQL (user_infos) and Redis (sid ->     *)
(* e-mail).                                                                *)
(*                                                                         *)
(* comet forwards a request to logic and waits for the answer at most five *)
(* seconds; logic does not notice that comet has stopped waiting and       *)
(* finishes.  logic may die and be restarted between any two of its steps. *)
(* Every use of MySQL and of Redis may fail where the code has a branch    *)
(* for it.                                                                 *)
(*                                                                         *)
(* A request is <<b, n>>, the n-th thing the user of browser b did; it     *)
(* stands also for the identifiers (user_id, sid) that GenerateUUID makes  *)
(* while it is served.                                                     *)
(***************************************************************************)
EXTENDS Naturals, FiniteSets

CONSTANTS
    Browsers,
    Comets,         \* comet instances; each serves one request at a time
    Loops,          \* logic's event loops
    Inputs,         \* what a user types: [username, email, password]
    Fold,           \* MySQL's collation: strings it takes for equal have the
                    \* same image
    Authorized,     \* e-mails enabled in authorized_users
    None,           \* no task, no user
    MaxActs,        \* bound: how much each user does
    MaxCrashes      \* bound: crashes of logic

Requests == UNION {{b} \X (1..MaxActs[b]) : b \in Browsers}

(* The value of a cookie: none, "sid=" without a value, or a sid. *)
NoSid == <<"no cookie">>
EmptySid == <<"empty">>
Sids == Requests \cup {NoSid, EmptySid}

Users == [by : Requests, input : Inputs]

Tasks == [req : Requests, op : {"register", "login", "verify"}, input : Inputs,
          sid : Sids, comet : Comets]

ASSUME AccountsAssumption ==
    /\ \A i \in Inputs : {"username", "email", "password"} = DOMAIN i
    /\ \A i \in Inputs : {i.username, i.email} \subseteq DOMAIN Fold
    /\ Inputs # {}
    /\ None \notin Users
    /\ None \notin Tasks
    /\ MaxActs \in [Browsers -> Nat]
    /\ MaxCrashes \in Nat

VARIABLES
    (* browser *)
    page,           \* the page shown
    hasAuth,        \* the flag in localStorage
    cookie,         \* the sid cookie
    view,           \* the chat page: "loading", "silent" (connected, but
                    \* hello will not come) or "chat"
    me,             \* its state.currentUser
    acts,           \* what the user has done so far
    posted,         \* requests on their way to a comet
    (* comet *)
    call,           \* the request a comet forwarded, and logic's answer
    (* logic *)
    inbox,          \* requests logic has received
    work,           \* what an event loop is doing
    crashes,
    user_infos,     \* MySQL
    sessions,       \* Redis: [sid, email]
    (* history *)
    told            \* what the users were told: [req, op, input, answer]

browserVars == <<page, hasAuth, cookie, view, me, acts, posted>>
vars == <<page, hasAuth, cookie, view, me, acts, posted, call, inbox, work,
          crashes, user_infos, sessions, told>>

Same(s, t) == Fold[s] = Fold[t]

-----------------------------------------------------------------------------
(* Browser *)

Form(b, op, input) ==
    [req |-> <<b, acts[b] + 1>>, op |-> op, input |-> input, sid |-> NoSid]

(* The chat page opens a web socket, with the cookie of the moment. *)
Socket(b, n, sid) ==
    [req |-> <<b, n>>, op |-> "verify", input |-> CHOOSE i \in Inputs : TRUE, sid |-> sid]

(* The page shown when p is loaded: the login page leaves for the chat page *)
(* if the flag is set.                                                      *)
Landing(p, auth) == IF p = "login" /\ auth THEN "chat" ELSE p

(* Page p is loaded in b, with flag and cookie as given. *)
Load(b, p, auth, sid, n) ==
    /\ page' = [page EXCEPT ![b] = Landing(p, auth)]
    /\ view' = [view EXCEPT ![b] = "loading"]
    /\ me' = [me EXCEPT ![b] = None]
    /\ posted' = IF Landing(p, auth) = "chat"
                 THEN posted \cup {Socket(b, n, sid)} ELSE posted

(* The user opens a page.  What the old one had asked for goes on, but its  *)
(* answer will reach nobody.                                                *)
Visit(b, p) ==
    /\ acts[b] < MaxActs[b]
    /\ acts' = [acts EXCEPT ![b] = @ + 1]
    /\ Load(b, p, hasAuth[b], cookie[b], acts[b] + 1)
    /\ UNCHANGED <<hasAuth, cookie, call, inbox, work, crashes, user_infos,
                   sessions, told>>

(* A request of b waits for a comet or is served by one, and the page is    *)
(* still the one that sent it: the button is disabled.                      *)
Waiting(b) ==
    \/ \E p \in posted : p.req = <<b, acts[b]>>
    \/ \E c \in Comets : call[c].task # None /\ call[c].task.req = <<b, acts[b]>>

Submit(b, input) ==
    /\ acts[b] < MaxActs[b]
    /\ page[b] \in {"index", "login"}
    /\ ~Waiting(b)
    /\ acts' = [acts EXCEPT ![b] = @ + 1]
    /\ posted' = posted \cup
                    {Form(b, IF page[b] = "index" THEN "register" ELSE "login", input)}
    /\ UNCHANGED <<page, hasAuth, cookie, view, me, call, inbox, work, crashes,
                   user_infos, sessions, told>>

-----------------------------------------------------------------------------
(* comet *)

(* A handshake without a sid is refused without asking logic. *)
Forward(c, p) ==
    /\ call[c].task = None
    /\ LET task == [req |-> p.req, op |-> p.op, input |-> p.input, sid |-> p.sid,
                    comet |-> c]
           refused == task.op = "verify" /\ task.sid \in {NoSid, EmptySid}
       IN /\ call' = [call EXCEPT ![c] =
                         [task |-> task, answer |-> IF refused THEN "error" ELSE "none",
                          sid |-> NoSid, user |-> None]]
          /\ inbox' = IF refused THEN inbox ELSE inbox \cup {task}
    /\ posted' = posted \ {p}
    /\ UNCHANGED <<page, hasAuth, cookie, view, me, acts, work, crashes, user_infos,
                   sessions, told>>

(* curl gives up: the five seconds are over, or logic cannot be reached. *)
GiveUp(c) ==
    /\ call[c].task # None
    /\ call[c].answer = "none"
    /\ call' = [call EXCEPT ![c].answer = "error"]
    /\ UNCHANGED <<browserVars, inbox, work, crashes, user_infos, sessions, told>>

Idle == [task |-> None, answer |-> "none", sid |-> NoSid, user |-> None]

(* The browser still shows the page that sent the request. *)
Current(task) == acts[task.req[1]] = task.req[2]

(* The answer to a form.  204 carries the sid as a cookie; createAccount    *)
(* goes to the login page, login sets the flag and goes to the chat page.   *)
RespondForm(c) ==
    LET task == call[c].task
        b == task.req[1]
        ok == call[c].answer = "ok"
    IN /\ task # None
       /\ task.op \in {"register", "login"}
       /\ call[c].answer # "none"
       /\ call' = [call EXCEPT ![c] = Idle]
       /\ IF ~Current(task) THEN UNCHANGED <<browserVars, told>>
          ELSE /\ told' = told \cup {[req |-> task.req, op |-> task.op,
                                      input |-> task.input, answer |-> call[c].answer]}
               /\ UNCHANGED acts
               /\ IF ~ok THEN UNCHANGED <<page, hasAuth, cookie, view, me, posted>>
                  ELSE /\ cookie' = [cookie EXCEPT ![b] = call[c].sid]
                       /\ hasAuth' = [hasAuth EXCEPT ![b] = @ \/ task.op = "login"]
                       /\ Load(b, IF task.op = "login" THEN "chat" ELSE "login",
                               hasAuth'[b], call[c].sid, acts[b])
       /\ UNCHANGED <<inbox, work, crashes, user_infos, sessions>>

(* The handshake succeeded.  comet asks logic for the rooms and sends       *)
(* hello; when that fails it sends nothing and leaves the socket open.      *)
RespondHello(c) ==
    LET task == call[c].task
        b == task.req[1]
    IN /\ task # None
       /\ task.op = "verify"
       /\ call[c].answer = "ok"
       /\ call' = [call EXCEPT ![c] = Idle]
       /\ \/ /\ Current(task)
             /\ view' = [view EXCEPT ![b] = "chat"]
             /\ me' = [me EXCEPT ![b] = call[c].user]
          \/ /\ Current(task)
             /\ view' = [view EXCEPT ![b] = "silent"]
             /\ UNCHANGED me
          \/ ~Current(task) /\ UNCHANGED <<view, me>>
       /\ UNCHANGED <<page, hasAuth, cookie, acts, posted, inbox, work, crashes,
                      user_infos, sessions, told>>

(* Seeded fault: the flag survives a refusal. *)
RespondRefuse_KeepsFlag(c) ==
    LET task == call[c].task
        b == task.req[1]
    IN /\ task # None
       /\ task.op = "verify"
       /\ call[c].answer \notin {"none", "ok"}
       /\ call' = [call EXCEPT ![c] = Idle]
       /\ IF ~Current(task) THEN UNCHANGED browserVars
          ELSE /\ Load(b, "login", hasAuth[b], cookie[b], acts[b])
               /\ UNCHANGED <<acts, cookie, hasAuth>>
       /\ UNCHANGED <<inbox, work, crashes, user_infos, sessions, told>>

(* The handshake failed.  What SendCloseFrame sends is no frame, so the     *)
(* browser fails the connection; onClose clears the flag and goes to the    *)
(* login page whatever the code.                                            *)
RespondRefuse(c) ==
    LET task == call[c].task
        b == task.req[1]
    IN /\ task # None
       /\ task.op = "verify"
       /\ call[c].answer \notin {"none", "ok"}
       /\ call' = [call EXCEPT ![c] = Idle]
       /\ IF ~Current(task) THEN UNCHANGED browserVars
          ELSE /\ hasAuth' = [hasAuth EXCEPT ![b] = FALSE]
               /\ Load(b, "login", FALSE, cookie[b], acts[b])
               /\ UNCHANGED <<acts, cookie>>
       /\ UNCHANGED <<inbox, work, crashes, user_infos, sessions, told>>

-----------------------------------------------------------------------------
(* logic *)

Free == [task |-> None, pc |-> "free", email |-> None]

Receive(l) ==
    /\ work[l].task = None
    /\ \E task \in inbox :
          /\ inbox' = inbox \ {task}
          /\ work' = [work EXCEPT ![l] = [task |-> task, pc |-> task.op, email |-> None]]
    /\ UNCHANGED <<browserVars, call, crashes, user_infos, sessions, told>>

(* Seeded fault: the answer goes to whatever its comet is waiting for. *)
Reply_Unmatched(l, answer, sid, user) ==
    LET task == work[l].task
        c == task.comet
    IN /\ call' = IF call[c].task # None /\ call[c].answer = "none"
                  THEN [call EXCEPT ![c] = [task |-> @.task, answer |-> answer,
                                            sid |-> sid, user |-> user]]
                  ELSE call
       /\ work' = [work EXCEPT ![l] = Free]

(* The loop sends its answer and is free.  Nobody reads it if the comet has *)
(* stopped waiting for this request.                                        *)
Reply(l, answer, sid, user) ==
    LET task == work[l].task
        c == task.comet
    IN /\ call' = IF call[c].task = task /\ call[c].answer = "none"
                  THEN [call EXCEPT ![c] = [task |-> task, answer |-> answer,
                                            sid |-> sid, user |-> user]]
                  ELSE call
       /\ work' = [work EXCEPT ![l] = Free]

(* Rows the SELECT of RegisterUser finds. *)
Matches(input) ==
    {u \in user_infos : \/ Same(u.input.username, input.username)
                        \/ Same(u.input.email, input.email)}

(* Seeded fault: any match is reported as the e-mail. *)
ErrorId_Email(row, input) == "EMAIL_EXISTS"

(* What the first row says.  The comparison here is exact, MySQL's is not:  *)
(* a match by case alone leaves error_id at bad_request, which is "".       *)
ErrorId(row, input) ==
    CASE row.input.email = input.email -> "EMAIL_EXISTS"
      [] row.input.email # input.email /\ row.input.username = input.username ->
            "USERNAME_EXISTS"
      [] OTHER -> ""

(* RegisterUser: no connection is a failure; a failed SELECT is taken for   *)
(* an empty one.                                                            *)
RegisterSelect(l) ==
    LET task == work[l].task IN
    /\ work[l].pc = "register"
    /\ \/ Reply(l, "", NoSid, None)
       \/ \E row \in Matches(task.input) :
             Reply(l, ErrorId(row, task.input), NoSid, None)
       \/ /\ work' = [work EXCEPT ![l].pc = "insert"]
          /\ UNCHANGED call
    /\ UNCHANGED <<browserVars, inbox, crashes, user_infos, sessions, told>>

(* Seeded fault: the result of the INSERT is not looked at. *)
RegisterInsert_Unchecked(l) ==
    LET task == work[l].task IN
    /\ work[l].pc = "insert"
    /\ user_infos' = IF Matches(task.input) = {}
                     THEN user_infos \cup {[by |-> task.req, input |-> task.input]}
                     ELSE user_infos
    /\ work' = [work EXCEPT ![l].pc = "cookie"]
    /\ UNCHANGED <<browserVars, call, inbox, crashes, sessions, told>>

(* The INSERT; the UNIQUE keys of user_infos decide, and it may fail.       *)
RegisterInsert(l) ==
    LET task == work[l].task IN
    /\ work[l].pc = "insert"
    /\ \/ /\ Matches(task.input) = {}
          /\ user_infos' = user_infos \cup {[by |-> task.req, input |-> task.input]}
          /\ work' = [work EXCEPT ![l].pc = "cookie"]
          /\ UNCHANGED call
       \/ /\ Reply(l, "", NoSid, None)
          /\ UNCHANGED user_infos
    /\ UNCHANGED <<browserVars, inbox, crashes, sessions, told>>

(* VerifyUserPassword: the e-mail is enabled, and the row has the password. *)
LoginVerify(l) ==
    LET input == work[l].task.input IN
    /\ work[l].pc = "login"
    /\ \/ /\ \E e \in Authorized : Same(e, input.email)
          /\ \E u \in user_infos : /\ Same(u.input.email, input.email)
                                   /\ u.input.password = input.password
          /\ work' = [work EXCEPT ![l].pc = "cookie"]
          /\ UNCHANGED call
       \/ Reply(l, "LOGIN_FAILED", NoSid, None)
    /\ UNCHANGED <<browserVars, inbox, crashes, user_infos, sessions, told>>

(* Seeded fault: the e-mail is the sid. *)
SetCookie_Email(l) ==
    LET email == work[l].task.input.email IN
    /\ work[l].pc = "cookie"
    /\ sessions' = sessions \cup {[sid |-> <<email>>, email |-> email]}
    /\ Reply(l, "ok", <<email>>, None)
    /\ UNCHANGED <<browserVars, inbox, crashes, user_infos, told>>

(* ApiSetCookie, whose result nobody looks at: the session is stored; SetEx *)
(* fails, and the sid means nothing; there is no connection, and the sid is *)
(* empty.                                                                   *)
SetCookie(l) ==
    LET task == work[l].task IN
    /\ work[l].pc = "cookie"
    /\ \/ /\ sessions' = sessions \cup {[sid |-> task.req, email |-> task.input.email]}
          /\ Reply(l, "ok", task.req, None)
       \/ /\ UNCHANGED sessions
          /\ \E sid \in {task.req, EmptySid} : Reply(l, "ok", sid, None)
    /\ UNCHANGED <<browserVars, inbox, crashes, user_infos, told>>

(* Seeded fault: any session will do. *)
VerifyCookie_AnySid(l) ==
    LET task == work[l].task IN
    /\ work[l].pc = "verify"
    /\ \/ \E s \in sessions :
             /\ work' = [work EXCEPT ![l] = [task |-> task, pc |-> "user", email |-> s.email]]
             /\ UNCHANGED call
       \/ Reply(l, "error", NoSid, None)
    /\ UNCHANGED <<browserVars, inbox, crashes, user_infos, sessions, told>>

(* ApiGetUsernameAndUseridByCookie: Redis, then MySQL. *)
VerifyCookie(l) ==
    LET task == work[l].task IN
    /\ work[l].pc = "verify"
    /\ \/ \E s \in sessions :
             /\ s.sid = task.sid
             /\ work' = [work EXCEPT ![l] = [task |-> task, pc |-> "user", email |-> s.email]]
             /\ UNCHANGED call
       \/ Reply(l, "error", NoSid, None)
    /\ UNCHANGED <<browserVars, inbox, crashes, user_infos, sessions, told>>

VerifyUser(l) ==
    /\ work[l].pc = "user"
    /\ \/ \E u \in user_infos :
             /\ Same(u.input.email, work[l].email)
             /\ Reply(l, "ok", NoSid, u)
       \/ Reply(l, "error", NoSid, None)
    /\ UNCHANGED <<browserVars, inbox, crashes, user_infos, sessions, told>>

(* Redis drops a session when its day is over. *)
Expire(s) ==
    /\ s \in sessions
    /\ sessions' = sessions \ {s}
    /\ UNCHANGED <<browserVars, call, inbox, work, crashes, user_infos, told>>

(* logic dies and is restarted. *)
Crash ==
    /\ crashes < MaxCrashes
    /\ crashes' = crashes + 1
    /\ inbox' = {}
    /\ work' = [l \in Loops |-> Free]
    /\ UNCHANGED <<browserVars, call, user_infos, sessions, told>>

-----------------------------------------------------------------------------
Init ==
    /\ page = [b \in Browsers |-> "index"]
    /\ hasAuth = [b \in Browsers |-> FALSE]
    /\ cookie = [b \in Browsers |-> NoSid]
    /\ view = [b \in Browsers |-> "loading"]
    /\ me = [b \in Browsers |-> None]
    /\ acts = [b \in Browsers |-> 0]
    /\ posted = {}
    /\ call = [c \in Comets |-> Idle]
    /\ inbox = {}
    /\ work = [l \in Loops |-> Free]
    /\ crashes = 0
    /\ user_infos = {}
    /\ sessions = {}
    /\ told = {}

Respond(c) == RespondForm(c) \/ RespondHello(c) \/ RespondRefuse(c)

Serve(l) ==
    \/ Receive(l)
    \/ RegisterSelect(l)
    \/ RegisterInsert(l)
    \/ LoginVerify(l)
    \/ SetCookie(l)
    \/ VerifyCookie(l)
    \/ VerifyUser(l)

User(b) ==
    \/ \E p \in {"index", "login", "chat"} : Visit(b, p)
    \/ \E input \in Inputs : Submit(b, input)

Next ==
    \/ \E b \in Browsers : User(b)
    \/ \E c \in Comets, p \in posted : Forward(c, p)
    \/ \E c \in Comets : GiveUp(c) \/ Respond(c)
    \/ \E l \in Loops : Serve(l)
    \/ \E s \in sessions : Expire(s)
    \/ Crash

Spec == Init /\ [][Next]_vars

(* A comet that waits is answered or gives up, then it responds; a comet    *)
(* that is free serves who waits.  Nothing is assumed of users and logic.   *)
Fairness ==
    /\ \A c \in Comets : WF_vars(GiveUp(c)) /\ WF_vars(Respond(c))
    /\ \A b \in Browsers :
          SF_vars(\E c \in Comets, p \in posted : p.req[1] = b /\ Forward(c, p))

FairSpec == Spec /\ Fairness

-----------------------------------------------------------------------------
(* Properties *)

Emails == {i.email : i \in Inputs}
Posts == [req : Requests, op : {"register", "login", "verify"}, input : Inputs, sid : Sids]
Answers == {"ok", "error", "", "EMAIL_EXISTS", "USERNAME_EXISTS", "LOGIN_FAILED"}

TypeOK ==
    /\ page \in [Browsers -> {"index", "login", "chat"}]
    /\ hasAuth \in [Browsers -> BOOLEAN]
    /\ cookie \in [Browsers -> Sids]
    /\ view \in [Browsers -> {"loading", "silent", "chat"}]
    /\ me \in [Browsers -> Users \cup {None}]
    /\ acts \in [Browsers -> Nat]
    /\ \A b \in Browsers : acts[b] <= MaxActs[b]
    /\ posted \subseteq Posts
    /\ call \in [Comets -> [task : Tasks \cup {None}, answer : Answers \cup {"none"},
                            sid : Sids, user : Users \cup {None}]]
    /\ inbox \subseteq Tasks
    /\ work \in [Loops -> [task : Tasks \cup {None},
                           pc : {"free", "register", "insert", "login", "cookie",
                                 "verify", "user"},
                           email : Emails \cup {None}]]
    /\ crashes \in 0..MaxCrashes
    /\ user_infos \subseteq Users
    /\ sessions \subseteq [sid : Requests, email : Emails]
    /\ told \subseteq [req : Requests, op : {"register", "login"}, input : Inputs,
                       answer : Answers]

(* Who is told that an account was created has it: the row with exactly     *)
(* what was typed was inserted for that request.  The check for an existing *)
(* name and the INSERT are two statements, other requests may come between  *)
(* them, the INSERT may fail, and answers may come late.                    *)
RegisteredIsMine ==
    \A t \in told :
        (t.op = "register" /\ t.answer = "ok") => [by |-> t.req, input |-> t.input] \in user_infos

(* Who is told that a name or an e-mail is in use is told the truth.        *)
InUseIsTrue ==
    \A t \in told :
        /\ t.answer = "EMAIL_EXISTS" => \E u \in user_infos : u.input.email = t.input.email
        /\ t.answer = "USERNAME_EXISTS" =>
              \E u \in user_infos : u.input.username = t.input.username

(* A session belongs to an account: whatever crashes, a sid in Redis names  *)
(* the e-mail of a row in MySQL, so that a valid sid is never refused for   *)
(* want of its user.                                                        *)
SessionHasAccount ==
    \A s \in sessions : \E u \in user_infos : Same(u.input.email, s.email)

(* The chat page shows the account this browser's user asked for: it was    *)
(* told "ok" for a form with that account's e-mail and password.  Answers   *)
(* that come after comet has given up, or after the user has gone on to     *)
(* another page, never put a browser into another's session.                *)
ShownIsMine ==
    \A b \in Browsers :
        me[b] # None =>
            \E t \in told :
                /\ t.req[1] = b
                /\ t.answer = "ok"
                /\ Same(t.input.email, me[b].input.email)
                /\ t.input.password = me[b].input.password

(* Once its user is done, a chat page does not stay undecided: it shows the *)
(* chat, is left without hello, or has gone to the login page; and the      *)
(* pages do not send each other round in circles for ever, because a        *)
(* refusal clears the flag that leads from login to chat.                   *)
PageSettles ==
    \A b \in Browsers : <>[]~(page[b] = "chat" /\ view[b] = "loading")
=============================================================================
