--------------------------- MODULE AccountsProofs ---------------------------
(* Theorems about Accounts, for any number of browsers, comets, event loops,  *)
(* forms, acts and crashes.                                                   *)
EXTENDS Accounts, TLAPS

Pages == {"index", "login", "chat"}

\* A request names a browser and one of its acts.
LEMMA RequestShape ==
    \A r \in Requests : r[1] \in Browsers /\ r[2] \in 1..MaxActs[r[1]]
BY DEF Requests

LEMMA RequestOf ==
    ASSUME NEW b \in Browsers, NEW n \in 1..MaxActs[b]
    PROVE  <<b, n>> \in Requests
BY DEF Requests

LEMMA SidTypes == NoSid \in Sids /\ EmptySid \in Sids /\ Requests \subseteq Sids
BY DEF Sids

-----------------------------------------------------------------------------
(* Type correctness *)

LEMMA InitTypeOK == Init => TypeOK
BY AccountsAssumption, SidTypes DEF Init, TypeOK, Idle, Free

\* The next act of a user is a request, and so is the last if there was one.
LEMMA NextActTyped ==
    ASSUME TypeOK, NEW b \in Browsers, acts[b] < MaxActs[b]
    PROVE  /\ acts[b] + 1 \in 1..MaxActs[b]
           /\ [acts EXCEPT ![b] = @ + 1] \in [Browsers -> Nat]
           /\ \A c \in Browsers : [acts EXCEPT ![b] = @ + 1][c] <= MaxActs[c]
BY AccountsAssumption DEF TypeOK

LEMMA SocketTyped ==
    ASSUME NEW b \in Browsers, NEW n \in 1..MaxActs[b], NEW sid \in Sids
    PROVE  Socket(b, n, sid) \in Posts
<1>1. (CHOOSE i \in Inputs : TRUE) \in Inputs BY AccountsAssumption
<1> QED BY <1>1, RequestOf DEF Socket, Posts

LEMMA LoadTyped ==
    ASSUME TypeOK, NEW b \in Browsers, NEW p \in Pages, NEW auth \in BOOLEAN,
           NEW sid \in Sids, NEW n \in 1..MaxActs[b], Load(b, p, auth, sid, n)
    PROVE  /\ page' \in [Browsers -> Pages]
           /\ view' \in [Browsers -> {"loading", "silent", "chat"}]
           /\ me' \in [Browsers -> Users \cup {None}]
           /\ posted' \subseteq Posts
<1>1. Landing(p, auth) \in Pages BY DEF Landing, Pages
<1>2. Socket(b, n, sid) \in Posts BY SocketTyped
<1> QED BY <1>1, <1>2 DEF Load, TypeOK, Pages

LEMMA VisitTyped ==
    ASSUME TypeOK, NEW b \in Browsers, NEW p \in Pages, Visit(b, p)
    PROVE  TypeOK'
<1>1. acts[b] + 1 \in 1..MaxActs[b] BY NextActTyped DEF Visit
<1>2. acts' \in [Browsers -> Nat] /\ \A c \in Browsers : acts'[c] <= MaxActs[c]
  BY NextActTyped DEF Visit
<1>3. hasAuth[b] \in BOOLEAN /\ cookie[b] \in Sids BY DEF TypeOK
<1>4. Load(b, p, hasAuth[b], cookie[b], acts[b] + 1) BY DEF Visit
<1>5. /\ page' \in [Browsers -> Pages]
      /\ view' \in [Browsers -> {"loading", "silent", "chat"}]
      /\ me' \in [Browsers -> Users \cup {None}]
      /\ posted' \subseteq Posts
  BY <1>1, <1>3, <1>4, LoadTyped
<1> QED BY <1>2, <1>5 DEF Visit, TypeOK, Pages

LEMMA SubmitTyped ==
    ASSUME TypeOK, NEW b \in Browsers, NEW input \in Inputs, Submit(b, input)
    PROVE  TypeOK'
<1>1. <<b, acts[b] + 1>> \in Requests BY NextActTyped, RequestOf DEF Submit
<1>2. acts' \in [Browsers -> Nat] /\ \A c \in Browsers : acts'[c] <= MaxActs[c]
  BY NextActTyped DEF Submit
<1>3. posted' \subseteq Posts
  BY <1>1, SidTypes DEF Submit, Form, Posts, TypeOK
<1> QED BY <1>2, <1>3 DEF Submit, TypeOK

LEMMA ForwardTyped ==
    ASSUME TypeOK, NEW c \in Comets, NEW p \in posted, Forward(c, p)
    PROVE  TypeOK'
<1> DEFINE task == [req |-> p.req, op |-> p.op, input |-> p.input, sid |-> p.sid,
                    comet |-> c]
           refused == task.op = "verify" /\ task.sid \in {NoSid, EmptySid}
<1>1. task \in Tasks BY DEF TypeOK, Posts, Tasks
<1>2. /\ call' = [call EXCEPT ![c] =
                     [task |-> task, answer |-> IF refused THEN "error" ELSE "none",
                      sid |-> NoSid, user |-> None]]
      /\ inbox' = IF refused THEN inbox ELSE inbox \cup {task}
      /\ posted' = posted \ {p}
  BY DEF Forward
<1> HIDE DEF task, refused
<1>3. call' \in [Comets -> [task : Tasks \cup {None}, answer : Answers \cup {"none"},
                            sid : Sids, user : Users \cup {None}]]
  BY <1>1, <1>2, SidTypes DEF TypeOK, Answers
<1>4. inbox' \subseteq Tasks /\ posted' \subseteq Posts BY <1>1, <1>2 DEF TypeOK
<1> QED BY <1>3, <1>4 DEF Forward, TypeOK

LEMMA GiveUpTyped ==
    ASSUME TypeOK, NEW c \in Comets, GiveUp(c)
    PROVE  TypeOK'
<1>1. call' \in [Comets -> [task : Tasks \cup {None}, answer : Answers \cup {"none"},
                            sid : Sids, user : Users \cup {None}]]
  <2> DEFINE r == [call[c] EXCEPT !.answer = "error"]
  <2>0. call[c] \in [task : Tasks \cup {None}, answer : Answers \cup {"none"},
                     sid : Sids, user : Users \cup {None}]
    BY DEF TypeOK
  <2>1. r \in [task : Tasks \cup {None}, answer : Answers \cup {"none"},
               sid : Sids, user : Users \cup {None}]
    <3>1. "error" \in Answers BY DEF Answers
    <3> QED BY <2>0, <3>1
  <2>2. call' = [call EXCEPT ![c] = r] BY DEF GiveUp
  <2> QED BY <2>1, <2>2 DEF TypeOK
<1> QED BY <1>1 DEF GiveUp, TypeOK, browserVars

LEMMA IdleTyped ==
    Idle \in [task : Tasks \cup {None}, answer : Answers \cup {"none"},
              sid : Sids, user : Users \cup {None}]
BY SidTypes DEF Idle

\* The task of a call that answers something.
LEMMA CallTask ==
    ASSUME TypeOK, NEW c \in Comets, call[c].task # None
    PROVE  /\ call[c].task \in Tasks
           /\ call[c].task.req \in Requests
           /\ call[c].task.req[1] \in Browsers
           /\ call[c].task.req[2] \in 1..MaxActs[call[c].task.req[1]]
           /\ call[c].task.input \in Inputs
           /\ call[c].sid \in Sids
           /\ call[c].user \in Users \cup {None}
<1>1. call[c].task \in Tasks /\ call[c].sid \in Sids /\ call[c].user \in Users \cup {None}
  BY DEF TypeOK
<1>2. call[c].task.req \in Requests /\ call[c].task.input \in Inputs BY <1>1 DEF Tasks
<1> QED BY <1>1, <1>2, RequestShape

LEMMA RespondFormTyped ==
    ASSUME TypeOK, NEW c \in Comets, RespondForm(c)
    PROVE  TypeOK'
<1> DEFINE task == call[c].task
           b == task.req[1]
<1>0. /\ task # None /\ task.op \in {"register", "login"} /\ call[c].answer # "none"
      /\ call' = [call EXCEPT ![c] = Idle]
      /\ inbox' = inbox /\ work' = work /\ crashes' = crashes
      /\ user_infos' = user_infos /\ sessions' = sessions
  BY DEF RespondForm
<1>1. /\ b \in Browsers /\ task.req[2] \in 1..MaxActs[b] /\ task.req \in Requests
      /\ task.input \in Inputs /\ call[c].sid \in Sids
  BY <1>0, CallTask
<1>2. call' \in [Comets -> [task : Tasks \cup {None}, answer : Answers \cup {"none"},
                            sid : Sids, user : Users \cup {None}]]
  BY <1>0, IdleTyped DEF TypeOK
<1>3. CASE ~Current(task)
  <2>1. UNCHANGED <<browserVars, told>> BY <1>3 DEF RespondForm
  <2> QED BY <1>0, <1>2, <2>1 DEF TypeOK, browserVars
<1>4. CASE Current(task)
  <2>1. call[c].answer \in Answers BY <1>0 DEF TypeOK
  <2>2. told' = told \cup {[req |-> task.req, op |-> task.op, input |-> task.input,
                            answer |-> call[c].answer]}
    BY <1>4 DEF RespondForm
  <2>3. told' \subseteq [req : Requests, op : {"register", "login"}, input : Inputs,
                         answer : Answers]
    BY <1>0, <1>1, <2>1, <2>2 DEF TypeOK
  <2>4. acts' = acts BY <1>4 DEF RespondForm
  <2>5. CASE call[c].answer # "ok"
    <3>1. UNCHANGED <<page, hasAuth, cookie, view, me, posted>> BY <1>4, <2>5 DEF RespondForm
    <3> QED BY <1>0, <1>2, <2>3, <2>4, <3>1 DEF TypeOK
  <2>6. CASE call[c].answer = "ok"
    <3> DEFINE p == IF task.op = "login" THEN "chat" ELSE "login"
               auth == hasAuth'[b]
    <3>1. /\ cookie' = [cookie EXCEPT ![b] = call[c].sid]
          /\ hasAuth' = [hasAuth EXCEPT ![b] = @ \/ task.op = "login"]
          /\ Load(b, p, auth, call[c].sid, acts[b])
      BY <1>4, <2>6 DEF RespondForm
    <3>2. cookie' \in [Browsers -> Sids] BY <1>1, <3>1 DEF TypeOK
    <3>3. hasAuth' \in [Browsers -> BOOLEAN]
      <4>1. (hasAuth[b] \/ task.op = "login") \in BOOLEAN OBVIOUS
      <4> QED BY <3>1, <4>1 DEF TypeOK
    <3>4. auth \in BOOLEAN BY <1>1, <3>3
    <3>5. acts[b] \in 1..MaxActs[b] BY <1>1, <1>4 DEF Current
    <3>6. p \in Pages BY DEF Pages
    <3> HIDE DEF p, auth
    <3>7. /\ page' \in [Browsers -> Pages]
          /\ view' \in [Browsers -> {"loading", "silent", "chat"}]
          /\ me' \in [Browsers -> Users \cup {None}]
          /\ posted' \subseteq Posts
      BY <1>1, <3>1, <3>4, <3>5, <3>6, LoadTyped
    <3> QED BY <1>0, <1>2, <2>3, <2>4, <3>2, <3>3, <3>7 DEF TypeOK, Pages
  <2> QED BY <2>5, <2>6
<1> QED BY <1>3, <1>4

LEMMA RespondRefuseTyped ==
    ASSUME TypeOK, NEW c \in Comets, RespondRefuse(c)
    PROVE  TypeOK'
<1> DEFINE task == call[c].task
           b == task.req[1]
<1>0. /\ task # None
      /\ call' = [call EXCEPT ![c] = Idle]
      /\ inbox' = inbox /\ work' = work /\ crashes' = crashes
      /\ user_infos' = user_infos /\ sessions' = sessions /\ told' = told
  BY DEF RespondRefuse
<1>1. b \in Browsers /\ task.req[2] \in 1..MaxActs[b]
  BY <1>0, CallTask
<1>2. call' \in [Comets -> [task : Tasks \cup {None}, answer : Answers \cup {"none"},
                            sid : Sids, user : Users \cup {None}]]
  BY <1>0, IdleTyped DEF TypeOK
<1>3. CASE ~Current(task)
  <2>1. UNCHANGED browserVars BY <1>3 DEF RespondRefuse
  <2> QED BY <1>0, <1>2, <2>1 DEF TypeOK, browserVars
<1>4. CASE Current(task)
  <2>1. /\ hasAuth' = [hasAuth EXCEPT ![b] = FALSE]
        /\ Load(b, "login", FALSE, cookie[b], acts[b])
        /\ acts' = acts /\ cookie' = cookie
    BY <1>4 DEF RespondRefuse
  <2>2. acts[b] \in 1..MaxActs[b] BY <1>1, <1>4 DEF Current
  <2>3. "login" \in Pages /\ cookie[b] \in Sids BY <1>1 DEF Pages, TypeOK
  <2>4. /\ page' \in [Browsers -> Pages]
        /\ view' \in [Browsers -> {"loading", "silent", "chat"}]
        /\ me' \in [Browsers -> Users \cup {None}]
        /\ posted' \subseteq Posts
    BY <1>1, <2>1, <2>2, <2>3, LoadTyped
  <2>5. hasAuth' \in [Browsers -> BOOLEAN] BY <2>1 DEF TypeOK
  <2> QED BY <1>0, <1>2, <2>1, <2>4, <2>5 DEF TypeOK, Pages
<1> QED BY <1>3, <1>4

LEMMA RespondHelloTyped ==
    ASSUME TypeOK, NEW c \in Comets, RespondHello(c)
    PROVE  TypeOK'
<1>1. call' \in [Comets -> [task : Tasks \cup {None}, answer : Answers \cup {"none"},
                            sid : Sids, user : Users \cup {None}]]
  BY IdleTyped DEF RespondHello, TypeOK
<1>2. call[c].user \in Users \cup {None} BY CallTask DEF RespondHello
<1>3. view' \in [Browsers -> {"loading", "silent", "chat"}] BY DEF RespondHello, TypeOK
<1>4. me' \in [Browsers -> Users \cup {None}] BY <1>2 DEF RespondHello, TypeOK
<1> QED BY <1>1, <1>3, <1>4 DEF RespondHello, TypeOK

Works == [task : Tasks \cup {None},
          pc : {"free", "register", "insert", "login", "cookie", "verify", "user"},
          email : Emails \cup {None}]

LEMMA ReplyTyped ==
    ASSUME TypeOK, NEW l \in Loops, work[l].task # None, NEW answer \in Answers,
           NEW sid \in Sids, NEW user \in Users \cup {None}, Reply(l, answer, sid, user)
    PROVE  /\ call' \in [Comets -> [task : Tasks \cup {None}, answer : Answers \cup {"none"},
                                    sid : Sids, user : Users \cup {None}]]
           /\ work' \in [Loops -> Works]
<1>1. work[l].task \in Tasks BY DEF TypeOK
<1>2. work[l].task.comet \in Comets BY <1>1 DEF Tasks
<1>3. Free \in Works BY DEF Free, Works
<1> QED BY <1>1, <1>2, <1>3 DEF Reply, TypeOK, Works

\* What an event loop works on fits where it is.
StageOK ==
    \A l \in Loops :
        /\ work[l].pc # "free" => work[l].task # None
        /\ work[l].pc \in {"register", "insert"} => work[l].task.op = "register"
        /\ work[l].pc = "login" => work[l].task.op = "login"
        /\ work[l].pc = "cookie" => work[l].task.op \in {"register", "login"}
        /\ work[l].pc \in {"verify", "user"} => work[l].task.op = "verify"

TypeInv == TypeOK /\ StageOK

\* A step of a loop that only moves it on.
LEMMA WorkMoves ==
    ASSUME TypeInv, NEW l \in Loops, NEW w \in Works, work' = [work EXCEPT ![l] = w],
           /\ w.pc # "free" => w.task # None
           /\ w.pc \in {"register", "insert"} => w.task.op = "register"
           /\ w.pc = "login" => w.task.op = "login"
           /\ w.pc = "cookie" => w.task.op \in {"register", "login"}
           /\ w.pc \in {"verify", "user"} => w.task.op = "verify"
    PROVE  work' \in [Loops -> Works] /\ StageOK'
BY DEF TypeInv, TypeOK, StageOK, Works

LEMMA ReplyStages ==
    ASSUME TypeInv, NEW l \in Loops, NEW answer, NEW sid, NEW user,
           Reply(l, answer, sid, user)
    PROVE  StageOK'
BY DEF TypeInv, TypeOK, StageOK, Reply, Free

\* The record a loop works on, with another pc.
LEMMA MovedOn ==
    ASSUME TypeInv, NEW l \in Loops, NEW pc \in {"insert", "cookie"}
    PROVE  /\ [work[l] EXCEPT !.pc = pc] \in Works
           /\ [work[l] EXCEPT !.pc = pc].pc = pc
           /\ [work[l] EXCEPT !.pc = pc].task = work[l].task
           /\ [work EXCEPT ![l].pc = pc] = [work EXCEPT ![l] = [work[l] EXCEPT !.pc = pc]]
BY DEF TypeInv, TypeOK, Works

LEMMA ServeTyped ==
    ASSUME TypeInv, NEW l \in Loops, Serve(l)
    PROVE  TypeInv'
<1> USE SidTypes DEF Answers
<1>1. CASE Receive(l)
  <2>1. PICK task \in inbox :
           /\ inbox' = inbox \ {task}
           /\ work' = [work EXCEPT ![l] = [task |-> task, pc |-> task.op, email |-> None]]
    BY <1>1 DEF Receive
  <2>2. task \in Tasks BY DEF TypeInv, TypeOK
  <2>3. task # None /\ task.op \in {"register", "login", "verify"}
    BY <2>2, AccountsAssumption DEF Tasks
  <2>4. [task |-> task, pc |-> task.op, email |-> None] \in Works BY <2>2, <2>3 DEF Works
  <2>5. work' \in [Loops -> Works] /\ StageOK' BY <2>1, <2>3, <2>4, WorkMoves
  <2> QED BY <1>1, <2>1, <2>5 DEF Receive, TypeInv, TypeOK, Works, browserVars
<1>2. CASE RegisterSelect(l)
  <2>0. work[l].task # None /\ work[l].task.op = "register"
    BY <1>2 DEF RegisterSelect, TypeInv, StageOK
  <2>1. CASE /\ work' = [work EXCEPT ![l].pc = "insert"]
             /\ UNCHANGED call
    <3>1. work' \in [Loops -> Works] /\ StageOK' BY <2>0, <2>1, MovedOn, WorkMoves
    <3> QED BY <1>2, <2>1, <3>1 DEF RegisterSelect, TypeInv, TypeOK, Works, browserVars
  <2>2. CASE \E answer \in Answers : Reply(l, answer, NoSid, None)
    <3>1. PICK answer \in Answers : Reply(l, answer, NoSid, None) BY <2>2
    <3>2. TypeOK BY DEF TypeInv
    <3>3. StageOK' BY <3>1, ReplyStages
    <3> QED BY <1>2, <2>0, <3>1, <3>2, <3>3, ReplyTyped
            DEF RegisterSelect, TypeInv, TypeOK, Works, browserVars
  <2>3. ASSUME NEW row \in Matches(work[l].task.input),
               Reply(l, ErrorId(row, work[l].task.input), NoSid, None)
        PROVE  \E answer \in Answers : Reply(l, answer, NoSid, None)
    <3>1. ErrorId(row, work[l].task.input) \in Answers BY DEF ErrorId
    <3> QED BY <2>3, <3>1
  <2> QED BY <1>2, <2>1, <2>2, <2>3 DEF RegisterSelect
<1>3. CASE RegisterInsert(l)
  <2>0. work[l].task # None /\ work[l].task.op = "register"
    BY <1>3 DEF RegisterInsert, TypeInv, StageOK
  <2>1. CASE /\ user_infos' = user_infos \cup
                    {[by |-> work[l].task.req, input |-> work[l].task.input]}
             /\ work' = [work EXCEPT ![l].pc = "cookie"]
             /\ UNCHANGED call
    <3>1. work' \in [Loops -> Works] /\ StageOK' BY <2>0, <2>1, MovedOn, WorkMoves
    <3>2. work[l].task \in Tasks BY <2>0 DEF TypeInv, TypeOK
    <3>3. user_infos' \subseteq Users
      <4>1. [by |-> work[l].task.req, input |-> work[l].task.input] \in Users
        BY <3>2 DEF Users, Tasks
      <4> QED BY <2>1, <4>1 DEF TypeInv, TypeOK
    <3> QED BY <1>3, <2>1, <3>1, <3>3 DEF RegisterInsert, TypeInv, TypeOK, Works, browserVars
  <2>2. CASE Reply(l, "", NoSid, None) /\ UNCHANGED user_infos
    <3>1. TypeOK BY DEF TypeInv
    <3>2. StageOK' BY <2>2, ReplyStages
    <3> QED BY <1>3, <2>0, <2>2, <3>1, <3>2, ReplyTyped
            DEF RegisterInsert, TypeInv, TypeOK, Works, browserVars
  <2> QED BY <1>3, <2>1, <2>2 DEF RegisterInsert
<1>4. CASE LoginVerify(l)
  <2>0. work[l].task # None /\ work[l].task.op = "login"
    BY <1>4 DEF LoginVerify, TypeInv, StageOK
  <2>1. CASE work' = [work EXCEPT ![l].pc = "cookie"] /\ UNCHANGED call
    <3>1. work' \in [Loops -> Works] /\ StageOK' BY <2>0, <2>1, MovedOn, WorkMoves
    <3> QED BY <1>4, <2>1, <3>1 DEF LoginVerify, TypeInv, TypeOK, Works, browserVars
  <2>2. CASE Reply(l, "LOGIN_FAILED", NoSid, None)
    <3>1. TypeOK BY DEF TypeInv
    <3>2. StageOK' BY <2>2, ReplyStages
    <3> QED BY <1>4, <2>0, <2>2, <3>1, <3>2, ReplyTyped
            DEF LoginVerify, TypeInv, TypeOK, Works, browserVars
  <2> QED BY <1>4, <2>1, <2>2 DEF LoginVerify
<1>5. CASE SetCookie(l)
  <2>0. work[l].task # None BY <1>5 DEF SetCookie, TypeInv, StageOK
  <2>1. work[l].task \in Tasks BY <2>0 DEF TypeInv, TypeOK
  <2>2. work[l].task.req \in Requests /\ work[l].task.input.email \in Emails
    BY <2>1 DEF Tasks, Emails
  <2>3. \E sid \in Sids : Reply(l, "ok", sid, None) BY <1>5, <2>2 DEF SetCookie
  <2>4. TypeOK BY DEF TypeInv
  <2>5. StageOK' BY <2>3, ReplyStages
  <2>6. sessions' \subseteq [sid : Requests, email : Emails]
    <3>1. \/ sessions' = sessions
          \/ sessions' = sessions \cup {[sid |-> work[l].task.req,
                                         email |-> work[l].task.input.email]}
      BY <1>5 DEF SetCookie
    <3>2. [sid |-> work[l].task.req, email |-> work[l].task.input.email]
              \in [sid : Requests, email : Emails]
      BY <2>2
    <3> QED BY <3>1, <3>2 DEF TypeInv, TypeOK
  <2>7. /\ call' \in [Comets -> [task : Tasks \cup {None}, answer : Answers \cup {"none"},
                                 sid : Sids, user : Users \cup {None}]]
        /\ work' \in [Loops -> Works]
    BY <2>0, <2>3, <2>4, ReplyTyped
  <2> QED BY <1>5, <2>5, <2>6, <2>7 DEF SetCookie, TypeInv, TypeOK, Works, browserVars
<1>6. CASE VerifyCookie(l)
  <2>0. work[l].task # None /\ work[l].task.op = "verify"
    BY <1>6 DEF VerifyCookie, TypeInv, StageOK
  <2>1. CASE Reply(l, "error", NoSid, None)
    <3>1. TypeOK BY DEF TypeInv
    <3>2. StageOK' BY <2>1, ReplyStages
    <3> QED BY <1>6, <2>0, <2>1, <3>1, <3>2, ReplyTyped
            DEF VerifyCookie, TypeInv, TypeOK, Works, browserVars
  <2>2. ASSUME NEW s \in sessions,
               work' = [work EXCEPT ![l] = [task |-> work[l].task, pc |-> "user",
                                            email |-> s.email]],
               UNCHANGED call
        PROVE  TypeInv'
    <3>1. s.email \in Emails BY DEF TypeInv, TypeOK
    <3>2. work[l].task \in Tasks BY <2>0 DEF TypeInv, TypeOK
    <3>3. [task |-> work[l].task, pc |-> "user", email |-> s.email] \in Works
      BY <3>1, <3>2 DEF Works
    <3>4. work' \in [Loops -> Works] /\ StageOK' BY <2>0, <2>2, <3>1, <3>3, WorkMoves
    <3> QED BY <1>6, <2>2, <3>4 DEF VerifyCookie, TypeInv, TypeOK, Works, browserVars
  <2> QED BY <1>6, <2>1, <2>2 DEF VerifyCookie
<1>7. CASE VerifyUser(l)
  <2>0. work[l].task # None BY <1>7 DEF VerifyUser, TypeInv, StageOK
  <2>1. \E answer \in Answers, user \in Users \cup {None} : Reply(l, answer, NoSid, user)
    BY <1>7 DEF VerifyUser, TypeInv, TypeOK
  <2>2. TypeOK BY DEF TypeInv
  <2>3. StageOK' BY <2>1, ReplyStages
  <2>4. /\ call' \in [Comets -> [task : Tasks \cup {None}, answer : Answers \cup {"none"},
                                 sid : Sids, user : Users \cup {None}]]
        /\ work' \in [Loops -> Works]
    BY <2>0, <2>1, <2>2, ReplyTyped
  <2> QED BY <1>7, <2>3, <2>4 DEF VerifyUser, TypeInv, TypeOK, Works, browserVars
<1> QED BY <1>1, <1>2, <1>3, <1>4, <1>5, <1>6, <1>7 DEF Serve

\* The actions that leave work alone keep its stages.
LEMMA StagesStay ==
    ASSUME TypeInv, work' = work
    PROVE  StageOK'
BY DEF TypeInv, StageOK

LEMMA NextTyped ==
    ASSUME TypeInv, [Next]_vars
    PROVE  TypeInv'
<1>0. TypeOK BY DEF TypeInv
<1>1. ASSUME NEW b \in Browsers, User(b) PROVE TypeInv'
  <2>1. ASSUME NEW p \in {"index", "login", "chat"}, Visit(b, p) PROVE TypeInv'
    BY <1>0, <2>1, VisitTyped, StagesStay DEF Visit, TypeInv, Pages
  <2>2. ASSUME NEW input \in Inputs, Submit(b, input) PROVE TypeInv'
    BY <1>0, <2>2, SubmitTyped, StagesStay DEF Submit, TypeInv
  <2> QED BY <1>1, <2>1, <2>2 DEF User
<1>2. ASSUME NEW c \in Comets, NEW p \in posted, Forward(c, p) PROVE TypeInv'
  BY <1>0, <1>2, ForwardTyped, StagesStay DEF Forward, TypeInv
<1>3. ASSUME NEW c \in Comets, GiveUp(c) PROVE TypeInv'
  BY <1>0, <1>3, GiveUpTyped, StagesStay DEF GiveUp, TypeInv
<1>4. ASSUME NEW c \in Comets, Respond(c) PROVE TypeInv'
  <2>1. work' = work BY <1>4 DEF Respond, RespondForm, RespondHello, RespondRefuse
  <2>2. TypeOK'
    BY <1>0, <1>4, RespondFormTyped, RespondHelloTyped, RespondRefuseTyped DEF Respond
  <2> QED BY <2>1, <2>2, StagesStay DEF TypeInv
<1>5. ASSUME NEW l \in Loops, Serve(l) PROVE TypeInv'
  BY <1>5, ServeTyped
<1>6. ASSUME NEW s \in sessions, Expire(s) PROVE TypeInv'
  BY <1>0, <1>6, StagesStay DEF Expire, TypeInv, TypeOK, browserVars
<1>7. CASE Crash
  <2>1. work' \in [Loops -> Works] /\ StageOK' BY <1>7 DEF Crash, Free, Works, StageOK
  <2>2. crashes' \in 0..MaxCrashes BY <1>0, <1>7, AccountsAssumption DEF Crash, TypeOK
  <2> QED BY <1>0, <1>7, <2>1, <2>2 DEF Crash, TypeInv, TypeOK, Works, browserVars
<1>8. CASE UNCHANGED vars
  <2>1. StageOK' BY <1>8, StagesStay DEF vars
  <2> QED BY <1>0, <1>8, <2>1 DEF TypeInv, TypeOK, vars
<1> QED BY <1>1, <1>2, <1>3, <1>4, <1>5, <1>6, <1>7, <1>8 DEF Next

LEMMA InitTypeInv == Init => TypeInv
BY InitTypeOK DEF Init, TypeInv, StageOK, Free

\* Every variable keeps its type, for any constants.
THEOREM TypeCorrect == Spec => []TypeOK
<1>1. Init => TypeInv BY InitTypeInv
<1>2. TypeInv /\ [Next]_vars => TypeInv' BY NextTyped
<1>3. TypeInv => TypeOK BY DEF TypeInv
<1> QED BY <1>1, <1>2, <1>3, PTL DEF Spec

-----------------------------------------------------------------------------
(* Where a form goes.  A form keeps its input from the page to logic and back *)
(* to the page, and no other form has its number.                             *)

IsForm(x) == x.op \in {"register", "login"}

\* The form with number r and input i is known somewhere.
Flight(P, X, W, C, T, r, i) ==
    \/ \E x \in P \cup X : IsForm(x) /\ x.req = r /\ x.input = i
    \/ \E l \in Loops : /\ W[l].task # None
                        /\ IsForm(W[l].task)
                        /\ W[l].task.req = r
                        /\ W[l].task.input = i
    \/ \E c \in Comets : /\ C[c].task # None
                         /\ IsForm(C[c].task)
                         /\ C[c].task.req = r
                         /\ C[c].task.input = i
    \/ \E t \in T : t.req = r /\ t.input = i

InFlight(r, i) == Flight(posted, inbox, work, call, told, r, i)

FlightInv ==
    /\ \A r \in Requests, i, j \in Inputs : InFlight(r, i) /\ InFlight(r, j) => i = j
    /\ \A r \in Requests, i \in Inputs : InFlight(r, i) => r[2] <= acts[r[1]]
    /\ \A s \in sessions : s.sid[2] <= acts[s.sid[1]]
    /\ \A s \in sessions, i \in Inputs : InFlight(s.sid, i) => i.email = s.email

\* A step that makes no form known, and adds no session but one for a form that
\* is known.
LEMMA FlightStays ==
    ASSUME TypeInv, TypeInv', FlightInv,
           \A b \in Browsers : acts[b] <= acts'[b],
           \A r \in Requests, i \in Inputs :
               Flight(posted', inbox', work', call', told', r, i) => InFlight(r, i),
           \A s \in sessions' : \/ s \in sessions
                                \/ \E i \in Inputs : InFlight(s.sid, i) /\ s.email = i.email
    PROVE  FlightInv'
<1>1. \A r \in Requests : r[1] \in Browsers /\ r[2] \in Nat
  <2>1. \A r \in Requests : r[1] \in Browsers /\ r[2] \in 1..MaxActs[r[1]] BY RequestShape
  <2> QED BY <2>1
<1>2. \A b \in Browsers : acts[b] \in Nat /\ acts'[b] \in Nat BY DEF TypeInv, TypeOK
<1>3. \A r \in Requests, i \in Inputs : InFlight(r, i)' => InFlight(r, i) BY DEF InFlight
<1>4. \A s \in sessions \cup sessions' : s.sid \in Requests BY DEF TypeInv, TypeOK
<1> HIDE DEF InFlight
<1>5. \A r \in Requests, i \in Inputs : InFlight(r, i)' => r[2] <= acts'[r[1]]
  BY <1>1, <1>2, <1>3 DEF FlightInv
<1>6. \A s \in sessions' : s.sid[2] <= acts'[s.sid[1]] BY <1>1, <1>2, <1>4 DEF FlightInv
<1>7. \A s \in sessions', i \in Inputs : InFlight(s.sid, i)' => i.email = s.email
  BY <1>3, <1>4 DEF FlightInv
<1>8. \A r \in Requests, i, j \in Inputs : InFlight(r, i)' /\ InFlight(r, j)' => i = j
  BY <1>3 DEF FlightInv
<1> QED BY <1>5, <1>6, <1>7, <1>8 DEF FlightInv

\* Loading a page makes at most a handshake known.
LEMMA LoadPosts ==
    ASSUME NEW b, NEW p, NEW auth, NEW sid, NEW n, Load(b, p, auth, sid, n)
    PROVE  \A x \in posted' : x \in posted \/ x = Socket(b, n, sid)
BY DEF Load

LEMMA SocketIsNoForm ==
    ASSUME NEW b, NEW n, NEW sid
    PROVE  ~IsForm(Socket(b, n, sid)) /\ Socket(b, n, sid).op = "verify"
           /\ Socket(b, n, sid).sid = sid /\ Socket(b, n, sid).req = <<b, n>>
BY DEF IsForm, Socket

\* Whatever has no new form in posted, inbox, work, call and told.
LEMMA FlightShrinks ==
    ASSUME \A x \in posted' \cup inbox' :
               IsForm(x) => \E y \in posted \cup inbox :
                                IsForm(y) /\ y.req = x.req /\ y.input = x.input,
           \A l \in Loops : work'[l].task # None =>
               \/ work'[l].task = work[l].task
               \/ work'[l].task \in inbox,
           \A c \in Comets : call'[c].task # None =>
               \/ call'[c].task = call[c].task
               \/ \E y \in posted : /\ y.op = call'[c].task.op
                                    /\ y.req = call'[c].task.req
                                    /\ y.input = call'[c].task.input,
           \A t \in told' :
               \/ t \in told
               \/ \E c \in Comets : /\ call[c].task # None
                                    /\ IsForm(call[c].task)
                                    /\ call[c].task.req = t.req
                                    /\ call[c].task.input = t.input,
           NEW r, NEW i, Flight(posted', inbox', work', call', told', r, i)
    PROVE  InFlight(r, i)
BY DEF Flight, InFlight, IsForm

\* The two together.
LEMMA FlightStep ==
    ASSUME TypeInv, TypeInv', FlightInv,
           \A b \in Browsers : acts[b] <= acts'[b],
           \A x \in posted' \cup inbox' :
               IsForm(x) => \E y \in posted \cup inbox :
                                IsForm(y) /\ y.req = x.req /\ y.input = x.input,
           \A l \in Loops : work'[l].task # None =>
               \/ work'[l].task = work[l].task
               \/ work'[l].task \in inbox,
           \A c \in Comets : call'[c].task # None =>
               \/ call'[c].task = call[c].task
               \/ \E y \in posted : /\ y.op = call'[c].task.op
                                    /\ y.req = call'[c].task.req
                                    /\ y.input = call'[c].task.input,
           \A t \in told' :
               \/ t \in told
               \/ \E c \in Comets : /\ call[c].task # None
                                    /\ IsForm(call[c].task)
                                    /\ call[c].task.req = t.req
                                    /\ call[c].task.input = t.input,
           \A s \in sessions' : \/ s \in sessions
                                \/ \E i \in Inputs : InFlight(s.sid, i) /\ s.email = i.email
    PROVE  FlightInv'
<1>1. ASSUME NEW r \in Requests, NEW i \in Inputs,
             Flight(posted', inbox', work', call', told', r, i)
      PROVE  InFlight(r, i)
  BY <1>1, FlightShrinks
<1> QED BY <1>1, FlightStays

LEMMA ActsTyped == TypeInv => \A b \in Browsers : acts[b] \in Nat
BY DEF TypeInv, TypeOK

\* A page is loaded, for the last act or the next: no form is posted.
LEMMA LoadForms ==
    ASSUME NEW b, NEW p, NEW auth, NEW sid, NEW n, Load(b, p, auth, sid, n),
           inbox' = inbox
    PROVE  \A x \in posted' \cup inbox' :
               IsForm(x) => \E y \in posted \cup inbox :
                                IsForm(y) /\ y.req = x.req /\ y.input = x.input
BY LoadPosts, SocketIsNoForm

\* A loop replies: call keeps its tasks, the loop forgets its own.
LEMMA ReplyTasks ==
    ASSUME TypeInv, NEW l \in Loops, NEW answer, NEW sid, NEW user,
           Reply(l, answer, sid, user)
    PROVE  /\ \A k \in Loops : work'[k].task # None => work'[k] = work[k]
           /\ \A c \in Comets : call'[c].task = call[c].task
           /\ \A c \in Comets :
                 \/ call'[c] = call[c]
                 \/ call'[c] = [task |-> work[l].task, answer |-> answer, sid |-> sid,
                                user |-> user]
BY DEF TypeInv, TypeOK, Reply, Free

LEMMA SubmitFlight ==
    ASSUME TypeInv, TypeInv', FlightInv, NEW b \in Browsers, NEW input \in Inputs,
           Submit(b, input)
    PROVE  FlightInv'
<1> DEFINE n == <<b, acts[b] + 1>>
<1>0. /\ acts' = [acts EXCEPT ![b] = @ + 1]
      /\ inbox' = inbox /\ work' = work /\ call' = call /\ told' = told
      /\ sessions' = sessions
  BY DEF Submit
<1>1. \A x \in posted' : x \in posted \/ (x.req = n /\ x.input = input)
  BY DEF Submit, Form
<1>2. ASSUME NEW r \in Requests, NEW i \in Inputs, InFlight(r, i)'
      PROVE  InFlight(r, i) \/ (r = n /\ i = input)
  <2> HIDE DEF n
  <2>1. Flight(posted', inbox, work, call, told, r, i) BY <1>0, <1>2 DEF InFlight
  <2>2. CASE \E x \in posted' \cup inbox : IsForm(x) /\ x.req = r /\ x.input = i
    BY <1>1, <2>2 DEF InFlight, Flight
  <2>3. CASE ~ \E x \in posted' \cup inbox : IsForm(x) /\ x.req = r /\ x.input = i
    BY <2>1, <2>3 DEF InFlight, Flight
  <2> QED BY <2>2, <2>3
<1>3. \A r \in Requests : r[1] \in Browsers /\ r[2] \in Nat
  <2>1. \A r \in Requests : r[1] \in Browsers /\ r[2] \in 1..MaxActs[r[1]] BY RequestShape
  <2> QED BY <2>1
<1>4. acts \in [Browsers -> Nat] BY DEF TypeInv, TypeOK
<1>5. n[1] = b /\ n[2] = acts[b] + 1 OBVIOUS
<1>6. \A s \in sessions : s.sid \in Requests BY DEF TypeInv, TypeOK
<1> HIDE DEF n, InFlight
<1>7. \A i \in Inputs : n \in Requests => ~InFlight(n, i)
  BY <1>4, <1>5 DEF FlightInv
<1>8. \A r \in Requests, i, j \in Inputs : InFlight(r, i)' /\ InFlight(r, j)' => i = j
  BY <1>2, <1>7 DEF FlightInv
<1>9. \A r \in Requests, i \in Inputs : InFlight(r, i)' => r[2] <= acts'[r[1]]
  BY <1>0, <1>2, <1>3, <1>4, <1>5 DEF FlightInv
<1>10. \A s \in sessions' : s.sid[2] <= acts'[s.sid[1]]
  BY <1>0, <1>3, <1>4, <1>6 DEF FlightInv
<1>11. \A s \in sessions', i \in Inputs : InFlight(s.sid, i)' => i.email = s.email
  <2>1. \A s \in sessions : s.sid # n BY <1>4, <1>5 DEF FlightInv
  <2> QED BY <1>0, <1>2, <1>6, <2>1 DEF FlightInv
<1> QED BY <1>8, <1>9, <1>10, <1>11 DEF FlightInv

LEMMA RespondFlight ==
    ASSUME TypeInv, TypeInv', FlightInv, NEW c \in Comets, Respond(c)
    PROVE  FlightInv'
<1>0. inbox' = inbox /\ work' = work /\ sessions' = sessions
  BY DEF Respond, RespondForm, RespondHello, RespondRefuse
<1>1. acts' = acts
  BY DEF Respond, RespondForm, RespondHello, RespondRefuse, browserVars
<1>2. \A b \in Browsers : acts[b] <= acts'[b] BY <1>1, ActsTyped
<1>3. \A k \in Comets : call'[k].task # None => call'[k].task = call[k].task
  <2>1. call' = [call EXCEPT ![c] = Idle]
    BY DEF Respond, RespondForm, RespondHello, RespondRefuse
  <2> QED BY <2>1 DEF TypeInv, TypeOK, Idle
<1>4. \A t \in told' :
         \/ t \in told
         \/ \E k \in Comets : /\ call[k].task # None
                              /\ IsForm(call[k].task)
                              /\ call[k].task.req = t.req
                              /\ call[k].task.input = t.input
  <2>1. CASE RespondForm(c) BY <2>1 DEF RespondForm, IsForm
  <2>2. CASE RespondHello(c) \/ RespondRefuse(c) BY <2>2 DEF RespondHello, RespondRefuse
  <2> QED BY <2>1, <2>2 DEF Respond
<1>5. \A x \in posted' \cup inbox' :
         IsForm(x) => \E y \in posted \cup inbox :
                          IsForm(y) /\ y.req = x.req /\ y.input = x.input
  <2> DEFINE NoNew == \A x \in posted' \cup inbox' :
                         IsForm(x) => \E y \in posted \cup inbox :
                                          IsForm(y) /\ y.req = x.req /\ y.input = x.input
  <2>1. ASSUME posted' = posted PROVE NoNew BY <1>0, <2>1
  <2>2. ASSUME NEW b, NEW p, NEW auth, NEW sid, NEW n, Load(b, p, auth, sid, n)
        PROVE  NoNew
    BY <1>0, <2>2, LoadForms
  <2>3. \/ posted' = posted
        \/ \E b, p, auth, sid, n : Load(b, p, auth, sid, n)
    <3>1. CASE RespondForm(c) BY <3>1 DEF RespondForm, browserVars
    <3>2. CASE RespondHello(c) BY <3>2 DEF RespondHello
    <3>3. CASE RespondRefuse(c) BY <3>3 DEF RespondRefuse, browserVars
    <3> QED BY <3>1, <3>2, <3>3 DEF Respond
  <2>4. NoNew
    <3> HIDE DEF NoNew
    <3> QED BY <2>1, <2>2, <2>3
  <2> QED BY <2>4
<1> QED BY <1>0, <1>2, <1>3, <1>4, <1>5, FlightStep

LEMMA ServeFlight ==
    ASSUME TypeInv, TypeInv', FlightInv, NEW l \in Loops, Serve(l)
    PROVE  FlightInv'
<1>0. posted' = posted /\ acts' = acts /\ told' = told /\ inbox' \subseteq inbox
  BY DEF Serve, Receive, RegisterSelect, RegisterInsert, LoginVerify, SetCookie,
         VerifyCookie, VerifyUser, browserVars
<1>1. \A b \in Browsers : acts[b] <= acts'[b] BY <1>0, ActsTyped
<1>2. /\ \A k \in Loops : work'[k].task # None =>
            work'[k].task = work[k].task \/ work'[k].task \in inbox
      /\ \A c \in Comets : call'[c].task = call[c].task
  <2>1. CASE \E answer, sid, user : Reply(l, answer, sid, user)
    BY <2>1, ReplyTasks
  <2>2. CASE Receive(l)
    BY <2>2 DEF Receive, TypeInv, TypeOK
  <2>3. CASE call' = call /\ \E pc : work' = [work EXCEPT ![l].pc = pc]
    BY <2>3 DEF TypeInv, TypeOK
  <2>4. CASE call' = call /\ \E pc, email :
               work' = [work EXCEPT ![l] = [task |-> work[l].task, pc |-> pc, email |-> email]]
    BY <2>4 DEF TypeInv, TypeOK
  <2>5. CASE RegisterSelect(l) BY <2>1, <2>3, <2>5 DEF RegisterSelect
  <2>6. CASE RegisterInsert(l) BY <2>1, <2>3, <2>6 DEF RegisterInsert
  <2>7. CASE LoginVerify(l) BY <2>1, <2>3, <2>7 DEF LoginVerify
  <2>8. CASE SetCookie(l) BY <2>1, <2>8 DEF SetCookie
  <2>9. CASE VerifyCookie(l) BY <2>1, <2>4, <2>9 DEF VerifyCookie
  <2>10. CASE VerifyUser(l) BY <2>1, <2>10 DEF VerifyUser
  <2> QED BY <2>2, <2>5, <2>6, <2>7, <2>8, <2>9, <2>10 DEF Serve
<1>3. \A s \in sessions' : \/ s \in sessions
                           \/ \E i \in Inputs : InFlight(s.sid, i) /\ s.email = i.email
  <2>1. CASE sessions' = sessions BY <2>1
  <2>2. CASE SetCookie(l)
    <3> DEFINE task == work[l].task
    <3>1. task # None /\ IsForm(task) BY <2>2 DEF SetCookie, TypeInv, StageOK, IsForm
    <3>2. task.input \in Inputs BY <3>1 DEF TypeInv, TypeOK, Tasks
    <3>3. InFlight(task.req, task.input) BY <3>1 DEF InFlight, Flight
    <3>4. \A s \in sessions' :
             s \in sessions \/ s = [sid |-> task.req, email |-> task.input.email]
      BY <2>2 DEF SetCookie
    <3> HIDE DEF task, InFlight
    <3> QED BY <3>2, <3>3, <3>4
  <2>3. sessions' = sessions \/ SetCookie(l)
    BY DEF Serve, Receive, RegisterSelect, RegisterInsert, LoginVerify, SetCookie,
           VerifyCookie, VerifyUser
  <2> QED BY <2>1, <2>2, <2>3
<1> HIDE DEF InFlight
<1>4. \A x \in posted' \cup inbox' :
         IsForm(x) => \E y \in posted \cup inbox :
                          IsForm(y) /\ y.req = x.req /\ y.input = x.input
  BY <1>0
<1>5. \A t \in told' : t \in told BY <1>0
<1> QED BY <1>1, <1>2, <1>3, <1>4, <1>5, FlightStep

LEMMA NextFlight ==
    ASSUME TypeInv, FlightInv, [Next]_vars
    PROVE  FlightInv'
<1>0. TypeInv' BY NextTyped
<1>1. ASSUME NEW b \in Browsers, User(b) PROVE FlightInv'
  <2>1. ASSUME NEW p \in {"index", "login", "chat"}, Visit(b, p) PROVE FlightInv'
    <3>1. \A k \in Browsers : acts[k] <= acts'[k] BY <2>1, ActsTyped DEF Visit, TypeInv, TypeOK
    <3>2. \A x \in posted' \cup inbox' :
             IsForm(x) => \E y \in posted \cup inbox :
                              IsForm(y) /\ y.req = x.req /\ y.input = x.input
      BY <2>1, LoadForms DEF Visit
    <3>3. work' = work /\ call' = call /\ told' = told /\ sessions' = sessions
      BY <2>1 DEF Visit
    <3> QED BY <1>0, <3>1, <3>2, <3>3, FlightStep
  <2>2. ASSUME NEW input \in Inputs, Submit(b, input) PROVE FlightInv'
    BY <1>0, <2>2, SubmitFlight
  <2> QED BY <1>1, <2>1, <2>2 DEF User
<1>2. ASSUME NEW c \in Comets, NEW p \in posted, Forward(c, p) PROVE FlightInv'
  <2> DEFINE task == [req |-> p.req, op |-> p.op, input |-> p.input, sid |-> p.sid,
                      comet |-> c]
  <2>1. /\ acts' = acts /\ work' = work /\ told' = told /\ sessions' = sessions
        /\ posted' \subseteq posted
        /\ inbox' \subseteq inbox \cup {task}
    BY <1>2 DEF Forward
  <2>2. call'[c].task = task /\ \A k \in Comets \ {c} : call'[k] = call[k]
    BY <1>2 DEF Forward, TypeInv, TypeOK
  <2>3. task.op = p.op /\ task.req = p.req /\ task.input = p.input OBVIOUS
  <2> HIDE DEF task
  <2>4. \A b \in Browsers : acts[b] <= acts'[b] BY <2>1, ActsTyped
  <2>5. \A x \in posted' \cup inbox' :
           IsForm(x) => \E y \in posted \cup inbox :
                            IsForm(y) /\ y.req = x.req /\ y.input = x.input
    BY <2>1, <2>3 DEF IsForm
  <2>6. \A k \in Comets : call'[k].task # None =>
               \/ call'[k].task = call[k].task
               \/ \E y \in posted : /\ y.op = call'[k].task.op
                                    /\ y.req = call'[k].task.req
                                    /\ y.input = call'[k].task.input
    BY <2>2, <2>3
  <2> QED BY <1>0, <2>1, <2>4, <2>5, <2>6, FlightStep
<1>3. ASSUME NEW c \in Comets, GiveUp(c) PROVE FlightInv'
  <2>1. /\ acts' = acts /\ work' = work /\ told' = told /\ sessions' = sessions
        /\ posted' = posted /\ inbox' = inbox
    BY <1>3 DEF GiveUp, browserVars
  <2>2. \A k \in Comets : call'[k].task = call[k].task BY <1>3 DEF GiveUp, TypeInv, TypeOK
  <2>3. \A b \in Browsers : acts[b] <= acts'[b] BY <2>1, ActsTyped
  <2> QED BY <1>0, <2>1, <2>2, <2>3, FlightStep
<1>4. ASSUME NEW c \in Comets, Respond(c) PROVE FlightInv'
  BY <1>0, <1>4, RespondFlight
<1>5. ASSUME NEW l \in Loops, Serve(l) PROVE FlightInv'
  BY <1>0, <1>5, ServeFlight
<1>6. CASE \/ \E s \in sessions : Expire(s)
           \/ Crash
           \/ UNCHANGED vars
  <2>1. /\ acts' = acts /\ call' = call /\ told' = told /\ sessions' \subseteq sessions
        /\ posted' = posted /\ inbox' \subseteq inbox
    BY <1>6 DEF Expire, Crash, browserVars, vars
  <2>2. \A l \in Loops : work'[l].task # None => work'[l].task = work[l].task
    BY <1>6 DEF Expire, Crash, vars, Free
  <2>3. \A b \in Browsers : acts[b] <= acts'[b] BY <2>1, ActsTyped
  <2> QED BY <1>0, <2>1, <2>2, <2>3, FlightStep
<1> QED BY <1>1, <1>2, <1>3, <1>4, <1>5, <1>6 DEF Next

LEMMA InitFlight == Init => FlightInv
BY DEF Init, FlightInv, InFlight, Flight, Free, Idle

-----------------------------------------------------------------------------
(* What the answers are backed by.  Each part is stated of the rows U and of  *)
(* what users were told T, both of which only grow.                           *)

NoSids == {NoSid, EmptySid}

\* A row with this e-mail has this password.
Credential(U, i) ==
    \E u \in U : Same(u.input.email, i.email) /\ u.input.password = i.password

\* The form x may be answered "ok".
Backed(U, x) ==
    /\ Credential(U, x.input)
    /\ x.op = "register" => [by |-> x.req, input |-> x.input] \in U

\* The form x may be answered so.
Truth(U, x, answer) ==
    /\ answer = "ok" => Backed(U, x)
    /\ answer = "EMAIL_EXISTS" => \E u \in U : u.input.email = x.input.email
    /\ answer = "USERNAME_EXISTS" => \E u \in U : u.input.username = x.input.username

\* The browser b got the sid with the answer to a form.
Held(T, b, sid) == \E t \in T : t.req = sid /\ t.answer = "ok" /\ t.req[1] = b

\* The user of b knows the credentials of u.
Entitled(T, b, u) ==
    \E t \in T : /\ t.req[1] = b
                 /\ t.answer = "ok"
                 /\ Same(t.input.email, u.input.email)
                 /\ t.input.password = u.input.password

PostGood(T, x) == x.op = "verify" => x.sid \in NoSids \/ Held(T, x.req[1], x.sid)
TaskGood(T, x) == x.op = "verify" => Held(T, x.req[1], x.sid)
CallGood(U, T, k) ==
    /\ k.task # None /\ IsForm(k.task) =>
          /\ Truth(U, k.task, k.answer)
          /\ k.answer = "ok" => k.sid \in {k.task.req, EmptySid}
    /\ k.task # None /\ k.task.op = "verify" /\ k.answer = "ok" =>
          Entitled(T, k.task.req[1], k.user)
WorkGood(U, T, w) ==
    /\ w.task # None => TaskGood(T, w.task)
    /\ w.pc = "cookie" => Backed(U, w.task)
    /\ w.pc = "user" => \E t \in T : /\ t.req[1] = w.task.req[1]
                                     /\ t.answer = "ok"
                                     /\ t.input.email = w.email
HasAccount(U, s) == \E u \in U : Same(u.input.email, s.email)
OneEach(U) == \A u, v \in U : Same(u.input.email, v.input.email) => u = v

DataInv ==
    /\ OneEach(user_infos)
    /\ \A s \in sessions : HasAccount(user_infos, s)
    /\ \A t \in told : Truth(user_infos, t, t.answer)
    /\ \A b \in Browsers : cookie[b] \in NoSids \/ Held(told, b, cookie[b])
    /\ \A b \in Browsers : me[b] # None => Entitled(told, b, me[b])
    /\ \A x \in posted : PostGood(told, x)
    /\ \A x \in inbox : TaskGood(told, x)
    /\ \A c \in Comets : CallGood(user_infos, told, call[c])
    /\ \A l \in Loops : WorkGood(user_infos, told, work[l])

\* More rows and more answers back no less.
LEMMA BackedGrows ==
    ASSUME NEW U, NEW V, U \subseteq V, NEW x, Backed(U, x)
    PROVE  Backed(V, x)
BY DEF Backed, Credential

LEMMA TruthGrows ==
    ASSUME NEW U, NEW V, U \subseteq V, NEW x, NEW answer, Truth(U, x, answer)
    PROVE  Truth(V, x, answer)
BY BackedGrows DEF Truth

LEMMA AccountGrows ==
    ASSUME NEW U, NEW V, U \subseteq V, NEW s, HasAccount(U, s)
    PROVE  HasAccount(V, s)
BY DEF HasAccount

LEMMA HeldGrows ==
    ASSUME NEW S, NEW T, S \subseteq T, NEW b, NEW sid, Held(S, b, sid)
    PROVE  Held(T, b, sid)
BY DEF Held

LEMMA EntitledGrows ==
    ASSUME NEW S, NEW T, S \subseteq T, NEW b, NEW u, Entitled(S, b, u)
    PROVE  Entitled(T, b, u)
BY DEF Entitled

LEMMA GoodGrows ==
    ASSUME NEW U, NEW V, U \subseteq V, NEW S, NEW T, S \subseteq T, NEW x
    PROVE  /\ PostGood(S, x) => PostGood(T, x)
           /\ TaskGood(S, x) => TaskGood(T, x)
           /\ CallGood(U, S, x) => CallGood(V, T, x)
           /\ WorkGood(U, S, x) => WorkGood(V, T, x)
<1>1. PostGood(S, x) => PostGood(T, x) BY HeldGrows DEF PostGood
<1>2. \A y : TaskGood(S, y) => TaskGood(T, y) BY HeldGrows DEF TaskGood
<1>3. CallGood(U, S, x) => CallGood(V, T, x) BY TruthGrows, EntitledGrows DEF CallGood
<1>4. WorkGood(U, S, x) => WorkGood(V, T, x) BY <1>2, BackedGrows DEF WorkGood
<1> QED BY <1>1, <1>2, <1>3, <1>4

\* A step that only adds rows and answers, and leaves good what it changes.
LEMMA DataStep ==
    ASSUME DataInv, user_infos \subseteq user_infos', told \subseteq told',
           OneEach(user_infos'),
           \A s \in sessions' : s \in sessions \/ HasAccount(user_infos', s),
           \A t \in told' : t \in told \/ Truth(user_infos', t, t.answer),
           \A b \in Browsers : \/ cookie'[b] = cookie[b]
                               \/ cookie'[b] \in NoSids \/ Held(told', b, cookie'[b]),
           \A b \in Browsers : \/ me'[b] = me[b]
                               \/ me'[b] # None => Entitled(told', b, me'[b]),
           \A x \in posted' : x \in posted \/ PostGood(told', x),
           \A x \in inbox' : x \in inbox \/ TaskGood(told', x),
           \A c \in Comets : call'[c] = call[c] \/ CallGood(user_infos', told', call'[c]),
           \A l \in Loops : work'[l] = work[l] \/ WorkGood(user_infos', told', work'[l])
    PROVE  DataInv'
<1>1. \A s \in sessions' : HasAccount(user_infos', s) BY AccountGrows DEF DataInv
<1>2. \A t \in told' : Truth(user_infos', t, t.answer) BY TruthGrows DEF DataInv
<1>3. \A b \in Browsers : cookie'[b] \in NoSids \/ Held(told', b, cookie'[b])
  BY HeldGrows DEF DataInv
<1>4. \A b \in Browsers : me'[b] # None => Entitled(told', b, me'[b])
  BY EntitledGrows DEF DataInv
<1>5. \A x \in posted' : PostGood(told', x) BY GoodGrows DEF DataInv
<1>6. \A x \in inbox' : TaskGood(told', x) BY GoodGrows DEF DataInv
<1>7. \A c \in Comets : CallGood(user_infos', told', call'[c]) BY GoodGrows DEF DataInv
<1>8. \A l \in Loops : WorkGood(user_infos', told', work'[l]) BY GoodGrows DEF DataInv
<1> QED BY <1>1, <1>2, <1>3, <1>4, <1>5, <1>6, <1>7, <1>8 DEF DataInv

\* What loading a page with a sid the browser may hold posts.
LEMMA LoadGood ==
    ASSUME TypeInv, NEW b \in Browsers, NEW p, NEW auth, NEW sid, NEW n, NEW T,
           Load(b, p, auth, sid, n), sid \in NoSids \/ Held(T, b, sid)
    PROVE  /\ \A x \in posted' : x \in posted \/ PostGood(T, x)
           /\ \A k \in Browsers : me'[k] = me[k] \/ me'[k] = None
<1>1. PostGood(T, Socket(b, n, sid)) BY DEF PostGood, Socket
<1>2. \A x \in posted' : x \in posted \/ PostGood(T, x) BY <1>1, LoadPosts
<1>3. \A k \in Browsers : me'[k] = me[k] \/ me'[k] = None BY DEF Load, TypeInv, TypeOK
<1> QED BY <1>2, <1>3

LEMMA UserData ==
    ASSUME TypeInv, DataInv, NEW b \in Browsers, User(b)
    PROVE  DataInv'
<1>0. OneEach(user_infos) BY DEF DataInv
<1>1. ASSUME NEW p \in {"index", "login", "chat"}, Visit(b, p) PROVE DataInv'
  <2>1. cookie[b] \in NoSids \/ Held(told, b, cookie[b]) BY DEF DataInv
  <2>2. Load(b, p, hasAuth[b], cookie[b], acts[b] + 1) BY <1>1 DEF Visit
  <2>3. /\ \A x \in posted' : x \in posted \/ PostGood(told, x)
        /\ \A k \in Browsers : me'[k] = me[k] \/ me'[k] = None
    BY <2>1, <2>2, LoadGood
  <2>4. /\ cookie' = cookie /\ call' = call /\ inbox' = inbox /\ work' = work
        /\ user_infos' = user_infos /\ sessions' = sessions /\ told' = told
    BY <1>1 DEF Visit
  <2> QED BY <1>0, <2>3, <2>4, DataStep
<1>2. ASSUME NEW input \in Inputs, Submit(b, input) PROVE DataInv'
  <2>1. /\ cookie' = cookie /\ call' = call /\ inbox' = inbox /\ work' = work
        /\ user_infos' = user_infos /\ sessions' = sessions /\ told' = told /\ me' = me
    BY <1>2 DEF Submit
  <2>2. \A x \in posted' : x \in posted \/ x.op \in {"register", "login"}
    BY <1>2 DEF Submit, Form
  <2>3. \A x \in posted' : x \in posted \/ PostGood(told, x) BY <2>2 DEF PostGood
  <2> QED BY <1>0, <2>1, <2>3, DataStep
<1> QED BY <1>1, <1>2 DEF User

LEMMA ForwardData ==
    ASSUME TypeInv, DataInv, NEW c \in Comets, NEW p \in posted, Forward(c, p)
    PROVE  DataInv'
<1> DEFINE task == [req |-> p.req, op |-> p.op, input |-> p.input, sid |-> p.sid,
                    comet |-> c]
           refused == task.op = "verify" /\ task.sid \in NoSids
           k == [task |-> task, answer |-> IF refused THEN "error" ELSE "none",
                 sid |-> NoSid, user |-> None]
<1>0. OneEach(user_infos) BY DEF DataInv
<1>1. /\ cookie' = cookie /\ work' = work /\ me' = me
      /\ user_infos' = user_infos /\ sessions' = sessions /\ told' = told
      /\ posted' \subseteq posted
  BY DEF Forward
<1>2. call' = [call EXCEPT ![c] = k] /\ inbox' = IF refused THEN inbox ELSE inbox \cup {task}
  BY DEF Forward, NoSids
<1>3. CallGood(user_infos, told, k)
  <2>1. k.answer \in {"error", "none"} OBVIOUS
  <2>2. Truth(user_infos, k.task, k.answer) BY <2>1 DEF Truth
  <2> HIDE DEF k
  <2> QED BY <2>1, <2>2 DEF CallGood
<1>4. ~refused => TaskGood(told, task) BY DEF DataInv, PostGood, TaskGood
<1> HIDE DEF task, refused, k
<1>5. \A j \in Comets : call'[j] = call[j] \/ CallGood(user_infos, told, call'[j])
  BY <1>2, <1>3 DEF TypeInv, TypeOK
<1>6. \A x \in inbox' : x \in inbox \/ TaskGood(told, x) BY <1>2, <1>4
<1> QED BY <1>0, <1>1, <1>5, <1>6, DataStep

LEMMA GiveUpData ==
    ASSUME TypeInv, DataInv, NEW c \in Comets, GiveUp(c)
    PROVE  DataInv'
<1>0. OneEach(user_infos) BY DEF DataInv
<1>1. /\ cookie' = cookie /\ work' = work /\ me' = me
      /\ user_infos' = user_infos /\ sessions' = sessions /\ told' = told
      /\ posted' = posted /\ inbox' = inbox
  BY DEF GiveUp, browserVars
<1>2. call'[c].answer = "error" BY DEF GiveUp, TypeInv, TypeOK
<1>3. CallGood(user_infos, told, call'[c]) BY <1>2 DEF CallGood, Truth
<1>4. \A k \in Comets \ {c} : call'[k] = call[k] BY DEF GiveUp, TypeInv, TypeOK
<1> QED BY <1>0, <1>1, <1>3, <1>4, DataStep

LEMMA IdleGood == \A U, T : CallGood(U, T, Idle)
BY DEF CallGood, Idle

LEMMA RespondData ==
    ASSUME TypeInv, DataInv, NEW c \in Comets, Respond(c)
    PROVE  DataInv'
<1> DEFINE task == call[c].task
           b == task.req[1]
<1>0. OneEach(user_infos) BY DEF DataInv
<1>1. /\ work' = work /\ inbox' = inbox /\ user_infos' = user_infos
      /\ sessions' = sessions /\ task # None /\ call' = [call EXCEPT ![c] = Idle]
  BY DEF Respond, RespondForm, RespondHello, RespondRefuse
<1>2. \A k \in Comets : call'[k] = call[k] \/ CallGood(user_infos', told', call'[k])
  BY <1>1, IdleGood DEF TypeInv, TypeOK
<1>3. task.req \in Requests /\ b \in Browsers BY <1>1, CallTask DEF TypeInv
<1>4. CallGood(user_infos, told, call[c]) BY DEF DataInv
<1>5. CASE UNCHANGED browserVars /\ told' = told
  BY <1>0, <1>1, <1>2, <1>5, DataStep DEF browserVars
<1>6. CASE RespondForm(c) /\ Current(task)
  <2> DEFINE t == [req |-> task.req, op |-> task.op, input |-> task.input,
                   answer |-> call[c].answer]
  <2>1. IsForm(task) /\ told' = told \cup {t} BY <1>6 DEF RespondForm, IsForm
  <2>2. Truth(user_infos, task, call[c].answer) BY <1>1, <1>4, <2>1 DEF CallGood
  <2>3. Truth(user_infos, t, t.answer) BY <2>2 DEF Truth, Backed
  <2>4. CASE call[c].answer # "ok"
    <3>1. UNCHANGED <<cookie, me, posted>> BY <1>6, <2>4 DEF RespondForm
    <3> HIDE DEF t
    <3> QED BY <1>0, <1>1, <1>2, <2>1, <2>3, <3>1, DataStep
  <2>5. CASE call[c].answer = "ok"
    <3>1. cookie' = [cookie EXCEPT ![b] = call[c].sid]
      BY <1>6, <2>5 DEF RespondForm
    <3>2. Load(b, IF task.op = "login" THEN "chat" ELSE "login", hasAuth'[b], call[c].sid,
               acts[b])
      BY <1>6, <2>5 DEF RespondForm
    <3>3. call[c].sid \in {task.req, EmptySid} BY <1>1, <1>4, <2>1, <2>5 DEF CallGood
    <3>4. Held(told', b, task.req)
      <4>1. t \in told' /\ t.req = task.req /\ t.answer = "ok" /\ t.req[1] = b BY <2>1, <2>5
      <4> HIDE DEF t, b, task
      <4> QED BY <4>1 DEF Held
    <3>5. call[c].sid \in NoSids \/ Held(told', b, call[c].sid) BY <3>3, <3>4 DEF NoSids
    <3> HIDE DEF t, b
    <3>6. /\ \A x \in posted' : x \in posted \/ PostGood(told', x)
          /\ \A k \in Browsers : me'[k] = me[k] \/ me'[k] = None
      BY <1>3, <3>2, <3>5, LoadGood
    <3>7. \A k \in Browsers : \/ cookie'[k] = cookie[k]
                              \/ cookie'[k] \in NoSids \/ Held(told', k, cookie'[k])
      BY <1>3, <3>1, <3>5 DEF TypeInv, TypeOK
    <3>8. told \subseteq told' /\ \A x \in told' : x \in told \/ Truth(user_infos', x, x.answer)
      BY <1>1, <2>1, <2>3
    <3> QED BY <1>0, <1>1, <1>2, <3>6, <3>7, <3>8, DataStep
  <2> QED BY <2>4, <2>5
<1>7. CASE RespondHello(c)
  <2>1. cookie' = cookie /\ posted' = posted /\ told' = told BY <1>7 DEF RespondHello
  <2>2. Entitled(told, b, call[c].user)
    BY <1>4, <1>7 DEF RespondHello, CallGood
  <2>3. me' = me \/ me' = [me EXCEPT ![b] = call[c].user] BY <1>7 DEF RespondHello
  <2> HIDE DEF b
  <2>4. \A k \in Browsers : me'[k] = me[k] \/ Entitled(told, k, me'[k])
    BY <1>3, <2>2, <2>3 DEF TypeInv, TypeOK
  <2> QED BY <1>0, <1>1, <1>2, <2>1, <2>4, DataStep
<1>8. CASE RespondRefuse(c) /\ Current(task)
  <2>1. /\ Load(b, "login", FALSE, cookie[b], acts[b])
        /\ cookie' = cookie /\ told' = told
    BY <1>8 DEF RespondRefuse
  <2>2. cookie[b] \in NoSids \/ Held(told, b, cookie[b]) BY <1>3 DEF DataInv
  <2> HIDE DEF b
  <2>3. /\ \A x \in posted' : x \in posted \/ PostGood(told, x)
        /\ \A k \in Browsers : me'[k] = me[k] \/ me'[k] = None
    BY <1>3, <2>1, <2>2, LoadGood
  <2> QED BY <1>0, <1>1, <1>2, <2>1, <2>3, DataStep
<1>9. \/ RespondForm(c) /\ Current(task)
      \/ RespondHello(c)
      \/ RespondRefuse(c) /\ Current(task)
      \/ UNCHANGED browserVars /\ told' = told
  <2>1. CASE RespondForm(c) BY <2>1 DEF RespondForm
  <2>2. CASE RespondRefuse(c) BY <2>2 DEF RespondRefuse
  <2> QED BY <2>1, <2>2 DEF Respond
<1> QED BY <1>5, <1>6, <1>7, <1>8, <1>9

\* A loop replies with a good answer.
LEMMA ReplyGood ==
    ASSUME TypeInv, NEW l \in Loops, NEW answer, NEW sid, NEW user, NEW U, NEW T,
           Reply(l, answer, sid, user),
           CallGood(U, T, [task |-> work[l].task, answer |-> answer, sid |-> sid,
                           user |-> user])
    PROVE  /\ \A c \in Comets : call'[c] = call[c] \/ CallGood(U, T, call'[c])
           /\ \A k \in Loops : work'[k] = work[k] \/ WorkGood(U, T, work'[k])
<1>1. WorkGood(U, T, Free) BY DEF WorkGood, Free
<1>2. \A k \in Loops : work'[k] = work[k] \/ work'[k] = Free
  BY DEF Reply, TypeInv, TypeOK
<1>3. \A c \in Comets : call'[c] = call[c] \/ CallGood(U, T, call'[c]) BY ReplyTasks
<1> QED BY <1>1, <1>2, <1>3

\* A refusal, whatever it was asked: an error or a failed login.
LEMMA RefusalGood ==
    ASSUME NEW task, NEW answer \in {"", "error", "LOGIN_FAILED"}, NEW U, NEW T
    PROVE  CallGood(U, T, [task |-> task, answer |-> answer, sid |-> NoSid, user |-> None])
<1>1. answer \notin {"ok", "EMAIL_EXISTS", "USERNAME_EXISTS"} OBVIOUS
<1> QED BY <1>1 DEF CallGood, Truth

LEMMA WorkTask ==
    ASSUME TypeInv, NEW l \in Loops, work[l].task # None
    PROVE  /\ work[l].task \in Tasks
           /\ work[l].task.input \in Inputs
           /\ work[l].task.req \in Requests
BY DEF TypeInv, TypeOK, Tasks

\* A step of a loop that leaves rows, sessions and answers alone.
LEMMA ServeOnly ==
    ASSUME DataInv, UNCHANGED <<browserVars, user_infos, sessions, told>>,
           inbox' \subseteq inbox,
           \A c \in Comets : call'[c] = call[c] \/ CallGood(user_infos, told, call'[c]),
           \A k \in Loops : work'[k] = work[k] \/ WorkGood(user_infos, told, work'[k])
    PROVE  DataInv'
<1>0. OneEach(user_infos) BY DEF DataInv
<1>1. /\ cookie' = cookie /\ me' = me /\ posted' = posted
      /\ user_infos' = user_infos /\ sessions' = sessions /\ told' = told
  BY DEF browserVars
<1> QED BY <1>0, <1>1, DataStep

\* A loop moves on to a good state.
LEMMA MoveGood ==
    ASSUME TypeInv, NEW l \in Loops, NEW w, NEW U, NEW T,
           work' = [work EXCEPT ![l] = w], WorkGood(U, T, w)
    PROVE  \A k \in Loops : work'[k] = work[k] \/ WorkGood(U, T, work'[k])
BY DEF TypeInv, TypeOK

LEMMA ReceiveData ==
    ASSUME TypeInv, DataInv, NEW l \in Loops, Receive(l)
    PROVE  DataInv'
<1>1. PICK task \in inbox :
         /\ inbox' = inbox \ {task}
         /\ work' = [work EXCEPT ![l] = [task |-> task, pc |-> task.op, email |-> None]]
  BY DEF Receive
<1>2. task.op \in {"register", "login", "verify"} BY DEF TypeInv, TypeOK, Tasks
<1>3. TaskGood(told, task) BY DEF DataInv
<1>4. WorkGood(user_infos, told, [task |-> task, pc |-> task.op, email |-> None])
  BY <1>2, <1>3 DEF WorkGood
<1>5. \A k \in Loops : work'[k] = work[k] \/ WorkGood(user_infos, told, work'[k])
  BY <1>1, <1>4, MoveGood
<1> QED BY <1>1, <1>5, ServeOnly DEF Receive

LEMMA RegisterSelectData ==
    ASSUME TypeInv, DataInv, NEW l \in Loops, RegisterSelect(l)
    PROVE  DataInv'
<1> DEFINE task == work[l].task
<1>0. /\ UNCHANGED <<browserVars, user_infos, sessions, told>> /\ inbox' = inbox
      /\ work[l].pc = "register"
  BY DEF RegisterSelect
<1>1. task # None /\ task.op = "register" BY <1>0 DEF TypeInv, StageOK
<1>2. CASE Reply(l, "", NoSid, None)
  BY <1>0, <1>2, RefusalGood, ReplyGood, ServeOnly
<1>3. ASSUME NEW row \in Matches(task.input), Reply(l, ErrorId(row, task.input), NoSid, None)
      PROVE  DataInv'
  <2> DEFINE e == ErrorId(row, task.input)
             k == [task |-> task, answer |-> e, sid |-> NoSid, user |-> None]
  <2>1. /\ row \in user_infos
        /\ e # "ok"
        /\ e = "EMAIL_EXISTS" => row.input.email = task.input.email
        /\ e = "USERNAME_EXISTS" => row.input.username = task.input.username
    BY DEF Matches, ErrorId
  <2>2. k.answer = e /\ k.task = task OBVIOUS
  <2> HIDE DEF e
  <2>3. Truth(user_infos, task, e) BY <2>1 DEF Truth
  <2>4. CallGood(user_infos, told, k)
    <3> HIDE DEF k, task
    <3> QED BY <2>1, <2>2, <2>3 DEF CallGood
  <2> QED BY <1>0, <1>3, <2>4, ReplyGood, ServeOnly DEF e
<1>4. CASE work' = [work EXCEPT ![l].pc = "insert"] /\ UNCHANGED call
  <2> DEFINE w == [work[l] EXCEPT !.pc = "insert"]
  <2>1. w.pc = "insert" /\ w.task = task /\ work' = [work EXCEPT ![l] = w]
    BY <1>4, MovedOn
  <2>2. WorkGood(user_infos, told, work[l]) BY DEF DataInv
  <2> HIDE DEF w
  <2>3. WorkGood(user_infos, told, w) BY <2>1, <2>2 DEF WorkGood
  <2>4. \A k \in Loops : work'[k] = work[k] \/ WorkGood(user_infos, told, work'[k])
    BY <2>1, <2>3, MoveGood
  <2> QED BY <1>0, <1>4, <2>4, ServeOnly
<1> QED BY <1>2, <1>3, <1>4 DEF RegisterSelect

\* The UNIQUE keys: no second row for an e-mail.
LEMMA RegisterInsertData ==
    ASSUME TypeInv, DataInv, NEW l \in Loops, RegisterInsert(l)
    PROVE  DataInv'
<1> DEFINE task == work[l].task
           row == [by |-> task.req, input |-> task.input]
<1>0. /\ UNCHANGED <<browserVars, sessions, told>> /\ inbox' = inbox
      /\ work[l].pc = "insert"
  BY DEF RegisterInsert
<1>1. task # None /\ task.op = "register" BY <1>0 DEF TypeInv, StageOK
<1>2. CASE Reply(l, "", NoSid, None) /\ UNCHANGED user_infos
  BY <1>0, <1>2, RefusalGood, ReplyGood, ServeOnly
<1>3. CASE /\ Matches(task.input) = {}
           /\ user_infos' = user_infos \cup {row}
           /\ work' = [work EXCEPT ![l].pc = "cookie"]
           /\ UNCHANGED call
  <2> DEFINE w == [work[l] EXCEPT !.pc = "cookie"]
  <2>1. w.pc = "cookie" /\ w.task = task /\ work' = [work EXCEPT ![l] = w]
    BY <1>3, MovedOn
  <2>2. TaskGood(told, task) BY <1>1 DEF TaskGood
  <2>3. row \in user_infos' /\ row.input = task.input BY <1>3
  <2>4. Backed(user_infos', task) BY <2>3 DEF Backed, Credential, Same
  <2>5. \A u \in user_infos : ~Same(u.input.email, task.input.email)
    BY <1>3 DEF Matches
  <2>6. OneEach(user_infos')
    <3>1. OneEach(user_infos) BY DEF DataInv
    <3> HIDE DEF row, task
    <3> QED BY <1>3, <2>3, <2>5, <3>1 DEF OneEach, Same
  <2> HIDE DEF w, row, task
  <2>7. WorkGood(user_infos', told, w) BY <2>1, <2>2, <2>4 DEF WorkGood
  <2>8. \A k \in Loops : work'[k] = work[k] \/ WorkGood(user_infos', told, work'[k])
    BY <2>1, <2>7, MoveGood
  <2>9. /\ cookie' = cookie /\ me' = me /\ posted' = posted
        /\ sessions' = sessions /\ told' = told /\ call' = call
    BY <1>0, <1>3 DEF browserVars
  <2> QED BY <1>0, <1>3, <2>6, <2>8, <2>9, DataStep
<1> QED BY <1>2, <1>3 DEF RegisterInsert

LEMMA LoginVerifyData ==
    ASSUME TypeInv, DataInv, NEW l \in Loops, LoginVerify(l)
    PROVE  DataInv'
<1> DEFINE task == work[l].task
<1>0. /\ UNCHANGED <<browserVars, user_infos, sessions, told>> /\ inbox' = inbox
      /\ work[l].pc = "login"
  BY DEF LoginVerify
<1>1. task # None /\ task.op = "login" BY <1>0 DEF TypeInv, StageOK
<1>2. CASE Reply(l, "LOGIN_FAILED", NoSid, None)
  BY <1>0, <1>2, RefusalGood, ReplyGood, ServeOnly
<1>3. CASE /\ \E u \in user_infos : /\ Same(u.input.email, task.input.email)
                                    /\ u.input.password = task.input.password
           /\ work' = [work EXCEPT ![l].pc = "cookie"]
           /\ UNCHANGED call
  <2> DEFINE w == [work[l] EXCEPT !.pc = "cookie"]
  <2>1. w.pc = "cookie" /\ w.task = task /\ work' = [work EXCEPT ![l] = w]
    BY <1>3, MovedOn
  <2>2. TaskGood(told, task) BY <1>1 DEF TaskGood
  <2>3. Backed(user_infos, task) BY <1>1, <1>3 DEF Backed, Credential
  <2> HIDE DEF w, task
  <2>4. WorkGood(user_infos, told, w) BY <2>1, <2>2, <2>3 DEF WorkGood
  <2>5. \A k \in Loops : work'[k] = work[k] \/ WorkGood(user_infos, told, work'[k])
    BY <2>1, <2>4, MoveGood
  <2> QED BY <1>0, <1>3, <2>5, ServeOnly
<1> QED BY <1>2, <1>3 DEF LoginVerify

LEMMA SetCookieData ==
    ASSUME TypeInv, DataInv, NEW l \in Loops, SetCookie(l)
    PROVE  DataInv'
<1> DEFINE task == work[l].task
<1>0. /\ UNCHANGED <<browserVars, user_infos, told>> /\ inbox' = inbox
      /\ work[l].pc = "cookie"
  BY DEF SetCookie
<1>1. task # None /\ IsForm(task) BY <1>0 DEF TypeInv, StageOK, IsForm
<1>2. Backed(user_infos, task) BY <1>0 DEF DataInv, WorkGood
<1>3. \A s \in sessions' :
         s \in sessions \/ s = [sid |-> task.req, email |-> task.input.email]
  BY DEF SetCookie
<1>4. \A s \in sessions' : s \in sessions \/ HasAccount(user_infos, s)
  BY <1>2, <1>3 DEF Backed, Credential, HasAccount
<1>5. PICK sid \in {task.req, EmptySid} : Reply(l, "ok", sid, None)
  BY DEF SetCookie
<1> DEFINE k == [task |-> task, answer |-> "ok", sid |-> sid, user |-> None]
<1>6. CallGood(user_infos, told, k)
  <2>1. k.task = task /\ k.answer = "ok" /\ k.sid = sid OBVIOUS
  <2>2. Truth(user_infos, task, "ok") BY <1>2 DEF Truth
  <2> HIDE DEF k, task
  <2> QED BY <1>1, <1>5, <2>1, <2>2 DEF CallGood, IsForm
<1>7. /\ \A c \in Comets : call'[c] = call[c] \/ CallGood(user_infos, told, call'[c])
      /\ \A j \in Loops : work'[j] = work[j] \/ WorkGood(user_infos, told, work'[j])
  BY <1>5, <1>6, ReplyGood
<1>8. /\ cookie' = cookie /\ me' = me /\ posted' = posted /\ user_infos' = user_infos
      /\ told' = told
  BY <1>0 DEF browserVars
<1>9. OneEach(user_infos) BY DEF DataInv
<1> HIDE DEF task, k
<1> QED BY <1>0, <1>4, <1>7, <1>8, <1>9, DataStep

\* The session a handshake finds is the one its browser was given: the form with
\* the sid's number, and so with the session's e-mail.
LEMMA VerifyCookieData ==
    ASSUME TypeInv, FlightInv, DataInv, NEW l \in Loops, VerifyCookie(l)
    PROVE  DataInv'
<1> DEFINE task == work[l].task
<1>0. /\ UNCHANGED <<browserVars, user_infos, sessions, told>> /\ inbox' = inbox
      /\ work[l].pc = "verify"
  BY DEF VerifyCookie
<1>1. task # None /\ task.op = "verify" BY <1>0 DEF TypeInv, StageOK
<1>2. CASE Reply(l, "error", NoSid, None)
  BY <1>0, <1>2, RefusalGood, ReplyGood, ServeOnly
<1>3. ASSUME NEW s \in sessions, s.sid = task.sid,
             work' = [work EXCEPT ![l] = [task |-> task, pc |-> "user", email |-> s.email]],
             UNCHANGED call
      PROVE  DataInv'
  <2> DEFINE w == [task |-> task, pc |-> "user", email |-> s.email]
  <2>1. TaskGood(told, task) BY <1>1 DEF DataInv, WorkGood
  <2>2. PICK t \in told : t.req = task.sid /\ t.answer = "ok" /\ t.req[1] = task.req[1]
    BY <1>1, <2>1 DEF TaskGood, Held
  <2>3. t.input \in Inputs BY DEF TypeInv, TypeOK
  <2>4. InFlight(s.sid, t.input) BY <1>3, <2>2 DEF InFlight, Flight
  <2>5. t.input.email = s.email BY <2>3, <2>4 DEF FlightInv
  <2>6. w.task = task /\ w.pc = "user" /\ w.email = s.email OBVIOUS
  <2>7. WorkGood(user_infos, told, w)
    <3> HIDE DEF w, task
    <3> QED BY <2>1, <2>2, <2>5, <2>6 DEF WorkGood
  <2>8. \A k \in Loops : work'[k] = work[k] \/ WorkGood(user_infos, told, work'[k])
    BY <1>3, <2>7, MoveGood
  <2> QED BY <1>0, <1>3, <2>8, ServeOnly
<1> QED BY <1>2, <1>3 DEF VerifyCookie

\* The user found is the one whose credentials were given: there is one row for
\* the e-mail.
LEMMA VerifyUserData ==
    ASSUME TypeInv, DataInv, NEW l \in Loops, VerifyUser(l)
    PROVE  DataInv'
<1> DEFINE task == work[l].task
<1>0. /\ UNCHANGED <<browserVars, user_infos, sessions, told>> /\ inbox' = inbox
      /\ work[l].pc = "user"
  BY DEF VerifyUser
<1>1. task # None /\ task.op = "verify" BY <1>0 DEF TypeInv, StageOK
<1>2. CASE Reply(l, "error", NoSid, None)
  BY <1>0, <1>2, RefusalGood, ReplyGood, ServeOnly
<1>3. ASSUME NEW u \in user_infos, Same(u.input.email, work[l].email),
             Reply(l, "ok", NoSid, u)
      PROVE  DataInv'
  <2> DEFINE k == [task |-> task, answer |-> "ok", sid |-> NoSid, user |-> u]
  <2>1. PICK t \in told : /\ t.req[1] = task.req[1]
                          /\ t.answer = "ok"
                          /\ t.input.email = work[l].email
    BY <1>0 DEF DataInv, WorkGood
  <2>2. Credential(user_infos, t.input) BY <2>1 DEF DataInv, Truth, Backed
  <2>3. PICK v \in user_infos : /\ Same(v.input.email, t.input.email)
                                /\ v.input.password = t.input.password
    BY <2>2 DEF Credential
  <2>4. v = u
    <3>1. Same(v.input.email, u.input.email) BY <1>3, <2>1, <2>3 DEF Same
    <3> QED BY <3>1 DEF DataInv, OneEach
  <2>5. Entitled(told, task.req[1], u) BY <2>1, <2>3, <2>4 DEF Entitled, Same
  <2>6. k.task = task /\ k.answer = "ok" /\ k.user = u OBVIOUS
  <2>7. CallGood(user_infos, told, k)
    <3> HIDE DEF k, task
    <3> QED BY <1>1, <2>5, <2>6 DEF CallGood, IsForm
  <2> QED BY <1>0, <1>3, <2>7, ReplyGood, ServeOnly
<1> QED BY <1>2, <1>3 DEF VerifyUser

LEMMA NextData ==
    ASSUME TypeInv, FlightInv, DataInv, [Next]_vars
    PROVE  DataInv'
<1>1. ASSUME NEW b \in Browsers, User(b) PROVE DataInv' BY <1>1, UserData
<1>2. ASSUME NEW c \in Comets, NEW p \in posted, Forward(c, p) PROVE DataInv'
  BY <1>2, ForwardData
<1>3. ASSUME NEW c \in Comets, GiveUp(c) PROVE DataInv' BY <1>3, GiveUpData
<1>4. ASSUME NEW c \in Comets, Respond(c) PROVE DataInv' BY <1>4, RespondData
<1>5. ASSUME NEW l \in Loops, Serve(l) PROVE DataInv'
  BY <1>5, ReceiveData, RegisterSelectData, RegisterInsertData, LoginVerifyData,
     SetCookieData, VerifyCookieData, VerifyUserData
     DEF Serve
<1>6. CASE \/ \E s \in sessions : Expire(s)
           \/ Crash
           \/ UNCHANGED vars
  <2>1. /\ cookie' = cookie /\ me' = me /\ call' = call /\ told' = told
        /\ user_infos' = user_infos /\ sessions' \subseteq sessions
        /\ posted' = posted /\ inbox' \subseteq inbox
    BY <1>6 DEF Expire, Crash, browserVars, vars
  <2>2. WorkGood(user_infos, told, Free) BY DEF WorkGood, Free
  <2>3. \A l \in Loops : work'[l] = work[l] \/ work'[l] = Free
    BY <1>6 DEF Expire, Crash, vars
  <2>4. OneEach(user_infos) BY DEF DataInv
  <2> QED BY <2>1, <2>2, <2>3, <2>4, DataStep
<1> QED BY <1>1, <1>2, <1>3, <1>4, <1>5, <1>6 DEF Next

LEMMA InitData == Init => DataInv
<1> SUFFICES ASSUME Init PROVE DataInv OBVIOUS
<1>1. \A U, T : WorkGood(U, T, Free) BY DEF WorkGood, Free
<1>2. OneEach({}) BY DEF OneEach
<1> QED BY <1>1, <1>2, IdleGood DEF Init, DataInv, NoSids

-----------------------------------------------------------------------------
(* The theorems *)

AccountsInv == TypeInv /\ FlightInv /\ DataInv

LEMMA AccountsInductive == Spec => []AccountsInv
<1>1. Init => AccountsInv BY InitTypeInv, InitFlight, InitData DEF AccountsInv
<1>2. AccountsInv /\ [Next]_vars => AccountsInv'
  BY NextTyped, NextFlight, NextData DEF AccountsInv
<1> QED BY <1>1, <1>2, PTL DEF Spec

\* Whoever is told that an account was created has the row that was inserted for
\* that request, whatever other requests, failures, late answers and crashes come
\* between RegisterUser's statements.
THEOREM CreatedAccountsExist == Spec => []RegisteredIsMine
<1>1. AccountsInv => RegisteredIsMine
  BY DEF AccountsInv, DataInv, Truth, Backed, RegisteredIsMine
<1> QED BY <1>1, AccountsInductive, PTL

\* "In use" is told only of a name or e-mail that is.
THEOREM RefusalsAreTrue == Spec => []InUseIsTrue
<1>1. AccountsInv => InUseIsTrue BY DEF AccountsInv, DataInv, Truth, InUseIsTrue
<1> QED BY <1>1, AccountsInductive, PTL

\* A sid in Redis names the e-mail of a row in MySQL, across crashes of logic.
THEOREM SessionsHaveAccounts == Spec => []SessionHasAccount
<1>1. AccountsInv => SessionHasAccount
  BY DEF AccountsInv, DataInv, HasAccount, SessionHasAccount
<1> QED BY <1>1, AccountsInductive, PTL

\* The chat page shows nobody but a user whose e-mail and password were typed in
\* this browser and accepted: no late answer, stale cookie or raced registration
\* puts a browser into another user's session.
THEOREM PagesShowTheirUser == Spec => []ShownIsMine
<1>1. AccountsInv => ShownIsMine
  BY DEF AccountsInv, DataInv, Entitled, ShownIsMine
<1> QED BY <1>1, AccountsInductive, PTL
=============================================================================
