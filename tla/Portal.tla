------------------------------- MODULE Portal -------------------------------
(***************************************************************************)
(* The life of a portal user: invitation, set-up, sign-in, a forgotten     *)
(* password, a lost authenticator, block and unblock, and the sessions in  *)
(* between.  The users are in PostgreSQL, the links and the sessions in    *)
(* MongoDB, the counter of wrong passwords in Redis and the mails in a     *)
(* queue: no handler has a transaction, each of its awaits is a step that  *)
(* others may precede, and a handler may die after any of them.            *)
(* An administrator acts on others only (UR001, BU001, UBU01).             *)
(***************************************************************************)
EXTENDS Naturals, Sequences, SequencesExt

CONSTANTS
  Process,    \* requests in flight, each answered once; they name what they generate
  First,      \* the password, authenticator secret and link from before
  User,
  Request,    \* what may be asked for: [kind, user]
  Opening,    \* the states the portal may be found in
  None,
  RetryLimit, \* INVALID_PASSWORD_RETRY_LIMIT
  MaxFaults,  \* bound: crashes, expired links and failed mails
  MaxWindow   \* bound: the five-minute windows of the invitations' jobIds

Token == Process \cup {First}
Secret == Process \cup {First}

AdminKinds   == {"invite", "resend", "reset_otp", "block", "unblock"}
LinkKinds    == {"verify", "complete", "reset_password"}
SignInKinds  == {"wrong_password", "password", "otp"}
SessionKinds == {"call", "refresh"}
Kind == AdminKinds \cup LinkKinds \cup SignInKinds \cup SessionKinds \cup {"forgot"}

UserStatus == {"absent", "pending", "active", "locked", "blocked"}
UserRow == [status : UserStatus, password : Secret \cup {None}, key : Secret \cup {None}]

TokenType == {"session", "password_reset", "otp_reset", "invite"}
TokenRecord == [type : TokenType, user : User, secret : Secret \cup {None}, live : BOOLEAN]

Mail == [user : User, type : TokenType, token : Token, window : 0..MaxWindow, failed : BOOLEAN]

(* A request with what it has read. *)
RequestRecord ==
  [kind : Kind, user : User, token : Token \cup {None}, code : Secret \cup {None},
   row : UserRow \cup {None}, secret : Secret \cup {None}, count : Nat]

OpeningState ==
  [user : [User -> UserRow], tokens : [Token -> TokenRecord \cup {None}],
   inbox : [User -> SUBSET Token], scanned : [User -> SUBSET Secret],
   retry : [User -> Nat], cookie : [User -> Token \cup {None}]]

ASSUME PortalAssumption ==
  /\ First \notin Process
  /\ None \notin Process \cup {First}
  /\ None \notin UserRow /\ None \notin TokenRecord /\ None \notin RequestRecord
  /\ Request \subseteq [kind : Kind, user : User]
  /\ Opening \subseteq OpeningState
  /\ RetryLimit \in Nat \ {0}
  /\ MaxFaults \in Nat
  /\ MaxWindow \in Nat

(* The situations a portal is found in: what requests will generate is not there yet; a
   user who was never invited has no row; password and authenticator come in this order,
   and without them there is a link to the set-up; the links somebody has received are his
   own; a browser holds a session that is live; a lock has its count. *)
ASSUME OpeningAssumption ==
  \A o \in Opening :
    /\ \A p \in Process : o.tokens[p] = None
    /\ \A u \in User :
         LET row == o.user[u] IN
         /\ row.status = "absent" => row.password = None
         /\ row.password = None => row.key = None /\ row.status \in {"absent", "pending"}
         /\ row.key = None /\ row.status # "absent" =>
              \E t \in Token :
                /\ o.tokens[t] # None /\ o.tokens[t].live
                /\ o.tokens[t].user = u /\ o.tokens[t].type \in {"invite", "otp_reset"}
         /\ row.status = "locked" => o.retry[u] > RetryLimit
         /\ \A t \in o.inbox[u] : o.tokens[t] # None /\ o.tokens[t].user = u
         /\ o.cookie[u] # None =>
              /\ o.tokens[o.cookie[u]] # None
              /\ o.tokens[o.cookie[u]].type = "session" /\ o.tokens[o.cookie[u]].live

VARIABLES
  user,       \* users
  tokens,     \* app_tokens: the links and sessions issued, deleted ones included
  mail,       \* the email queue
  inbox,      \* the links a user has received
  scanned,    \* the secrets a user's authenticator has been shown
  retry,      \* Redis: password_retry_, 0 if there is none
  mark,       \* Redis: LOGIN_, the password was right
  cookie,     \* the session a user's browser holds
  req,        \* a request in flight: what it asks for and has read
  todo,       \* the steps a request has before it
  window,     \* getCacheTimeBucket
  faults,
  expired,    \* history: the tokens whose time ran out
  wrongs,     \* history: the wrong passwords of a user
  resets,     \* history: how often a link has set a password
  signedOut   \* history: the sessions whose users have signed out

stores == <<user, tokens, mail, retry, mark>>
outside == <<inbox, scanned, cookie, window>>
history == <<faults, expired, wrongs, resets, signedOut>>
vars == <<stores, outside, req, todo, history>>

-----------------------------------------------------------------------------
(* What a request does, step by step. The link of a set-up or a reset is a field
   of the request, the session of a call comes with its cookie.              *)
InviteTeamMember  == <<"read", "insert", "revoke", "create", "mail">>
ResendInvite      == <<"read", "revoke", "revoke", "create", "mail">>
ResetUserOtp      == <<"read", "clear", "revoke", "create", "mail">>
ForgotPassword    == <<"read", "revoke", "create", "mail">>
ResetPassword     == <<"consume", "read", "password">>
VerifySetup       == <<"verify", "read", "show">>
CompleteUserSetup == <<"verify", "read", "activate", "drop">>
BlockOrUnblock    == <<"read", "status">>
WrongPassword     == <<"read", "mark", "count", "recount">>
RightPassword     == <<"read", "mark", "setmark">>
OneTimePassword   == <<"read", "mark", "unmark", "create">>
GuardedCall       == <<"verify">>
GuardedRefresh    == <<"verify", "create">>

Plan(kind) ==
  CASE kind = "invite"         -> InviteTeamMember
    [] kind = "resend"         -> ResendInvite
    [] kind = "reset_otp"      -> ResetUserOtp
    [] kind = "forgot"         -> ForgotPassword
    [] kind = "reset_password" -> ResetPassword
    [] kind = "verify"         -> VerifySetup
    [] kind = "complete"       -> CompleteUserSetup
    [] kind \in {"block", "unblock"} -> BlockOrUnblock
    [] kind = "wrong_password" -> WrongPassword
    [] kind = "password"       -> RightPassword
    [] kind = "otp"            -> OneTimePassword
    [] kind = "call"           -> GuardedCall
    [] kind = "refresh"        -> GuardedRefresh

TypeOf(kind) ==
  CASE kind \in {"invite", "resend"} -> "invite"
    [] kind = "reset_otp"            -> "otp_reset"
    [] kind = "forgot"               -> "password_reset"
    [] OTHER                         -> "session"

(* The types of the tokens a request accepts. *)
Accepts(kind) ==
  CASE kind \in {"verify", "complete"} -> {"invite", "otp_reset"}
    [] kind = "reset_password"         -> {"password_reset"}
    [] OTHER                           -> {"session"}

At(p, step) == todo[p] # <<>> /\ Head(todo[p]) = step
Finish(p) == todo' = [todo EXCEPT ![p] = <<>>]
Proceed(p) == todo' = [todo EXCEPT ![p] = Tail(@)]

(* The links and sessions a user may send, and the codes his authenticator has. *)
Sendable(kind, u) ==
  IF kind \in LinkKinds THEN {t \in inbox[u] : tokens[t].type \in Accepts(kind)}
  ELSE IF kind \in SessionKinds THEN {cookie[u]} \ {None}
  ELSE {None}
Codes(kind, u) ==
  IF kind \in {"complete", "otp"} THEN scanned[u] \cup {None} ELSE {None}

Start(p, r) ==
  /\ req[p] = None
  /\ \E t \in Sendable(r.kind, r.user), c \in Codes(r.kind, r.user) :
       req' = [req EXCEPT ![p] = [kind |-> r.kind, user |-> r.user, token |-> t, code |-> c,
                                  row |-> None, secret |-> None, count |-> 0]]
  /\ todo' = [todo EXCEPT ![p] = Plan(r.kind)]
  /\ UNCHANGED <<stores, outside, history>>

-----------------------------------------------------------------------------
(* The users.                                                                *)

(* A request is refused for the user it reads. *)
SetupRefused(r, row) ==
  row.key = None /\ (r.secret = None \/ r.code # r.secret)

Refused(r, row) ==
  CASE r.kind = "invite"         -> row.status # "absent"
    [] r.kind = "resend"         -> row.status # "pending"
    [] r.kind = "reset_otp"      -> row.status = "absent"
    [] r.kind = "forgot"         -> row.status \in {"absent", "blocked"}
    [] r.kind = "reset_password" -> row.status # "active"
    [] r.kind = "verify"         -> row.status = "blocked"
    [] r.kind = "complete"       -> SetupRefused(r, row)
    [] r.kind = "block"          -> row.status # "active"
    [] r.kind = "unblock"        -> row.status # "blocked"
    [] r.kind \in SignInKinds    -> row.key = None \/ row.password = None \/ row.status # "active"

Read(p) ==
  LET row == user[req[p].user] IN
  /\ At(p, "read")
  /\ IF Refused(req[p], row) THEN Finish(p) /\ UNCHANGED req
     ELSE Proceed(p) /\ req' = [req EXCEPT ![p].row = row]
  /\ UNCHANGED <<stores, outside, history>>

SetUser(u, row) ==
  /\ user' = [user EXCEPT ![u] = row]
  /\ UNCHANGED <<tokens, mail, retry, mark>>

(* idx_users_tenant_email_unique decides between two invitations. *)
Insert(p) ==
  LET u == req[p].user IN
  /\ At(p, "insert")
  /\ IF user[u].status # "absent" THEN Finish(p) /\ UNCHANGED stores
     ELSE /\ Proceed(p)
          /\ SetUser(u, [status |-> "pending", password |-> None, key |-> None])
  /\ UNCHANGED <<req, outside, history>>

ClearKey(p) ==
  /\ At(p, "clear")
  /\ Proceed(p)
  /\ SetUser(req[p].user, [user[req[p].user] EXCEPT !.key = None])
  /\ UNCHANGED <<req, outside, history>>

(* Mutant: a set-up sets up the authenticator only. *)
KeyOnly(r, row, p) ==
  [row EXCEPT !.status = "active", !.key = IF r.row.key = None THEN r.secret ELSE @]

(* What is missing in the row as it was read is added to the row as it is. *)
Activated(r, row, p) ==
  [row EXCEPT !.status = "active",
              !.password = IF r.row.password = None THEN p ELSE @,
              !.key = IF r.row.key = None THEN r.secret ELSE @]

Activate(p) ==
  LET u == req[p].user IN
  /\ At(p, "activate")
  /\ Proceed(p)
  /\ SetUser(u, Activated(req[p], user[u], p))
  /\ UNCHANGED <<req, outside, history>>

SetStatus(p) ==
  LET u == req[p].user
      status == IF req[p].kind = "block" THEN "blocked" ELSE "active" IN
  /\ At(p, "status")
  /\ Proceed(p)
  /\ SetUser(u, [user[u] EXCEPT !.status = status])
  /\ UNCHANGED <<req, outside, history>>

(* The sessions to revoke are looked up by the user's id, which names none. *)
SetPassword(p) ==
  LET u == req[p].user IN
  /\ At(p, "password")
  /\ Proceed(p)
  /\ SetUser(u, [user[u] EXCEPT !.password = p])
  /\ resets' = [resets EXCEPT ![req[p].token] = @ + 1]
  /\ UNCHANGED <<req, outside, faults, expired, wrongs, signedOut>>

-----------------------------------------------------------------------------
(* TokenSessionService and the guard of the sessions.                        *)
SetTokens(new) ==
  /\ tokens' = new
  /\ UNCHANGED <<user, mail, retry, mark>>

Deleted(t) == [tokens EXCEPT ![t].live = FALSE]

Usable(r) ==
  LET t == tokens[r.token] IN t.live /\ t.type \in Accepts(r.kind)

Verify(p) ==
  /\ At(p, "verify")
  /\ IF Usable(req[p])
     THEN Proceed(p) /\ req' = [req EXCEPT ![p].secret = tokens[req[p].token].secret]
     ELSE Finish(p) /\ UNCHANGED req
  /\ UNCHANGED <<stores, outside, history>>

(* Mutant: the link is looked up and not deleted. *)
Kept(t) == tokens

Consumed(t) == Deleted(t)

Consume(p) ==
  /\ At(p, "consume")
  /\ IF Usable(req[p]) THEN Proceed(p) /\ SetTokens(Consumed(req[p].token))
     ELSE Finish(p) /\ UNCHANGED stores
  /\ UNCHANGED <<req, outside, history>>

Drop(p) ==
  /\ At(p, "drop")
  /\ Proceed(p)
  /\ SetTokens(Deleted(req[p].token))
  /\ UNCHANGED <<req, outside, history>>

(* Mutant: whatever was issued to the user is revoked. *)
EveryToken(r) == {t \in Token : tokens[t] # None /\ tokens[t].user = r.user}

ToRevoke(r) ==
  {t \in Token : tokens[t] # None /\ tokens[t].user = r.user /\ tokens[t].type = TypeOf(r.kind)}

Revoke(p) ==
  /\ At(p, "revoke")
  /\ Proceed(p)
  /\ SetTokens([t \in Token |->
       IF t \in ToRevoke(req[p]) THEN [tokens[t] EXCEPT !.live = FALSE] ELSE tokens[t]])
  /\ UNCHANGED <<req, outside, history>>

(* The link of an OTP reset carries its secret from the start. A session goes into
   the cookies of the answer. *)
Create(p) ==
  LET r == req[p]  type == TypeOf(r.kind) IN
  /\ At(p, "create")
  /\ Proceed(p)
  /\ SetTokens([tokens EXCEPT ![p] =
       [type |-> type, user |-> r.user, live |-> TRUE,
        secret |-> IF type = "otp_reset" THEN p ELSE None]])
  /\ cookie' = IF type = "session" THEN [cookie EXCEPT ![r.user] = p] ELSE cookie
  /\ UNCHANGED <<req, inbox, scanned, window, history>>

(* The QR code of a link: its secret is generated the first time it is shown. *)
Show(p) ==
  LET r == req[p]
      shown == IF r.secret = None THEN p ELSE r.secret IN
  /\ At(p, "show")
  /\ Proceed(p)
  /\ IF r.row.key # None THEN UNCHANGED <<stores, scanned>>
     ELSE /\ scanned' = [scanned EXCEPT ![r.user] = @ \cup {shown}]
          /\ SetTokens(IF tokens[r.token].live THEN [tokens EXCEPT ![r.token].secret = shown]
                       ELSE tokens)
  /\ UNCHANGED <<req, inbox, cookie, window, history>>

(* The route of logOut is public: no guard tells it whose session to revoke. *)
LogOut(u) ==
  /\ cookie[u] # None
  /\ cookie' = [cookie EXCEPT ![u] = None]
  /\ signedOut' = signedOut \cup {cookie[u]}
  /\ UNCHANGED <<stores, inbox, scanned, window, req, todo, faults, expired, wrongs, resets>>

-----------------------------------------------------------------------------
(* Signing in.                                                               *)
MarkRefuses(r) ==
  IF r.kind = "otp" THEN ~mark[r.user] \/ r.code # r.row.key ELSE mark[r.user]

CheckMark(p) ==
  LET r == req[p] IN
  /\ At(p, "mark")
  /\ IF MarkRefuses(r) THEN Finish(p) /\ UNCHANGED wrongs
     ELSE /\ Proceed(p)
          /\ wrongs' = IF r.kind = "wrong_password" THEN [wrongs EXCEPT ![r.user] = @ + 1]
                       ELSE wrongs
  /\ UNCHANGED <<stores, outside, req, faults, expired, resets, signedOut>>

SetMark(p) ==
  LET put == At(p, "setmark") IN
  /\ put \/ At(p, "unmark")
  /\ Proceed(p)
  /\ mark' = [mark EXCEPT ![req[p].user] = put]
  /\ UNCHANGED <<user, tokens, mail, retry, outside, req, history>>

(* Mutant: the count starts at two. *)
FromTwo(u) == IF retry[u] = 0 THEN 2 ELSE retry[u]

Count(u) == IF retry[u] = 0 THEN 1 ELSE retry[u]

ReadCount(p) ==
  /\ At(p, "count")
  /\ Proceed(p)
  /\ req' = [req EXCEPT ![p].count = Count(req[p].user)]
  /\ UNCHANGED <<stores, outside, history>>

Recount(p) ==
  LET r == req[p] IN
  /\ At(p, "recount")
  /\ Proceed(p)
  /\ IF r.count >= RetryLimit
     THEN SetUser(r.user, [user[r.user] EXCEPT !.status = "locked"])
     ELSE /\ retry' = [retry EXCEPT ![r.user] = r.count + 1]
          /\ UNCHANGED <<user, tokens, mail, mark>>
  /\ UNCHANGED <<req, outside, history>>

-----------------------------------------------------------------------------
(* The mails.                                                                *)
MailOf(p) ==
  [user |-> req[p].user, type |-> TypeOf(req[p].kind), token |-> p,
   window |-> window, failed |-> FALSE]

(* The jobId of an invitation names the address and the window only. *)
SameJob(m, n) ==
  m.type = "invite" /\ n.type = "invite" /\ m.user = n.user /\ m.window = n.window

SendMail(p) ==
  /\ At(p, "mail")
  /\ Proceed(p)
  /\ mail' = IF \E m \in mail : SameJob(m, MailOf(p)) THEN mail ELSE mail \cup {MailOf(p)}
  /\ UNCHANGED <<user, tokens, retry, mark, req, outside, history>>

Deliver(m) ==
  /\ ~m.failed
  /\ mail' = mail \ {m}
  /\ inbox' = [inbox EXCEPT ![m.user] = @ \cup {m.token}]
  /\ UNCHANGED <<user, tokens, retry, mark, scanned, cookie, window, req, todo, history>>

(* A failed invitation keeps its jobId. *)
MailFails(m) ==
  /\ ~m.failed
  /\ faults < MaxFaults
  /\ faults' = faults + 1
  /\ mail' = (mail \ {m}) \cup (IF m.type = "invite" THEN {[m EXCEPT !.failed = TRUE]} ELSE {})
  /\ UNCHANGED <<user, tokens, retry, mark, outside, req, todo, expired, wrongs, resets, signedOut>>

NextWindow ==
  /\ window < MaxWindow
  /\ window' = window + 1
  /\ UNCHANGED <<stores, inbox, scanned, cookie, req, todo, history>>

-----------------------------------------------------------------------------
(* Faults and time.                                                          *)
Crash(p) ==
  /\ todo[p] # <<>>
  /\ faults < MaxFaults
  /\ faults' = faults + 1
  /\ Finish(p)
  /\ UNCHANGED <<stores, outside, req, expired, wrongs, resets, signedOut>>

(* The TTL index of app_tokens, and the expiresAt each look-up compares. *)
TokenExpires(t) ==
  /\ tokens[t] # None /\ tokens[t].live
  /\ faults < MaxFaults
  /\ faults' = faults + 1
  /\ expired' = expired \cup {t}
  /\ SetTokens(Deleted(t))
  /\ UNCHANGED <<outside, req, todo, wrongs, resets, signedOut>>

(* The five minutes of the mark and the two hours of the count. *)
CacheExpires(u) ==
  /\ \/ mark[u] /\ mark' = [mark EXCEPT ![u] = FALSE] /\ UNCHANGED retry
     \/ retry[u] # 0 /\ retry' = [retry EXCEPT ![u] = 0] /\ UNCHANGED mark
  /\ UNCHANGED <<user, tokens, mail, outside, req, todo, history>>

-----------------------------------------------------------------------------
Init ==
  \E o \in Opening :
    /\ user = o.user /\ tokens = o.tokens /\ inbox = o.inbox /\ scanned = o.scanned
    /\ retry = o.retry /\ cookie = o.cookie
    /\ mail = {}
    /\ mark = [u \in User |-> FALSE]
    /\ req = [p \in Process |-> None]
    /\ todo = [p \in Process |-> <<>>]
    /\ window = 0
    /\ faults = 0
    /\ expired = {}
    /\ wrongs = [u \in User |-> IF o.retry[u] = 0 THEN 0 ELSE o.retry[u] - 1]
    /\ resets = [t \in Token |-> 0]
    /\ signedOut = {}

UserSteps(p) ==
  Read(p) \/ Insert(p) \/ ClearKey(p) \/ Activate(p) \/ SetStatus(p) \/ SetPassword(p)
TokenSteps(p) ==
  Verify(p) \/ Consume(p) \/ Drop(p) \/ Revoke(p) \/ Create(p) \/ Show(p)
SignInSteps(p) == CheckMark(p) \/ SetMark(p) \/ ReadCount(p) \/ Recount(p)

Next ==
  \/ \E p \in Process :
       \/ \E r \in Request : Start(p, r)
       \/ UserSteps(p) \/ TokenSteps(p) \/ SignInSteps(p) \/ SendMail(p) \/ Crash(p)
  \/ \E m \in mail : Deliver(m) \/ MailFails(m)
  \/ \E u \in User : LogOut(u) \/ CacheExpires(u)
  \/ \E t \in Token : TokenExpires(t)
  \/ NextWindow

Spec == Init /\ [][Next]_vars

-----------------------------------------------------------------------------
(* Properties.                                                               *)
(* Every store keeps its rows well formed, a request only waits with a step to do, and
   whoever is past his invitation has a password. *)
TypeOK ==
  /\ user \in [User -> UserRow]
  /\ \A u \in User : user[u].password = None => user[u].status \in {"absent", "pending"}
  /\ tokens \in [Token -> TokenRecord \cup {None}]
  /\ mail \subseteq Mail
  /\ inbox \in [User -> SUBSET Token]
  /\ scanned \in [User -> SUBSET Secret]
  /\ retry \in [User -> Nat]
  /\ mark \in [User -> BOOLEAN]
  /\ cookie \in [User -> Token \cup {None}]
  /\ req \in [Process -> RequestRecord \cup {None}]
  /\ \A p \in Process : todo[p] # <<>> => req[p] # None
  /\ window \in 0..MaxWindow
  /\ faults \in 0..MaxFaults
  /\ expired \subseteq Token
  /\ wrongs \in [User -> Nat]
  /\ resets \in [Token -> Nat]
  /\ signedOut \subseteq Token

(* A link that leads to the set-up of a user, and a request that will issue one. *)
SetupLink(u) ==
  \E t \in Token :
    /\ tokens[t] # None /\ tokens[t].live
    /\ tokens[t].user = u /\ tokens[t].type \in {"invite", "otp_reset"}
LinkComing(u) ==
  \E p \in Process :
    /\ Contains(todo[p], "create")
    /\ req[p].user = u /\ req[p].kind \in {"invite", "resend", "reset_otp"}

(* A user without a password or an authenticator can complete the set-up: as long as
   nothing dies or expires, whatever invitations, resets, blocks and half-finished
   set-ups overlap, a link is valid or on its way. *)
NeverStranded ==
  faults = 0 =>
    \A u \in User :
      LET row == user[u] IN
      row.status # "absent" /\ (row.key = None \/ row.password = None)
        => SetupLink(u) \/ LinkComing(u)

(* A user who is invited, and invited again, gets a mail with a link that works, once the
   requests are answered and the mails delivered ("Invitation resent successfully"). *)
InvitationArrives ==
  \A u \in User :
    /\ user[u].status = "pending" /\ faults = 0 /\ mail = {}
    /\ \A p \in Process : todo[p] = <<>>
    => \E t \in inbox[u] : tokens[t].live

(* A link to reset a password sets one password, however often and from however many
   windows it is sent (consumeToken). *)
ResetLinkUsedOnce == \A t \in Token : resets[t] <= 1

(* A user is locked only after RetryLimit wrong passwords; attempts that are counted
   in parallel may count for less and never for more (loginUser). *)
LockedForCause ==
  \A u \in User :
    /\ user[u].status = "locked" => wrongs[u] >= RetryLimit
    /\ retry[u] <= wrongs[u] + 1

(* Nobody is thrown out by what others do: the session that a call brings is live, although
   a call in parallel may have refreshed the cookies, a link to set the password may have
   been asked for and an administrator may have reset the authenticator; unless its time is
   over, its user has signed out, or a link has set his password (CookieGuard). *)
WasReset(u) == \E t \in Token : resets[t] # 0 /\ tokens[t].user = u
NobodyThrownOut ==
  \A p \in Process :
    At(p, "verify") /\ req[p].kind \in SessionKinds
      => \/ Usable(req[p])
         \/ req[p].token \in expired \cup signedOut
         \/ WasReset(req[p].user)
=============================================================================
